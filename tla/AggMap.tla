------------------------------- MODULE AggMap --------------------------------
(***************************************************************************)
(* The aggregation map event_agg_map: syscall probes on several CPUs count *)
(* operations in it (update_agg_map, agg_path_event) while the tracer's    *)
(* main thread prints and deletes its entries (flush_agg_map,              *)
(* flush_pid_from_agg_map) and drains the overflow counters                *)
(* (check_overflow).  Nothing locks the map: a lookup hands out a pointer  *)
(* to an element, and a deleted element of a preallocated hash map may be  *)
(* taken by another key while that pointer is in use.                      *)
(***************************************************************************)
EXTENDS Naturals, FiniteSets, Sequences, Functions

CONSTANTS
  Cpus,    \* CPUs that run probes
  Elems,   \* the preallocated elements; their number is max_entries
  Keys,    \* naturals: the keys in the order the map enumerates them
  PidOf,   \* the pid field of a key
  DelCap,  \* length of to_delete in flush_pid_from_agg_map
  Ops,     \* bound: operations performed
  Rounds,  \* bound: flushes and overflow checks performed
  None

AggMapAssumption ==
  /\ IsFiniteSet(Cpus) /\ IsFiniteSet(Keys) /\ Keys \subseteq Nat
  /\ DOMAIN PidOf = Keys /\ \A k \in Keys : PidOf[k] # None
  /\ DelCap \in Nat /\ Ops \in Nat /\ Rounds \in Nat
  /\ None \notin Keys \cup Elems

VARIABLES
  index,     \* the element of each key, or None
  content,   \* key and count of each element, whether in the map or freed
  cpu,       \* the probe running on each CPU
  overflow,  \* agg_overflow_count, one counter per CPU
  user,      \* the main thread: what it is flushing, and how far it is
  issued,    \* history: operations performed
  printed,   \* history: sum of the counts printed in SUMMARY lines
  warned,    \* history: sum of the counts printed in AGG_MAP_OVERFLOW lines
  overlap,   \* history: a probe and a flush or check have run at the same time
  rounds     \* bound on Rounds

probes == <<index, content, cpu, overflow, issued>>
vars   == <<probes, user, printed, warned, overlap, rounds>>

Idle == [pc |-> "idle", key |-> None, elem |-> None]

Rest == [pc |-> "idle", cursor |-> None, pid |-> None, toDelete |-> << >>]

Init ==
  /\ index = [k \in Keys |-> None]
  /\ content = [e \in Elems |-> [key |-> None, count |-> 0]]
  /\ cpu = [c \in Cpus |-> Idle]
  /\ overflow = [c \in Cpus |-> 0]
  /\ user = Rest
  /\ issued = 0 /\ printed = 0 /\ warned = 0
  /\ overlap = FALSE /\ rounds = 0

InMap == {k \in Keys : index[k] # None}
FreeElems == Elems \ {index[k] : k \in InMap}
ProbeStep == overlap' = (overlap \/ user.pc # "idle")

-----------------------------------------------------------------------------
\* update_agg_map on a CPU: look the key up, then add or insert.

Lookup(c, k) ==
  /\ issued < Ops
  /\ cpu[c].pc = "idle"
  /\ cpu' = [cpu EXCEPT ![c] =
       [pc |-> IF index[k] = None THEN "insert" ELSE "add", key |-> k, elem |-> index[k]]]
  /\ issued' = issued + 1
  /\ ProbeStep
  /\ UNCHANGED <<index, content, overflow, user, printed, warned, rounds>>

\* A mutant: the first operation on an existing entry is counted twice.
AddTwice(c) ==
  /\ cpu[c].pc = "add"
  /\ content' = [content EXCEPT ![cpu[c].elem].count = @ + 2]
  /\ cpu' = [cpu EXCEPT ![c] = Idle]
  /\ ProbeStep
  /\ UNCHANGED <<index, overflow, issued, user, printed, warned, rounds>>

\* __sync_fetch_and_add on the element, whatever has become of it since
AddToElement(c) ==
  /\ cpu[c].pc = "add"
  /\ content' = [content EXCEPT ![cpu[c].elem].count = @ + 1]
  /\ cpu' = [cpu EXCEPT ![c] = Idle]
  /\ ProbeStep
  /\ UNCHANGED <<index, overflow, issued, user, printed, warned, rounds>>

\* bpf_map_update_elem with BPF_NOEXIST: the key may have been inserted by
\* another CPU since the lookup; every failure bumps the overflow counter.
Insert(c) ==
  /\ cpu[c].pc = "insert"
  /\ \/ /\ index[cpu[c].key] = None
        /\ \E e \in FreeElems :
             /\ index' = [index EXCEPT ![cpu[c].key] = e]
             /\ content' = [content EXCEPT ![e] = [key |-> cpu[c].key, count |-> 1]]
        /\ UNCHANGED overflow
     \/ /\ index[cpu[c].key] # None \/ FreeElems = {}
        /\ overflow' = [overflow EXCEPT ![c] = @ + 1]
        /\ UNCHANGED <<index, content>>
  /\ cpu' = [cpu EXCEPT ![c] = Idle]
  /\ ProbeStep
  /\ UNCHANGED <<issued, user, printed, warned, rounds>>

-----------------------------------------------------------------------------
\* The main thread

\* A mutant: an absent key has no successor.
NextKeyFromPresent(k) ==
  IF k # None /\ index[k] = None THEN {}
  ELSE LET after == {j \in InMap : k = None \/ j > k}
       IN  {j \in after : \A i \in after : j <= i}

\* bpf_map_get_next_key: the successor of a key in the map, the first key
\* when the given one is not in it; the set is empty at the end.
NextKey(k) ==
  LET after == {j \in InMap : k = None \/ index[k] = None \/ j > k}
  IN  {j \in after : \A i \in after : j <= i}

Begin(pc, pid) ==
  /\ user.pc = "idle" /\ rounds < Rounds
  /\ user' = [Rest EXCEPT !.pc = pc, !.pid = pid]
  /\ rounds' = rounds + 1
  /\ overlap' = (overlap \/ \E c \in Cpus : cpu[c].pc # "idle")
  /\ UNCHANGED <<probes, printed, warned>>

FlushAll      == Begin("all", None)
FlushPid(p)   == Begin("pid", p)
CheckOverflow == Begin("check", None)

Unmap(k) == index' = [index EXCEPT ![k] = None]

\* An iteration of flush_agg_map up to the deletion ...
VisitAll ==
  /\ user.pc = "all"
  /\ \E k \in NextKey(user.cursor) :
       /\ printed' = printed + content[index[k]].count
       /\ user' = [user EXCEPT !.pc = "delete", !.cursor = k]
  /\ UNCHANGED <<probes, warned, overlap, rounds>>

\* ... and the deletion; what was added in between goes with the element.
DeleteVisited ==
  /\ user.pc = "delete"
  /\ Unmap(user.cursor)
  /\ user' = [user EXCEPT !.pc = "all"]
  /\ UNCHANGED <<content, cpu, overflow, issued, printed, warned, overlap, rounds>>

EndAll ==
  /\ user.pc = "all" /\ NextKey(user.cursor) = {}
  /\ user' = [Rest EXCEPT !.pc = "ended"]
  /\ UNCHANGED <<probes, printed, warned, overlap, rounds>>

\* flush_pid_from_agg_map: the whole map is walked before anything is deleted.
VisitForPid ==
  /\ user.pc = "pid"
  /\ \E k \in NextKey(user.cursor) :
       IF PidOf[k] = user.pid
         THEN /\ printed' = printed + content[index[k]].count
              /\ user' = [user EXCEPT !.cursor = k, !.toDelete =
                   IF Len(@) < DelCap THEN Append(@, k) ELSE @]
         ELSE /\ user' = [user EXCEPT !.cursor = k]
              /\ UNCHANGED printed
  /\ UNCHANGED <<probes, warned, overlap, rounds>>

EndWalk ==
  /\ user.pc = "pid" /\ NextKey(user.cursor) = {}
  /\ user' = [user EXCEPT !.pc = "deleting"]
  /\ UNCHANGED <<probes, printed, warned, overlap, rounds>>

DeleteForPid ==
  /\ user.pc = "deleting" /\ user.toDelete # << >>
  /\ Unmap(Head(user.toDelete))
  /\ user' = [user EXCEPT !.toDelete = Tail(@)]
  /\ UNCHANGED <<content, cpu, overflow, issued, printed, warned, overlap, rounds>>

EndPid ==
  /\ user.pc = "deleting" /\ user.toDelete = << >>
  /\ user' = [Rest EXCEPT !.pc = "ended", !.pid = user.pid]
  /\ UNCHANGED <<probes, printed, warned, overlap, rounds>>

Return ==
  /\ user.pc = "ended"
  /\ user' = Rest
  /\ UNCHANGED <<probes, printed, warned, overlap, rounds>>

\* check_overflow: read all counters and report their sum ...
ReportOverflow ==
  /\ user.pc = "check"
  /\ LET total == SumFunction(overflow) IN
       /\ warned' = warned + total
       /\ user' = [user EXCEPT !.pc = IF total > 0 THEN "reset" ELSE "idle"]
  /\ UNCHANGED <<probes, printed, overlap, rounds>>

\* A mutant: the counters are not reset.
ResetNothing ==
  /\ user.pc = "reset"
  /\ user' = Rest
  /\ UNCHANGED <<probes, printed, warned, overlap, rounds>>

\* ... and then reset them, losing what has been counted since.
ResetOverflow ==
  /\ user.pc = "reset"
  /\ overflow' = [c \in Cpus |-> 0]
  /\ user' = Rest
  /\ UNCHANGED <<index, content, cpu, issued, printed, warned, overlap, rounds>>

Next ==
  \/ \E c \in Cpus : (\E k \in Keys : Lookup(c, k)) \/ AddToElement(c) \/ Insert(c)
  \/ FlushAll \/ VisitAll \/ DeleteVisited \/ EndAll
  \/ (\E k \in Keys : FlushPid(PidOf[k])) \/ VisitForPid \/ EndWalk \/ DeleteForPid \/ EndPid
  \/ CheckOverflow \/ ReportOverflow \/ ResetOverflow
  \/ Return

Spec == Init /\ [][Next]_vars

-----------------------------------------------------------------------------
\* The shape of the state: no two keys share an element, an element of the
\* map holds its key, and a walk deletes only keys of the PID it is for.
TypeOK ==
  /\ \A k \in InMap : index[k] \in Elems /\ content[index[k]].key = k
  /\ \A c \in Cpus : overflow[c] \in 0 .. Ops
  /\ \A c \in Cpus : cpu[c].pc = "add" => cpu[c].elem \in Elems
  /\ Len(user.toDelete) <= DelCap
  /\ \A i \in DOMAIN user.toDelete : PidOf[user.toDelete[i]] = user.pid

PidsFit == \A k \in Keys : Cardinality({j \in Keys : PidOf[j] = PidOf[k]}) <= DelCap
Running == Cardinality({c \in Cpus : cpu[c].pc # "idle"})

\* The map keeps its shape, and what SUMMARY and WARNING lines add up to never exceeds what the
\* processes did, however probes, flushes and checks interleave, as long as
\* flush_pid_from_agg_map's array holds every key of a PID.
NeverOverReported == TypeOK /\ (PidsFit => printed + warned <= issued)

\* If no probe ever runs during a flush or a check, every operation is
\* accounted for exactly once: printed, still in the map, or counted as overflow.
ExactWithoutOverlap ==
  (PidsFit /\ ~overlap /\ user.pc \in {"idle", "ended"}) =>
    issued = printed + warned + Running + SumFunction(overflow)
             + SumFunction([k \in InMap |-> content[index[k]].count])

\* A flush during which no probe runs leaves nothing behind for the PID it is
\* for (for any PID, when it is flush_agg_map): the entries of a PID that
\* has exited are not visited again until the final flush.
FlushIsComplete ==
  (PidsFit /\ ~overlap /\ user.pc = "ended") =>
    \A k \in InMap : user.pid # None /\ PidOf[k] # user.pid

=============================================================================
