------------------------------ MODULE PidTable ------------------------------
(***************************************************************************)
(* The userspace PID table of the process tracer (src/bpf/process_filter.h):*)
(* open addressing, linear probing, no tombstones.                         *)
(*                                                                         *)
(* A table maps every slot to the PID of its active entry, or to Free.  An *)
(* inactive entry's PID is never read by the code (every loop tests        *)
(* is_active first), so Free stands for every inactive entry.              *)
(*                                                                         *)
(* The definitions are functions of the table, not actions: PidTracker and *)
(* ProcessTracer build their state machines from them.                     *)
(***************************************************************************)
EXTENDS Naturals

CONSTANTS
  Size,  \* TRACKED_PIDS_HASH_SIZE
  Pids,  \* the PIDs that may be tracked
  Free   \* an inactive entry

ASSUME PidTableAssumption ==
  /\ Size \in Nat \ {0}
  /\ Pids \subseteq Nat
  /\ Free \notin Nat

Slots == 0 .. (Size - 1)

Tables == [Slots -> Pids \cup {Free}]

\* memset in pid_tracker_init
EmptyTable == [s \in Slots |-> Free]

\* The slot examined at step i of a probe: pid_hash(pid) + i, masked.
Probe(pid, i) == (pid + i) % Size

\* Step i of the probe for pid returns its entry: the entries before it are
\* all active, and none of them is pid's.
FoundAt(table, pid, i) ==
  /\ table[Probe(pid, i)] = pid
  /\ \A j \in 0 .. (i - 1) : table[Probe(pid, j)] \notin {Free, pid}

\* pid_tracker_find returns an entry
Find(table, pid) == \E i \in Slots : FoundAt(table, pid, i)

\* Step i of the probe for pid is the first inactive entry.
FreeAt(table, pid, i) ==
  /\ table[Probe(pid, i)] = Free
  /\ \A j \in 0 .. (i - 1) : table[Probe(pid, j)] # Free

\* pid_tracker_add returns true
AddSucceeds(table, pid) ==
  Find(table, pid) \/ \E i \in Slots : FreeAt(table, pid, i)

\* A mutant: the existing entry is not looked for before one is taken.
AddUnchecked(table, pid) ==
  IF \E i \in Slots : FreeAt(table, pid, i)
    THEN LET i == CHOOSE k \in Slots : FreeAt(table, pid, k)
         IN  [table EXCEPT ![Probe(pid, i)] = pid]
    ELSE table

\* A mutant: a full table overwrites the entry at the PID's own slot.
AddEvicting(table, pid) ==
  IF Find(table, pid) THEN table
  ELSE IF \E i \in Slots : FreeAt(table, pid, i)
    THEN LET i == CHOOSE k \in Slots : FreeAt(table, pid, k)
         IN  [table EXCEPT ![Probe(pid, i)] = pid]
    ELSE [table EXCEPT ![Probe(pid, 0)] = pid]

\* pid_tracker_add: the table it leaves
Add(table, pid) ==
  IF ~ Find(table, pid) /\ \E i \in Slots : FreeAt(table, pid, i)
    THEN LET i == CHOOSE k \in Slots : FreeAt(table, pid, k)
         IN  [table EXCEPT ![Probe(pid, i)] = pid]
    ELSE table

\* A mutant: the search for the entry does not stop at the first one.
RemoveLast(table, pid) ==
  LET hits == {i \in Slots : table[Probe(pid, i)] = pid}
  IN  IF hits = {} THEN table
      ELSE [table EXCEPT ![Probe(pid, CHOOSE i \in hits : \A j \in hits : j <= i)] = Free]

\* pid_tracker_remove: the entry found becomes inactive, nothing is moved
Remove(table, pid) ==
  IF Find(table, pid)
    THEN LET i == CHOOSE k \in Slots : FoundAt(table, pid, k)
         IN  [table EXCEPT ![Probe(pid, i)] = Free]
    ELSE table

\* The PIDs pid_tracker_is_tracked answers true for
TrackedIn(table) == {p \in Pids : Find(table, p)}

\* No two of these PIDs share a home slot: what holds while they are within
\* one window of TRACKED_PIDS_HASH_SIZE consecutive numbers.
DistinctHomes(pids) == \A p, q \in pids : Probe(p, 0) = Probe(q, 0) => p = q

\* The PIDs with an active entry: what pid_tracker_foreach visits
StoredIn(table) == {p \in Pids : \E s \in Slots : table[s] = p}

=============================================================================
