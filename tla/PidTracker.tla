----------------------------- MODULE PidTracker -----------------------------
(***************************************************************************)
(* The PID tracker as a component: any sequence of pid_tracker_add and     *)
(* pid_tracker_remove calls, against a history of what the callers were    *)
(* promised.  The tracer is single-threaded, so a call is one step.        *)
(***************************************************************************)
EXTENDS PidTable, FiniteSets

VARIABLES
  inPlay,   \* the PIDs that occur on this machine while the tracer runs
  table,    \* tracker->entries
  answer,   \* what the last call returned: an add "added" or "refused", a
            \* removal nothing ("removed")
  promised, \* history: PIDs whose add returned true and were not removed since
  removed   \* history: whether any PID has been removed

vars == <<inPlay, table, answer, promised, removed>>

Init ==
  /\ inPlay \in (SUBSET Pids) \ {{}}
  /\ table = EmptyTable
  /\ answer = "removed"
  /\ promised = {}
  /\ removed = FALSE

AddPid(p) ==
  /\ answer' = IF AddSucceeds(table, p) THEN "added" ELSE "refused"
  /\ table' = Add(table, p)
  /\ promised' = IF answer' = "added" THEN promised \cup {p} ELSE promised
  /\ UNCHANGED <<inPlay, removed>>

RemovePid(p) ==
  /\ table' = Remove(table, p)
  /\ answer' = "removed"
  /\ promised' = promised \ {p}
  /\ removed' = TRUE
  /\ UNCHANGED inPlay

Next == \E p \in inPlay : AddPid(p) \/ RemovePid(p)

Spec == Init /\ [][Next]_vars

-----------------------------------------------------------------------------
TypeOK ==
  /\ inPlay \in SUBSET Pids
  /\ table \in [Slots -> inPlay \cup {Free}]
  /\ answer \in {"added", "refused", "removed"}
  /\ promised \in SUBSET inPlay
  /\ removed \in BOOLEAN

NoCollisions == DistinctHomes(inPlay)

\* A promised PID always has an active entry somewhere: neither a removal of
\* another PID nor a full table ever destroys it (pid_tracker_foreach still
\* visits it), although the probe may no longer reach it.
PromisedStored == promised \subseteq StoredIn(table)

\* Removal leaves a gap in a chain of colliding PIDs.  Without collisions
\* there are no chains, and before the first removal there are no gaps.
Reliable == NoCollisions \/ ~removed

\* Until then the tracker answers for exactly the promised PIDs.
Exact == Reliable => TrackedIn(table) = promised

\* What the tracker's tests say of every add (test_process_filter.c,
\* "should find all added PIDs"): a PID added and not removed is found.
AddedIsFound == promised \subseteq TrackedIn(table)

\* What the tests say of every removal (test_process_filter.c, "should not
\* find PID after removal"): the PID removed is not found next, even when a
\* duplicate entry of it survives in a later slot.
RemovedIsNotFound ==
  [][\A p \in inPlay : RemovePid(p) => p \notin TrackedIn(table')]_vars

\* The set of PIDs the table answers for, and the claim that every call on
\* the table is the same call on that set: with any collisions, a PID just
\* added is found and an add makes no other PID disappear; and while the
\* table is reliable, it is the set.
Abstract == INSTANCE PidSet WITH
  Capacity <- Size,
  members  <- TrackedIn(table),
  answer   <- answer,
  reliable <- Reliable

ImplementsSet == Abstract!SetSpec

=============================================================================
