---------------------------- MODULE FileOpenDedup ----------------------------
(***************************************************************************)
(* What the process tracer's main thread does with FILE_OPEN records: the  *)
(* limit per PID and second, the aggregation of repeated opens in the      *)
(* table file_hashes, and the flush when the process exits.  Records are   *)
(* handled in the order they were reserved in the ring buffer, but a probe *)
(* reads the clock after the reservation, so that the timestamps of two    *)
(* records may be in the other order, by up to Skew.                       *)
(***************************************************************************)
EXTENDS Integers, Sequences, SequencesExt, FiniteSets

CONSTANTS
  Pids, Paths,
  Hash,       \* hash_file_open: a function of <<pid, path>>
  MaxHashes,  \* MAX_FILE_HASHES
  MaxLimits,  \* MAX_PID_LIMITS
  PerSecond,  \* MAX_DISTINCT_FILES_PER_SEC
  Second,     \* ticks in a second
  Window,     \* FILE_DEDUP_WINDOW_NS, in ticks
  Wide,       \* 2^64: timestamps are unsigned
  Skew,       \* how far timestamps may run backwards
  MaxTime,    \* bound: the last tick
  MaxOpens,   \* bound: number of FILE_OPEN records
  None

Files  == Pids \X Paths
Hashes == {Hash[f] : f \in Files}

FileOpenAssumption ==
  /\ DOMAIN Hash = Files
  /\ MaxHashes \in Nat \ {0} /\ MaxLimits \in Nat \ {0} /\ PerSecond \in Nat \ {0}
  /\ Second \in Nat \ {0} /\ Window \in Nat /\ Skew \in Nat
  /\ MaxTime \in Nat /\ MaxOpens \in Nat
  /\ Wide \in Nat /\ Wide > MaxTime + Window
  /\ None \notin Nat

VARIABLES
  hashes,    \* file_hashes[0 .. hash_count - 1]
  limits,    \* pid_limits[0 .. pid_limit_count - 1]
  clock,     \* the largest timestamp handled
  opens,     \* bound on MaxOpens
  accepted,  \* history: opens of each hash that passed the limit
  firsts,    \* history: lines printed for single opens
  later,     \* history: sum of count - 1 over the aggregate lines printed
  seen,      \* history: timestamp of the last accepted open of each file by its
             \* present process, None if it found no room in the table
  owed,      \* history: the PID has had an open dropped since its last warning
  late       \* history: a timestamp has run backwards

vars == <<hashes, limits, clock, opens, accepted, firsts, later, seen, owed, late>>

Init ==
  /\ hashes = << >> /\ limits = << >>
  /\ clock = 0 /\ opens = 0
  /\ accepted = [h \in Hashes |-> 0]
  /\ firsts = [h \in Hashes |-> 0] /\ later = [h \in Hashes |-> 0]
  /\ seen = [f \in Files |-> None]
  /\ owed = [p \in Pids |-> FALSE]
  /\ late = FALSE

\* The opens that the aggregate lines for these processes' entries add to the
\* first ones
Later(table, h, pids) == SumFunction([i \in DOMAIN table |->
  IF table[i].hash = h /\ table[i].pid \in pids THEN table[i].count - 1 ELSE 0])

\* The last entry moves into the place of the i-th.
MoveLast(s, i) == Front([s EXCEPT ![i] = Last(s)])

\* A mutant: the entry moved into the place is not looked at (no i--).
LookSkipping(st, gone) ==
  IF st.i > Len(st.s) THEN st
  ELSE [st EXCEPT !.i = @ + 1, !.s = IF st.s[st.i] \in gone THEN MoveLast(@, st.i) ELSE @]

\* An iteration of the removal loops of get_file_open_count and
\* flush_pid_file_opens: i--, and the index is looked at again, or i++.
Look(st, gone) ==
  LET e == st.s[st.i] IN
  IF e \in gone
    THEN [i |-> st.i, s |-> MoveLast(st.s, st.i), out |-> [st.out EXCEPT ![e.hash] = @ + e.count - 1]]
    ELSE [st EXCEPT !.i = @ + 1]

\* The table after the loop, and the opens in the lines that the loop prints
Sweep(s, gone) ==
  LET run[n \in 0 .. Len(s)] ==
        IF n = 0 THEN [i |-> 1, s |-> s, out |-> [h \in Hashes |-> 0]]
        ELSE Look(run[n - 1], gone)
  IN  run[Len(s)]

\* A mutant: an entry expires at the end of the window.
ExpiredEarly(e, ts) == (ts - e.ts) % Wide >= Window

\* The subtraction is unsigned: an entry from the future has expired too.
Expired(e, ts) == (ts - e.ts) % Wide > Window

-----------------------------------------------------------------------------
At(s, Test(_)) == SelectInSeq(s, Test)  \* the first index that passes, or 0

\* The PID's entry in pid_limits as should_rate_limit_file leaves it
Limited(ts, entry) ==
  LET second == ts \div Second
      fresh  == entry.second # second
      count  == IF fresh THEN 1 ELSE entry.count + 1
  IN  [pid |-> entry.pid, second |-> second, count |-> count,
       warn |-> count > PerSecond \/ (~fresh /\ entry.warn)]

\* should_rate_limit_file: the table afterwards, whether the open is
\* dropped, and whether a warning is due.  A PID without an entry that
\* finds the table full is not limited.
Limit(p, ts) ==
  LET i     == At(limits, LAMBDA l : l.pid = p)
      new   == [pid |-> p, second |-> ts \div Second, count |-> 0, warn |-> FALSE]
      table == IF i = 0 /\ Len(limits) < MaxLimits THEN Append(limits, new) ELSE limits
      j     == IF i = 0 THEN Len(limits) + 1 ELSE i
  IN  IF j > Len(table) THEN [limits |-> table, drop |-> FALSE, warn |-> FALSE]
      ELSE LET entry == Limited(ts, table[j]) IN
           [limits |-> [table EXCEPT ![j] = entry],
            drop   |-> entry.count > PerSecond,
            warn   |-> table[j].warn /\ entry.second # table[j].second]

Handle(ts) ==
  /\ ts + Skew >= clock
  /\ clock' = IF ts > clock THEN ts ELSE clock
  /\ late' = (late \/ ts < clock)

Dropped(p, limit) ==
  /\ limit.drop
  /\ owed' = [owed EXCEPT ![p] = TRUE]
  /\ UNCHANGED <<hashes, accepted, firsts, later, seen>>

\* The entries that stay, and the lines printed for those that go
Live(ts) == Sweep(hashes, {e \in ToSet(hashes) : Expired(e, ts)})

\* flush_pid_file_opens prints in a loop before the one that removes.
Others(p) == Sweep(hashes, {e \in ToSet(hashes) : e.pid = p}).s

IsFull(table) == Len(table) >= MaxHashes

Again(e, ts) == [e EXCEPT !.ts = ts, !.count = @ + 1]

\* The rest of get_file_open_count, and the line handle_event prints
Aggregate(p, f, ts, warn) ==
  LET h    == Hash[<<p, f>>]
      live == Live(ts).s
      i    == At(live, LAMBDA e : e.hash = h)
      full == IsFull(live)
  IN
  /\ accepted' = [accepted EXCEPT ![h] = @ + 1]
  /\ seen' = [seen EXCEPT ![<<p, f>>] = IF i = 0 /\ full THEN None ELSE ts]
  /\ later' = [g \in Hashes |-> later[g] + Live(ts).out[g]]
  /\ \/ /\ i # 0
        /\ hashes' = [live EXCEPT ![i] = Again(live[i], ts)]
        /\ UNCHANGED <<firsts, owed>>
     \/ /\ i = 0
        /\ hashes' = IF full THEN live
                     ELSE Append(live, [hash |-> h, pid |-> p, ts |-> ts, count |-> 1])
        /\ firsts' = [firsts EXCEPT ![h] = @ + 1]
        /\ owed' = [owed EXCEPT ![p] = @ /\ ~warn]

Open(p, f, ts) ==
  /\ opens < MaxOpens /\ opens' = opens + 1
  /\ Handle(ts)
  /\ LET limit == Limit(p, ts) IN
       /\ limits' = limit.limits
       /\ \/ Dropped(p, limit)
          \/ ~limit.drop /\ Aggregate(p, f, ts, limit.warn)

\* An EXIT record that is reported: the pending warning, then
\* flush_pid_file_opens.  The PID is another process's from here on.
Exit(p, ts) ==
  /\ Handle(ts)
  /\ LET i == At(limits, LAMBDA l : l.pid = p /\ l.warn)
     IN  limits' = IF i = 0 THEN limits ELSE MoveLast(limits, i)
  /\ later' = [h \in Hashes |-> later[h] + Later(hashes, h, {p})]
  /\ hashes' = Others(p)
  /\ seen' = [f \in Files |-> IF f[1] = p THEN None ELSE seen[f]]
  /\ owed' = [owed EXCEPT ![p] = FALSE]
  /\ UNCHANGED <<opens, accepted, firsts>>

Next == \E p \in Pids, ts \in 0 .. MaxTime :
  Exit(p, ts) \/ \E f \in Paths : Open(p, f, ts)

Spec == Init /\ [][Next]_vars

-----------------------------------------------------------------------------
\* Both tables keep their bounds and hold one entry for each key, although
\* entries move while the loops that remove them run.
TypeOK ==
  /\ Len(hashes) <= MaxHashes /\ Len(limits) <= MaxLimits
  /\ \A i, j \in DOMAIN hashes : hashes[i].hash = hashes[j].hash => i = j
  /\ \A i, j \in DOMAIN limits : limits[i].pid = limits[j].pid => i = j
  /\ \A i \in DOMAIN hashes : hashes[i].count \in Nat \ {0}

\* The tables keep their shape, and every accepted open is in exactly one line
\* of output or in the count of a pending entry, whatever expires, exits,
\* collides or overflows: the aggregate lines of get_file_open_count and
\* flush_pid_file_opens lose none.  A warning is due only to a PID whose present
\* process had an open dropped.
Accounted ==
  /\ TypeOK
  /\ \A i \in DOMAIN limits : limits[i].warn => owed[limits[i].pid]
  /\ \A h \in Hashes : accepted[h] = firsts[h] + later[h] + Later(hashes, h, Pids)

\* Files whose hash no other file has
Unshared == {f \in Files : \A g \in Files : Hash[f] = Hash[g] => f = g}

\* As long as timestamps are in order, the window decides what is reported.
\* An open is printed as a first one (count 1) only when its process has not
\* opened the file within the window before, or that open found no room ("Subsequent
\* identical file opens within 60-second window are aggregated"); and one is left
\* out only when the same process has: aggregation never crosses the end of a
\* process, whose PID may be another's.
WindowDecides == [][~late' => \A f \in Unshared :
  LET printed == firsts'[Hash[f]] > firsts[Hash[f]]
      silent  == accepted'[Hash[f]] > accepted[Hash[f]] /\ ~printed
      recent  == seen[f] # None /\ clock' <= seen[f] + Window
  IN  (printed => ~recent) /\ (silent => recent)]_vars

=============================================================================
