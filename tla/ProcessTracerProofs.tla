------------------------ MODULE ProcessTracerProofs -------------------------
(***************************************************************************)
(* What holds of the process tracer for every table size, ring size, set   *)
(* of PIDs and number of events.                                           *)
(***************************************************************************)
EXTENDS ProcessTracer, PidTableProofs

-----------------------------------------------------------------------------
\* The ring buffer: a record is appended, or there is no room for it.
LEMMA ReserveEffect ==
  ASSUME TypeOK, NEW r \in Records, Reserve(r)
  PROVE  /\ ring' \in Seq(Records) /\ Len(ring') \in Nat /\ Len(ring') <= RingSize
         /\ \A i \in 1 .. Len(ring) : ring'[i] = ring[i]
         /\ \/ ring' = ring /\ Len(ring) = RingSize
            \/ /\ Len(ring) < RingSize /\ Len(ring') = Len(ring) + 1
               /\ ring'[Len(ring) + 1] = r
<1>1. ring \in Seq(Records) /\ Len(ring) <= RingSize /\ Len(ring) \in Nat
  BY DEF TypeOK
<1> QED
  BY <1>1, ProcessTracerAssumption DEF Reserve

\* Poll takes the first record, and the others move up.
LEMMA PollEffect ==
  ASSUME TypeOK, ring # << >>, ring' = Tail(ring)
  PROVE  /\ ring' \in Seq(Records) /\ Len(ring) \in Nat
         /\ Len(ring') = Len(ring) - 1 /\ Len(ring) >= 1
         /\ Head(ring) = ring[1] /\ ring[1] \in Records
         /\ \A i \in 1 .. Len(ring') : ring'[i] = ring[i + 1]
<1>1. ring \in Seq(Records) /\ Len(ring) \in Nat
  BY DEF TypeOK
<1> QED
  BY <1>1

\* Submit completes a record in its place.
LEMMA SubmitEffect ==
  ASSUME TypeOK, NEW i \in 1 .. RingSize, Submit(i)
  PROVE  /\ i \in 1 .. Len(ring) /\ ring[i] \in Records /\ ~ ring[i].ready
         /\ ring' \in Seq(Records) /\ Len(ring') = Len(ring) /\ Len(ring) \in Nat
         /\ ring'[i] = [ring[i] EXCEPT !.ready = TRUE, !.ppid = parent[ring[i].pid]]
         /\ \A j \in 1 .. Len(ring) : j # i => ring'[j] = ring[j]
<1>1. ring \in Seq(Records) /\ Len(ring) \in Nat /\ DOMAIN ring = 1 .. Len(ring)
  BY DEF TypeOK
<1>2. i \in 1 .. Len(ring) /\ ~ ring[i].ready
  BY <1>1 DEF Submit
<1>3. ring[i] \in Records
  BY <1>1, <1>2
<1>4. parent[ring[i].pid] \in Pids \cup {NoPid}
  BY <1>3 DEF TypeOK, Records
<1>5. [ring[i] EXCEPT !.ready = TRUE, !.ppid = parent[ring[i].pid]] \in Records
  BY <1>3, <1>4 DEF Records
<1>6. ring' = [ring EXCEPT ![i] = [ring[i] EXCEPT !.ready = TRUE, !.ppid = parent[ring[i].pid]]]
  BY <1>2, <1>3 DEF Submit, Records
<1> QED
  BY <1>1, <1>2, <1>3, <1>5, <1>6

\* What a probe reserves is a record.
LEMMA RecordTyped ==
  ASSUME TypeOK, NEW p \in Pids, NEW type \in {"EXEC", "EXIT", "OPEN"},
         NEW due \in BOOLEAN, NEW ready \in BOOLEAN
  PROVE  /\ Record(type, p, due, ready) \in Records
         /\ Record(type, p, due, ready).type = type
         /\ Record(type, p, due, ready).pid = p
         /\ Record(type, p, due, ready).due = due
         /\ Record(type, p, due, ready).ready = ready
         /\ Record(type, p, due, ready).named = (p \in named')
  BY DEF Record, Records

LEMMA SelfSelectedTyped ==
  ASSUME NEW p \in Pids, NEW m \in BOOLEAN
  PROVE  SelfSelected(p, m) \in BOOLEAN
<1>1. CASE SessionOn
  BY <1>1 DEF SelfSelected
<1>2. CASE ~ SessionOn
  <2>1. (m \/ p = Target) \in BOOLEAN
    OBVIOUS
  <2> QED
    BY <1>2, <2>1 DEF SelfSelected
<1> QED
  BY <1>1, <1>2

-----------------------------------------------------------------------------
\* The initial table holds seeds only.
LEMMA TypeInit == Init => TypeOK
<1> SUFFICES ASSUME Init
             PROVE  TypeOK
  OBVIOUS
<1>1. opts \in Options /\ budget \in 0 .. opts.events
  <2>1. opts.events \in Nat
    BY ProcessTracerAssumption DEF Init
  <2> QED
    BY <2>1 DEF Init
<1>2. /\ st \in [Pids -> {"free", "run", "headless", "dying"}]
      /\ parent \in [Pids -> Pids \cup {NoPid}]
      /\ ring \in Seq(Records) /\ Len(ring) <= RingSize
  BY ProcessTracerAssumption DEF Init
<1>3. table \in Tables /\ bpfPids \subseteq Pids
  BY DEF Init, SeededTables, StoredIn
<1>4. /\ named \subseteq Pids /\ sess \subseteq Pids /\ started \subseteq Pids
      /\ exitMem \subseteq Pids /\ held \subseteq Pids /\ ours \subseteq Pids
      /\ selected \subseteq Pids /\ unseen \subseteq Pids /\ missed = {}
  BY ProcessTracerAssumption DEF Init
<1> QED
  BY <1>1, <1>2, <1>3, <1>4 DEF TypeOK

\* The bound on events counts down to zero.
LEMMA BudgetTyped ==
  ASSUME TypeOK
  PROVE  budget > 0 => budget - 1 \in 0 .. opts.events
<1>1. opts.events \in Nat
  BY ProcessTracerAssumption DEF TypeOK
<1> QED
  BY <1>1 DEF TypeOK

\* The steps, one by one: kernel and probes ...
LEMMA TypeKernel ==
  ASSUME TypeOK, NEW p \in Pids,
         \/ \E c \in Pids : Fork(p, c)
         \/ \E m \in BOOLEAN : ExecOutside(p, m)
         \/ \E others \in BOOLEAN : ExitOutside(p, others)
         \/ LastThreadExit(p)
         \/ Reap(p)
  PROVE  TypeOK'
<1>1. ASSUME NEW c \in Pids, Fork(p, c)
      PROVE  TypeOK'
  <2>1. opts' \in Options /\ budget' \in 0 .. opts'.events
    BY <1>1, BudgetTyped DEF Fork, TypeOK, tracker
  <2>2. /\ named' \subseteq Pids /\ sess' \subseteq Pids /\ ours' \subseteq Pids
        /\ started' \subseteq Pids /\ exitMem' \subseteq Pids /\ bpfPids' \subseteq Pids
        /\ held' \subseteq Pids /\ selected' \subseteq Pids /\ unseen' \subseteq Pids
    BY <1>1 DEF Fork, TypeOK, tracker
  <2>3. /\ st' \in [Pids -> {"free", "run", "headless", "dying"}]
        /\ parent' \in [Pids -> Pids \cup {NoPid}]
        /\ ring' = ring /\ table' = table /\ missed' = missed
    BY <1>1 DEF Fork, TypeOK, tracker
  <2> QED
    BY <2>1, <2>2, <2>3 DEF TypeOK
<1>2. CASE LastThreadExit(p)
  BY <1>2 DEF LastThreadExit, TypeOK, tracker
<1>3. CASE Reap(p)
  BY <1>3 DEF Reap, TypeOK, tracker
<1>4. ASSUME NEW m \in BOOLEAN, ExecOutside(p, m)
      PROVE  TypeOK'
  <2>1. opts' \in Options /\ budget' \in 0 .. opts'.events
    BY <1>4, BudgetTyped DEF ExecOutside, TypeOK, tracker
  <2>2. /\ named' \subseteq Pids /\ sess' \subseteq Pids /\ ours' \subseteq Pids
        /\ started' \subseteq Pids /\ exitMem' \subseteq Pids /\ bpfPids' \subseteq Pids
        /\ held' \subseteq Pids /\ selected' \subseteq Pids /\ unseen' \subseteq Pids
    BY <1>4 DEF ExecOutside, TypeOK, tracker
  <2>3. /\ st' \in [Pids -> {"free", "run", "headless", "dying"}]
        /\ parent' = parent /\ ring' = ring /\ table' = table /\ missed' = missed
    BY <1>4 DEF ExecOutside, TypeOK, tracker
  <2> QED
    BY <2>1, <2>2, <2>3 DEF TypeOK
<1>5. ASSUME NEW others \in BOOLEAN, ExitOutside(p, others)
      PROVE  TypeOK'
  BY <1>5 DEF ExitOutside, TypeOK, tracker
<1> QED
  BY <1>1, <1>2, <1>3, <1>4, <1>5

\* ... those of a probe that reserves a record ...
LEMMA TypeProbe ==
  ASSUME TypeOK, NEW p \in Pids,
         \/ \E m \in BOOLEAN : Exec(p, m)
         \/ \E others, long \in BOOLEAN : Exit(p, others, long)
         \/ Open(p)
  PROVE  TypeOK'
<1>1. ASSUME NEW m \in BOOLEAN, Exec(p, m)
      PROVE  TypeOK'
  <2>1. ring' \in Seq(Records) /\ Len(ring') <= RingSize
    <3>1. Record("EXEC", p, SelfSelected(p, m), FALSE) \in Records
      <4>1. SelfSelected(p, m) \in BOOLEAN
        BY SelfSelectedTyped
      <4> QED
        BY <4>1, RecordTyped, Zenon
    <3>2. ring' = ring \/ Reserve(Record("EXEC", p, SelfSelected(p, m), FALSE))
      BY <1>1 DEF Exec
    <3> QED
      BY <3>1, <3>2, ReserveEffect DEF TypeOK
  <2>2. opts' \in Options /\ budget' \in 0 .. opts'.events
    BY <1>1, BudgetTyped DEF Exec, TypeOK, tracker
  <2>3. /\ named' \subseteq Pids /\ sess' \subseteq Pids /\ ours' \subseteq Pids
        /\ started' \subseteq Pids /\ exitMem' \subseteq Pids /\ bpfPids' \subseteq Pids
        /\ held' \subseteq Pids /\ selected' \subseteq Pids /\ unseen' \subseteq Pids
    BY <1>1 DEF Exec, TypeOK, tracker
  <2>4. /\ st' \in [Pids -> {"free", "run", "headless", "dying"}]
        /\ parent' = parent /\ table' = table /\ missed' = missed
    BY <1>1 DEF Exec, TypeOK, tracker
  <2> QED
    BY <2>1, <2>2, <2>3, <2>4 DEF TypeOK
<1>2. ASSUME NEW others \in BOOLEAN, NEW long \in BOOLEAN, Exit(p, others, long)
      PROVE  TypeOK'
  <2>1. (p \in selected) \in BOOLEAN
    OBVIOUS
  <2>2. ring' \in Seq(Records) /\ Len(ring') <= RingSize
    <3>1. Record("EXIT", p, p \in selected, FALSE) \in Records
      BY <2>1, RecordTyped
    <3>2. ring' = ring \/ Reserve(Record("EXIT", p, p \in selected, FALSE))
      BY <1>2 DEF Exit
    <3> QED
      BY <3>1, <3>2, ReserveEffect DEF TypeOK
  <2>3. /\ named' \subseteq Pids /\ sess' \subseteq Pids /\ ours' \subseteq Pids
        /\ started' \subseteq Pids /\ exitMem' \subseteq Pids /\ bpfPids' \subseteq Pids
        /\ held' \subseteq Pids /\ selected' \subseteq Pids /\ unseen' \subseteq Pids
    BY <1>2 DEF Exit, TypeOK, tracker
  <2>4. /\ st' \in [Pids -> {"free", "run", "headless", "dying"}]
        /\ parent' = parent /\ table' = table /\ missed' = missed
        /\ opts' = opts /\ budget' = budget
    BY <1>2 DEF Exit, TypeOK, tracker
  <2> QED
    BY <2>2, <2>3, <2>4 DEF TypeOK
<1>3. CASE Open(p)
  <2>1. ring' \in Seq(Records) /\ Len(ring') <= RingSize
    <3>1. Record("OPEN", p, FALSE, TRUE) \in Records
      BY RecordTyped
    <3>2. ring' = ring \/ Reserve(Record("OPEN", p, FALSE, TRUE))
      BY <1>3 DEF Open
    <3> QED
      BY <3>1, <3>2, ReserveEffect DEF TypeOK
  <2>2. opts' \in Options /\ budget' \in 0 .. opts'.events
    BY <1>3, BudgetTyped DEF Open, TypeOK, tracker
  <2> QED
    BY <1>3, <2>1, <2>2 DEF Open, TypeOK, tracker
<1> QED
  BY <1>1, <1>2, <1>3

LEMMA TypeSubmit ==
  ASSUME TypeOK, NEW i \in 1 .. RingSize, Submit(i)
  PROVE  TypeOK'
<1>1. ring' \in Seq(Records) /\ Len(ring') <= RingSize
  BY SubmitEffect DEF TypeOK
<1>2. ring[i].pid \in Pids
  BY SubmitEffect DEF Records
<1>3. exitMem' \subseteq Pids
  BY <1>2 DEF Submit, TypeOK
<1> QED
  BY <1>1, <1>3 DEF Submit, TypeOK, kernel, tracker

\* The table keeps its shape whatever is added and removed.
LEMMA CallsKeepShape ==
  ASSUME NEW t \in Tables, NEW p \in Pids
  PROVE  Add(t, p) \in Tables /\ Remove(t, p) \in Tables
<1>1. Add(t, p) \in Tables
  BY AddEffect DEF Tables
<1>2. Remove(t, p) \in Tables
  BY RemoveEffect DEF Tables
<1> QED
  BY <1>1, <1>2

\* ... and the handler.
LEMMA TypePoll ==
  ASSUME TypeOK, Poll
  PROVE  TypeOK'
<1> DEFINE r == Head(ring)
<1>1. ring' \in Seq(Records) /\ Len(ring') <= RingSize /\ r \in Records
  BY PollEffect, ProcessTracerAssumption DEF Poll, TypeOK
<1>2. r.pid \in Pids
  BY <1>1 DEF Records
<1>3. /\ table' \in Tables
      /\ exitMem' \subseteq Pids /\ bpfPids' \subseteq Pids /\ held' \subseteq Pids
      /\ missed' \subseteq {"EXEC", "EXIT"}
  <2>1. CASE HandleExec(r)
    BY <1>2, <2>1, CallsKeepShape DEF HandleExec, TypeOK
  <2>2. CASE HandleExit(r)
    BY <1>2, <2>2, CallsKeepShape DEF HandleExit, TypeOK
  <2>3. CASE HandleOpen(r)
    BY <1>2, <2>3 DEF HandleOpen, TypeOK
  <2> QED
    BY <2>1, <2>2, <2>3 DEF Poll
<1> QED
  BY <1>1, <1>3 DEF Poll, TypeOK, kernel

LEMMA TypeNext == TypeOK /\ [Next]_vars => TypeOK'
<1> SUFFICES ASSUME TypeOK, [Next]_vars
             PROVE  TypeOK'
  OBVIOUS
<1>1. CASE UNCHANGED vars
  BY <1>1 DEF vars, kernel, tracker, TypeOK
<1> QED
  BY <1>1, TypeKernel, TypeProbe, TypeSubmit, TypePoll DEF Next

\* The tracer's state keeps its shape: the ring holds no more than it has room for,
\* and everything kept by PID is about PIDs of the machine.
THEOREM TypeCorrect == Spec => []TypeOK
  BY TypeInit, TypeNext, PTL DEF Spec

-----------------------------------------------------------------------------
\* A seed that seed_initial_pids has stored is found: those on its way were
\* there before it.
LEMMA SeedsAreFound ==
  ASSUME NEW t \in SeededTables
  PROVE  TrackedIn(t) = StoredIn(t)
<1>1. t \in Tables /\ StoredIn(t) \subseteq Seeds
  BY DEF SeededTables
<1>2. PICK turn \in [Seeds -> Slots] :
        \A s \in Slots : t[s] # Free =>
          \E i \in Slots :
            /\ Probe(t[s], i) = s
            /\ \A j \in 0 .. (i - 1) : /\ t[Probe(t[s], j)] # Free
                                       /\ turn[t[Probe(t[s], j)]] < turn[t[s]]
  BY DEF SeededTables
<1>3. ASSUME NEW p \in Pids, NEW s \in Slots, t[s] = p
      PROVE  Find(t, p)
  <2>1. p # Free /\ p \in Seeds
    BY <1>1, <1>3, PidTableAssumption DEF StoredIn
  <2>2. PICK i \in Slots :
          /\ Probe(p, i) = s
          /\ \A j \in 0 .. (i - 1) : /\ t[Probe(p, j)] # Free
                                     /\ turn[t[Probe(p, j)]] < turn[p]
    BY <1>2, <1>3, <2>1
  <2>3. turn[p] \in Int
    BY <1>2, <2>1, PidTableAssumption DEF Slots
  <2>4. \A j \in 0 .. (i - 1) : t[Probe(p, j)] \notin {Free, p}
    BY <2>2, <2>3
  <2> QED
    BY <1>3, <2>2, <2>4 DEF Find, FoundAt
<1> QED
  BY <1>1, <1>3, FoundIsStored DEF StoredIn, TrackedIn

\* Without collisions each is in its home slot: the first one that is not would
\* have found another one there that is not.
LEMMA SeedsAreHome ==
  ASSUME NoCollisions, NEW t \in SeededTables
  PROVE  AtHome(t)
<1>1. t \in Tables /\ StoredIn(t) \subseteq Seeds
  BY DEF SeededTables
<1>2. PICK turn \in [Seeds -> Slots] :
        \A s \in Slots : t[s] # Free =>
          \E i \in Slots :
            /\ Probe(t[s], i) = s
            /\ \A j \in 0 .. (i - 1) : /\ t[Probe(t[s], j)] # Free
                                       /\ turn[t[Probe(t[s], j)]] < turn[t[s]]
  BY DEF SeededTables
<1>3. \A s \in Slots : t[s] # Free => t[s] \in Pids /\ t[s] \in Seeds /\ turn[t[s]] \in Nat
  BY <1>1, <1>2, PidTableAssumption DEF StoredIn, Tables, Slots
<1> DEFINE Astray == {s \in Slots : t[s] # Free /\ s # Probe(t[s], 0)}
           Turns == {turn[t[s]] : s \in Astray}
<1>4. SUFFICES ASSUME Astray # {}
               PROVE  FALSE
  BY DEF AtHome
<1>5. Turns \in SUBSET Nat /\ Turns # {}
  BY <1>3, <1>4
<1>6. PICK n \in Turns : \A k \in Turns : ~ (k < n)
  BY <1>5, LeastExists
<1>7. PICK s \in Astray : n = turn[t[s]]
  BY <1>6
<1>8. PICK i \in Slots :
        /\ Probe(t[s], i) = s
        /\ \A j \in 0 .. (i - 1) : /\ t[Probe(t[s], j)] # Free
                                   /\ turn[t[Probe(t[s], j)]] < turn[t[s]]
  BY <1>2, <1>7
<1> DEFINE h == Probe(t[s], 0)
<1>9. 0 \in 0 .. (i - 1)
  BY <1>7, <1>8, PidTableAssumption DEF Slots
<1>10. h \in Slots /\ t[h] # Free /\ turn[t[h]] < n
  BY <1>3, <1>7, <1>8, <1>9, ProbeInSlots
<1>11. h = Probe(t[h], 0)
  BY <1>6, <1>10
<1>12. t[h] = t[s]
  BY <1>3, <1>7, <1>10, <1>11 DEF NoCollisions, DistinctHomes
<1> QED
  BY <1>3, <1>7, <1>10, <1>12

-----------------------------------------------------------------------------
\* While no PIDs share a home slot: the table has its entries at home, the map of
\* the syscall probes agrees with it, and what is held is tracked.
Tidy ==
  /\ TypeOK
  /\ NoCollisions => AtHome(table)
  /\ MapAgreement
  /\ HeldAreTracked
  /\ ExitMemDrains

\* What the handler does to the table, as the set of the PIDs it tracks.
LEMMA HandledTable ==
  ASSUME TypeOK, NoCollisions, AtHome(table), NEW r \in Records
  PROVE  /\ HandleExec(r) =>
               /\ AtHome(table')
               /\ TrackedIn(table') = IF ShouldTrack(r) \/ Mode = "proc"
                                        THEN TrackedIn(table) \cup {r.pid}
                                        ELSE TrackedIn(table)
         /\ HandleExit(r) => /\ AtHome(table')
                             /\ TrackedIn(table') = TrackedIn(table) \ {r.pid}
         /\ HandleOpen(r) => AtHome(table') /\ TrackedIn(table') = TrackedIn(table)
<1>1. /\ r.pid \in Pids /\ Pids \in SUBSET Pids /\ table \in [Slots -> Pids \cup {Free}]
      /\ DistinctHomes(Pids)
  BY DEF TypeOK, Tables, Records, NoCollisions
<1>2. AtHome(Add(table, r.pid)) /\ TrackedIn(Add(table, r.pid)) = TrackedIn(table) \cup {r.pid}
  BY <1>1, HomeAdd
<1>3. AtHome(Remove(table, r.pid)) /\ TrackedIn(Remove(table, r.pid)) = TrackedIn(table) \ {r.pid}
  BY <1>1, HomeRemove
<1>4. HandleExec(r) => /\ AtHome(table')
                       /\ TrackedIn(table') = IF ShouldTrack(r) \/ Mode = "proc"
                                                THEN TrackedIn(table) \cup {r.pid}
                                                ELSE TrackedIn(table)
  BY <1>2 DEF HandleExec
<1>5. HandleExit(r) => /\ AtHome(table')
                       /\ TrackedIn(table') = TrackedIn(table) \ {r.pid}
  BY <1>3 DEF HandleExit
<1> QED
  BY <1>4, <1>5 DEF HandleOpen

LEMMA TidyInit == Init => Tidy
<1> SUFFICES ASSUME Init
             PROVE  Tidy
  OBVIOUS
<1>1. NoCollisions => AtHome(table)
  BY SeedsAreHome DEF Init
<1>2. bpfPids = TrackedIn(table)
  BY SeedsAreFound DEF Init
<1> QED
  BY <1>1, <1>2, TypeInit DEF Init, Tidy, MapAgreement, HeldAreTracked, ExitMemDrains

\* The probes add records and peaks, and touch nothing else of this.
LEMMA TidyProbe ==
  ASSUME Tidy, TypeOK', UNCHANGED <<opts, table, bpfPids, held>>,
         \A i \in DOMAIN ring : /\ i \in DOMAIN ring'
                                /\ ring'[i].type = ring[i].type /\ ring'[i].pid = ring[i].pid,
         \A p \in exitMem' : p \in exitMem \/ ExitPending(p)
  PROVE  Tidy'
<1>1. \A p \in Pids : ExitPending(p) => ExitPending(p)'
  BY DEF ExitPending
<1>2. ExitMemDrains'
  BY <1>1 DEF Tidy, ExitMemDrains, TypeOK, Mode
<1>3. NoCollisions' = NoCollisions
  BY DEF NoCollisions
<1> QED
  BY <1>2, <1>3 DEF Tidy, MapAgreement, HeldAreTracked, Mode, AtHome, TrackedIn, Find, FoundAt

\* A record in the ring stays what it is when another is reserved.
LEMMA ReserveKeeps ==
  ASSUME TypeOK, NEW r \in Records, ring' = ring \/ Reserve(r)
  PROVE  \A i \in DOMAIN ring : i \in DOMAIN ring' /\ ring'[i] = ring[i]
<1>1. ring \in Seq(Records)
  BY DEF TypeOK
<1>2. CASE Reserve(r)
  <2>1. Len(ring) \in Nat /\ Len(ring') \in Nat /\ Len(ring') >= Len(ring)
    BY <1>1, <1>2, ReserveEffect
  <2>2. DOMAIN ring = 1 .. Len(ring) /\ DOMAIN ring' = 1 .. Len(ring')
    BY <1>1, <1>2, ReserveEffect
  <2>3. \A i \in 1 .. Len(ring) : ring'[i] = ring[i]
    BY <1>2, ReserveEffect
  <2> QED
    BY <2>1, <2>2, <2>3
<1> QED
  BY <1>2

\* The steps of probes, in the form in which the invariants need them.
LEMMA ExecReserves ==
  ASSUME TypeOK, NEW p \in Pids, NEW m \in BOOLEAN, Exec(p, m)
  PROVE  \E r \in Records :
           /\ r.type = "EXEC" /\ r.pid = p /\ ~ r.ready
           /\ r.named = m /\ r.due = SelfSelected(p, m)
           /\ IF MinDuration THEN ring' = ring ELSE Reserve(r)
<1> DEFINE due == SelfSelected(p, m)
           r == Record("EXEC", p, due, FALSE)
<1>1. due \in BOOLEAN
  BY SelfSelectedTyped
<1>2. /\ r \in Records /\ r.type = "EXEC" /\ r.pid = p /\ r.due = due
      /\ r.ready = FALSE /\ r.named = (p \in named')
  <2> HIDE DEF due
  <2> QED
    BY <1>1, RecordTyped DEF Record
<1>3. (p \in named') = m
  BY DEF Exec
<1>4. IF MinDuration THEN ring' = ring ELSE Reserve(r)
  BY DEF Exec
<1> QED
  BY <1>2, <1>3, <1>4

LEMMA ExitReserves ==
  ASSUME TypeOK, NEW p \in Pids, NEW others \in BOOLEAN, NEW long \in BOOLEAN,
         Exit(p, others, long)
  PROVE  \E r \in Records :
           /\ r.type = "EXIT" /\ r.pid = p /\ ~ r.ready /\ r.due = (p \in selected)
           /\ \/ MinDuration /\ ring' = ring
              \/ Reserve(r) /\ unseen' = IF Len(ring) < RingSize THEN unseen ELSE unseen \cup {p}
<1> DEFINE due == p \in selected
           r == Record("EXIT", p, due, FALSE)
<1>1. due \in BOOLEAN
  OBVIOUS
<1>2. r \in Records /\ r.type = "EXIT" /\ r.pid = p /\ r.due = due /\ r.ready = FALSE
  <2> HIDE DEF due
  <2> QED
    BY <1>1, RecordTyped DEF Record
<1>3. \/ MinDuration /\ ring' = ring
      \/ Reserve(r) /\ unseen' = IF Len(ring) < RingSize THEN unseen ELSE unseen \cup {p}
  BY DEF Exit
<1> QED
  BY <1>2, <1>3

LEMMA OpenReserves ==
  ASSUME TypeOK, NEW p \in Pids, Open(p)
  PROVE  \E r \in Records :
           r.type = "OPEN" /\ r.pid = p /\ r.ready /\ (ring' = ring \/ Reserve(r))
<1> DEFINE r == Record("OPEN", p, FALSE, TRUE)
<1>1. r \in Records /\ r.type = "OPEN" /\ r.pid = p /\ r.ready
  BY RecordTyped
<1>2. ring' = ring \/ Reserve(r)
  BY DEF Open
<1> HIDE DEF r
<1> QED
  BY <1>1, <1>2

LEMMA TidyNext == Tidy /\ TypeOK' /\ [Next]_vars => Tidy'
<1> SUFFICES ASSUME Tidy, TypeOK', [Next]_vars
             PROVE  Tidy'
  OBVIOUS
<1> TypeOK
  BY DEF Tidy
<1>1. ASSUME NEW p \in Pids,
             \/ \E c \in Pids : Fork(p, c)
             \/ \E m \in BOOLEAN : ExecOutside(p, m)
             \/ \E others \in BOOLEAN : ExitOutside(p, others)
             \/ LastThreadExit(p) \/ Reap(p)
      PROVE  Tidy'
  BY <1>1, TidyProbe DEF Fork, ExecOutside, ExitOutside, LastThreadExit, Reap, tracker
<1>2. ASSUME NEW p \in Pids, NEW m \in BOOLEAN, Exec(p, m)
      PROVE  Tidy'
  BY <1>2, ExecReserves, ReserveKeeps, TidyProbe DEF Exec, tracker
<1>3. ASSUME NEW p \in Pids, NEW others \in BOOLEAN, NEW long \in BOOLEAN, Exit(p, others, long)
      PROVE  Tidy'
  BY <1>3, ExitReserves, ReserveKeeps, TidyProbe DEF Exit, tracker
<1>4. ASSUME NEW p \in Pids, Open(p)
      PROVE  Tidy'
  BY <1>4, OpenReserves, ReserveKeeps, TidyProbe DEF Open, tracker
<1>5. ASSUME NEW i \in 1 .. RingSize, Submit(i)
      PROVE  Tidy'
  <2>1. \A j \in DOMAIN ring : /\ j \in DOMAIN ring'
                               /\ ring'[j].type = ring[j].type /\ ring'[j].pid = ring[j].pid
    <3>1. DOMAIN ring = 1 .. Len(ring) /\ DOMAIN ring' = 1 .. Len(ring)
      <4>1. ring \in Seq(Records) /\ ring' \in Seq(Records) /\ Len(ring') = Len(ring)
        BY <1>5, SubmitEffect DEF TypeOK
      <4> QED
        BY <4>1
    <3>2. ring'[i].type = ring[i].type /\ ring'[i].pid = ring[i].pid
      BY <1>5, SubmitEffect DEF Records
    <3> QED
      BY <1>5, <3>1, <3>2, SubmitEffect
  <2>2. \A p \in exitMem' : p \in exitMem \/ ExitPending(p)
    BY <1>5 DEF Submit, ExitPending
  <2> QED
    BY <1>5, <2>1, <2>2, TidyProbe DEF Submit, tracker
<1>6. CASE Poll
  <2> DEFINE r == Head(ring)
  <2>1. /\ r \in Records /\ r = ring[1] /\ r.pid \in Pids
        /\ \A i \in DOMAIN ring : i = 1 \/ (i - 1 \in DOMAIN ring' /\ ring'[i - 1] = ring[i])
    BY <1>6, PollEffect DEF Poll, Records, TypeOK
  <2>2. NoCollisions' = NoCollisions /\ Mode' = Mode /\ ShouldTrack(r) \in BOOLEAN
    BY <1>6 DEF Poll, NoCollisions, Mode, ShouldTrack
  <2>3. \A p \in Pids : ExitPending(p) => ExitPending(p)' \/ (r.type = "EXIT" /\ r.pid = p)
    BY <2>1 DEF ExitPending
  <2>4. CASE r.type = "EXEC" /\ HandleExec(r)
    <3>1. /\ bpfPids' = IF ShouldTrack(r) \/ Mode = "proc" THEN bpfPids \cup {r.pid} ELSE bpfPids
          /\ held' = held /\ exitMem' = exitMem
      BY <2>4 DEF HandleExec
    <3>3. NoCollisions => /\ AtHome(table')
                          /\ TrackedIn(table') = IF ShouldTrack(r) \/ Mode = "proc"
                                                   THEN TrackedIn(table) \cup {r.pid}
                                                   ELSE TrackedIn(table)
      BY <2>1, <2>4, HandledTable DEF Tidy
    <3>4. MapAgreement' /\ HeldAreTracked'
      BY <2>2, <3>1, <3>3 DEF Tidy, MapAgreement, HeldAreTracked
    <3>5. ExitMemDrains'
      BY <2>2, <2>3, <2>4, <3>1 DEF Tidy, ExitMemDrains, TypeOK
    <3> QED
      BY <2>2, <3>3, <3>4, <3>5 DEF Tidy
  <2>5. CASE r.type = "EXIT" /\ HandleExit(r)
    <3>1. /\ bpfPids' = bpfPids \ {r.pid}
          /\ held' = IF Tracked(r.pid) \/ Mode # "filter" THEN held \ {r.pid} ELSE held
          /\ exitMem' = IF Tracked(r.pid) \/ Mode # "filter" THEN exitMem \ {r.pid} ELSE exitMem
      BY <2>5 DEF HandleExit
    <3>2. ~ Tracked(r.pid) => r.pid \notin TrackedIn(table)
      BY DEF Tracked, TrackedIn
    <3>3. NoCollisions => /\ AtHome(table')
                          /\ TrackedIn(table') = TrackedIn(table) \ {r.pid}
      BY <2>1, <2>5, HandledTable DEF Tidy
    <3>4. MapAgreement' /\ HeldAreTracked'
      BY <2>2, <3>2, <3>1, <3>3 DEF Tidy, MapAgreement, HeldAreTracked
    <3>5. ExitMemDrains'
      BY <2>2, <2>3, <2>5, <3>1 DEF Tidy, ExitMemDrains, TypeOK
    <3> QED
      BY <2>2, <3>3, <3>4, <3>5 DEF Tidy
  <2>6. CASE r.type = "OPEN" /\ HandleOpen(r)
    <3>1. bpfPids' = bpfPids /\ exitMem' = exitMem
      BY <2>6 DEF HandleOpen
    <3>2. Mode # "all" => held' \subseteq held \cup TrackedIn(table)
      BY <2>1, <2>6 DEF HandleOpen, Tracked, TrackedIn
    <3>3. NoCollisions => /\ AtHome(table')
                          /\ TrackedIn(table') = TrackedIn(table)
      BY <2>1, <2>6, HandledTable DEF Tidy
    <3>4. MapAgreement' /\ HeldAreTracked'
      BY <2>2, <3>2, <3>1, <3>3 DEF Tidy, MapAgreement, HeldAreTracked
    <3>5. ExitMemDrains'
      BY <2>2, <2>3, <2>6, <3>1 DEF Tidy, ExitMemDrains, TypeOK
    <3> QED
      BY <2>2, <3>3, <3>4, <3>5 DEF Tidy
  <2> QED
    BY <1>6, <2>4, <2>5, <2>6 DEF Poll
<1>7. CASE UNCHANGED vars
  BY <1>7, TidyProbe DEF vars, kernel, tracker
<1> QED
  BY <1>1, <1>2, <1>3, <1>4, <1>5, <1>6, <1>7 DEF Next

\* What the tracer keeps by PID is bounded by what goes on, for every size of the
\* table and the ring, and whatever is forked, reused and lost: the table and the
\* map agree, aggregates belong to tracked PIDs, and peaks to pending exits.
THEOREM NothingStays == Spec => []NothingIsLeft
<1>1. Tidy => NothingIsLeft
  BY DEF Tidy, NothingIsLeft
<1> QED
  BY <1>1, TidyInit, TidyNext, TypeCorrect, PTL DEF Spec

-----------------------------------------------------------------------------
\* Just before record i is handled p will be tracked: it is now, or an EXEC of p on
\* the way there is sure to be, and no EXIT of p comes after that.
TrackedBy(t, records, p, i) ==
  \E k \in 0 .. (i - 1) :
    /\ IF k = 0 THEN p \in TrackedIn(t)
       ELSE records[k].type = "EXEC" /\ records[k].pid = p /\ records[k].due
    /\ \A j \in (k + 1) .. (i - 1) : records[j].type = "EXIT" => records[j].pid # p

\* What is due to be reported will be: an EXEC passes the filter by itself, and an
\* EXIT finds its PID in the table, as one of any selected process would.
DueIsReported(t, records, chosen) ==
  /\ \A i \in 1 .. Len(records) : records[i].due =>
       /\ records[i].type = "EXEC" => records[i].named \/ records[i].pid = Target
       /\ records[i].type = "EXIT" => TrackedBy(t, records, records[i].pid, i)
  /\ \A p \in chosen : TrackedBy(t, records, p, Len(records) + 1)

Learned ==
  NoCollisions /\ ~ SessionOn /\ ~ MinDuration =>
    DueIsReported(table, ring, selected) /\ missed = {}

\* The way to a record does not change with what comes behind it ...
LEMMA SameWay ==
  ASSUME NEW t, NEW before, NEW after, NEW p \in Pids, NEW i \in Nat,
         TrackedBy(t, before, p, i),
         \A j \in 1 .. (i - 1) : /\ after[j].type = before[j].type
                                 /\ after[j].pid = before[j].pid
                                 /\ after[j].due = before[j].due
  PROVE  TrackedBy(t, after, p, i)
<1>1. PICK k \in 0 .. (i - 1) :
        /\ IF k = 0 THEN p \in TrackedIn(t)
           ELSE before[k].type = "EXEC" /\ before[k].pid = p /\ before[k].due
        /\ \A j \in (k + 1) .. (i - 1) : before[j].type = "EXIT" => before[j].pid # p
  BY DEF TrackedBy
<1>2. IF k = 0 THEN p \in TrackedIn(t)
      ELSE after[k].type = "EXEC" /\ after[k].pid = p /\ after[k].due
  BY <1>1
<1>3. \A j \in (k + 1) .. (i - 1) : after[j].type = "EXIT" => after[j].pid # p
  BY <1>1
<1> QED
  BY <1>2, <1>3 DEF TrackedBy

\* ... and goes on over a record that is no EXIT of the PID.
LEMMA WayGoesOn ==
  ASSUME NEW t, NEW records, NEW p \in Pids, NEW i \in Nat, TrackedBy(t, records, p, i),
         records[i].type = "EXIT" => records[i].pid # p
  PROVE  TrackedBy(t, records, p, i + 1)
<1>1. PICK k \in 0 .. (i - 1) :
        /\ IF k = 0 THEN p \in TrackedIn(t)
           ELSE records[k].type = "EXEC" /\ records[k].pid = p /\ records[k].due
        /\ \A j \in (k + 1) .. (i - 1) : records[j].type = "EXIT" => records[j].pid # p
  BY DEF TrackedBy
<1>2. \A j \in (k + 1) .. i : records[j].type = "EXIT" => records[j].pid # p
  BY <1>1
<1>3. k \in 0 .. i /\ (i + 1) - 1 = i
  BY <1>1
<1> QED
  BY <1>1, <1>2, <1>3 DEF TrackedBy

\* A probe that appends a record: of a selected process if it is due.
LEMMA DueWhenReserved ==
  ASSUME NEW t, NEW before \in Seq(Records), NEW after \in Seq(Records),
         NEW chosen \in SUBSET Pids, NEW later \in SUBSET Pids,
         DueIsReported(t, before, chosen),
         NEW r \in Records, Len(after) = Len(before) + 1, after[Len(before) + 1] = r,
         \A i \in 1 .. Len(before) : after[i] = before[i],
         r.due /\ r.type = "EXEC" => r.named \/ r.pid = Target,
         r.due /\ r.type = "EXIT" => r.pid \in chosen,
         \A q \in later : \/ q \in chosen /\ (r.type = "EXIT" => r.pid # q)
                          \/ q = r.pid /\ r.type = "EXEC" /\ r.due
  PROVE  DueIsReported(t, after, later)
<1> DEFINE n == Len(before)
<1>1. n \in Nat /\ Len(after) = n + 1 /\ \A i \in 1 .. n : before[i] \in Records
  OBVIOUS
<1>2. ASSUME NEW p \in Pids, NEW i \in 1 .. (n + 1), TrackedBy(t, before, p, i)
      PROVE  TrackedBy(t, after, p, i)
  <2>1. i \in Nat /\ \A j \in 1 .. (i - 1) : j \in 1 .. n
    BY <1>1
  <2> QED
    BY <1>2, <2>1, SameWay
<1>3. ASSUME NEW i \in 1 .. (n + 1), after[i].due
      PROVE  /\ after[i].type = "EXEC" => after[i].named \/ after[i].pid = Target
             /\ after[i].type = "EXIT" => TrackedBy(t, after, after[i].pid, i)
  <2>1. CASE i \in 1 .. n
    BY <1>1, <1>2, <1>3, <2>1 DEF DueIsReported, Records
  <2>2. CASE i = n + 1
    BY <1>1, <1>2, <1>3, <2>2 DEF DueIsReported, Records
  <2> QED
    BY <1>1, <2>1, <2>2
<1>4. ASSUME NEW q \in later
      PROVE  TrackedBy(t, after, q, n + 2)
  <2>1. CASE q \in chosen /\ (r.type = "EXIT" => r.pid # q)
    <3>1. n + 1 \in 1 .. (n + 1) /\ n + 1 \in Nat /\ (n + 1) + 1 = n + 2
      BY <1>1
    <3>2. TrackedBy(t, after, q, n + 1)
      BY <1>2, <2>1, <3>1 DEF DueIsReported
    <3> QED
      BY <2>1, <3>1, <3>2, WayGoesOn
  <2>2. CASE q = r.pid /\ r.type = "EXEC" /\ r.due
    <3>1. n + 1 \in 0 .. ((n + 2) - 1) /\ n + 1 # 0
      BY <1>1
    <3>2. \A j \in ((n + 1) + 1) .. ((n + 2) - 1) : FALSE
      BY <1>1
    <3> QED
      BY <2>2, <3>1, <3>2 DEF TrackedBy
  <2> QED
    BY <1>4, <2>1, <2>2
<1> QED
  BY <1>1, <1>3, <1>4 DEF DueIsReported

\* The handler takes the first record: the table then has what was on the way.
LEMMA DueWhenHandled ==
  ASSUME NEW t, NEW u, NEW before \in Seq(Records), NEW after \in Seq(Records),
         NEW chosen \in SUBSET Pids, DueIsReported(t, before, chosen), Len(before) >= 1,
         Len(after) = Len(before) - 1, \A i \in 1 .. Len(after) : after[i] = before[i + 1],
         \A p \in TrackedIn(t) : p \in TrackedIn(u) \/ (before[1].type = "EXIT" /\ before[1].pid = p),
         before[1].type = "EXEC" /\ before[1].due => before[1].pid \in TrackedIn(u)
  PROVE  DueIsReported(u, after, chosen)
<1> DEFINE n == Len(after)
<1>1. n \in Nat /\ Len(before) = n + 1
  OBVIOUS
<1>2. ASSUME NEW p \in Pids, NEW i \in 1 .. (n + 1), TrackedBy(t, before, p, i + 1)
      PROVE  TrackedBy(u, after, p, i)
  <2>1. PICK k \in 0 .. i :
          /\ IF k = 0 THEN p \in TrackedIn(t)
             ELSE before[k].type = "EXEC" /\ before[k].pid = p /\ before[k].due
          /\ \A j \in (k + 1) .. i : before[j].type = "EXIT" => before[j].pid # p
    BY <1>1, <1>2 DEF TrackedBy
  <2>2. \A j \in 1 .. (i - 1) : after[j] = before[j + 1]
    BY <1>1
  <2>3. CASE k = 0 \/ k = 1
    <3>1. p \in TrackedIn(u)
      <4>1. CASE k = 0
        <5>1. 1 \in (k + 1) .. i
          BY <1>1, <4>1
        <5> QED
          BY <2>1, <4>1, <5>1
      <4>2. CASE k = 1
        BY <2>1, <4>2
      <4> QED
        BY <2>3, <4>1, <4>2
    <3>2. \A j \in 1 .. (i - 1) : after[j].type = "EXIT" => after[j].pid # p
      <4> TAKE j \in 1 .. (i - 1)
      <4>1. j + 1 \in (k + 1) .. i
        BY <2>3
      <4> QED
        BY <2>1, <2>2, <4>1
    <3>3. 0 \in 0 .. (i - 1)
      BY <1>1
    <3> QED
      BY <3>1, <3>2, <3>3 DEF TrackedBy
  <2>4. CASE k > 1
    <3>1. k - 1 \in 1 .. (i - 1) /\ k - 1 \in 0 .. (i - 1) /\ k - 1 # 0 /\ k # 0
      BY <2>4
    <3>2. after[k - 1].type = "EXEC" /\ after[k - 1].pid = p /\ after[k - 1].due
      BY <2>1, <2>2, <3>1
    <3>3. \A j \in ((k - 1) + 1) .. (i - 1) : after[j].type = "EXIT" => after[j].pid # p
      <4> TAKE j \in ((k - 1) + 1) .. (i - 1)
      <4>1. j \in 1 .. (i - 1) /\ j + 1 \in (k + 1) .. i
        BY <2>4
      <4> QED
        BY <2>1, <2>2, <4>1
    <3> QED
      BY <3>1, <3>2, <3>3 DEF TrackedBy
  <2> QED
    BY <2>3, <2>4
<1>3. ASSUME NEW i \in 1 .. n, after[i].due
      PROVE  /\ after[i].type = "EXEC" => after[i].named \/ after[i].pid = Target
             /\ after[i].type = "EXIT" => TrackedBy(u, after, after[i].pid, i)
  <2>1. /\ i + 1 \in 1 .. Len(before) /\ i \in 1 .. (n + 1)
        /\ after[i] = before[i + 1] /\ after[i].pid \in Pids
    <3>1. i + 1 \in 1 .. Len(before) /\ i \in 1 .. (n + 1) /\ after[i] = before[i + 1]
      BY <1>1
    <3>2. before[i + 1] \in Records
      BY <3>1
    <3> QED
      BY <3>1, <3>2 DEF Records
  <2> QED
    BY <1>2, <1>3, <2>1 DEF DueIsReported
<1>4. ASSUME NEW q \in chosen
      PROVE  TrackedBy(u, after, q, n + 1)
  <2>1. n + 1 \in 1 .. (n + 1) /\ (n + 1) + 1 = Len(before) + 1
    BY <1>1
  <2>2. TrackedBy(t, before, q, (n + 1) + 1)
    BY <2>1 DEF DueIsReported
  <2> QED
    BY <1>2, <2>1, <2>2
<1> QED
  BY <1>1, <1>3, <1>4 DEF DueIsReported

\* The command line stays what it is.
LEMMA OptionsStay == [Next]_vars => opts' = opts
  BY DEF Next, vars, kernel, tracker, Fork, Exec, ExecOutside, Exit, ExitOutside,
         LastThreadExit, Submit, Reap, Open, Poll

LEMMA LearnedInit == Init => Learned
  BY DEF Init, Learned, DueIsReported

LEMMA LearnedNext == Tidy /\ Learned /\ TypeOK' /\ [Next]_vars => Learned'
<1> SUFFICES ASSUME Tidy, Learned, TypeOK', [Next]_vars
             PROVE  Learned'
  OBVIOUS
<1> SUFFICES ASSUME NoCollisions, ~ SessionOn, ~ MinDuration
              PROVE  DueIsReported(table', ring', selected') /\ missed' = {}
  BY OptionsStay DEF Learned, NoCollisions, SessionOn, MinDuration
<1>1. /\ TypeOK /\ ring \in Seq(Records) /\ Len(ring) \in Nat /\ ring' \in Seq(Records)
      /\ selected \in SUBSET Pids /\ selected' \in SUBSET Pids
      /\ DueIsReported(table, ring, selected) /\ missed = {}
  BY DEF Tidy, TypeOK, Learned
<1>2. ASSUME NEW p \in Pids,
             \/ \E c \in Pids : Fork(p, c)
             \/ \E m \in BOOLEAN : ExecOutside(p, m)
             \/ \E others \in BOOLEAN : ExitOutside(p, others)
             \/ LastThreadExit(p) \/ Reap(p)
      PROVE  DueIsReported(table', ring', selected') /\ missed' = {}
  <2>1. ring' = ring /\ table' = table /\ missed' = missed /\ selected' \subseteq selected
    BY <1>2 DEF Fork, ExecOutside, ExitOutside, LastThreadExit, Reap, tracker
  <2> QED
    BY <1>1, <2>1 DEF DueIsReported
<1>3. ASSUME NEW p \in Pids, NEW m \in BOOLEAN, Exec(p, m)
      PROVE  DueIsReported(table', ring', selected') /\ missed' = {}
  <2>1. PICK r \in Records :
          /\ r.type = "EXEC" /\ r.pid = p /\ ~ r.ready
          /\ r.named = m /\ r.due = SelfSelected(p, m)
          /\ Reserve(r)
    BY <1>1, <1>3, ExecReserves
  <2>2. table' = table /\ missed' = missed
    BY <1>3 DEF Exec, tracker
  <2>3. r.due <=> r.named \/ r.pid = Target
    BY <2>1 DEF SelfSelected
  <2>4. selected' = IF r.due /\ Len(ring) < RingSize THEN selected \cup {p} ELSE selected
    BY <1>3, <2>1 DEF Exec
  <2>5. CASE ring' = ring /\ Len(ring) = RingSize
    BY <1>1, <2>2, <2>4, <2>5, ProcessTracerAssumption
  <2>6. CASE Len(ring) < RingSize /\ Len(ring') = Len(ring) + 1 /\ ring'[Len(ring) + 1] = r
    <3>1. \A i \in 1 .. Len(ring) : ring'[i] = ring[i]
      BY <1>1, <2>1, ReserveEffect
    <3>2. \A q \in selected' : q \in selected \/ (q = r.pid /\ r.due)
      BY <2>1, <2>4
    <3> QED
      BY <1>1, <2>1, <2>2, <2>3, <2>6, <3>1, <3>2, DueWhenReserved
  <2> QED
    BY <1>1, <2>1, <2>5, <2>6, ReserveEffect
<1>4. ASSUME NEW p \in Pids, NEW others \in BOOLEAN, NEW long \in BOOLEAN, Exit(p, others, long)
      PROVE  DueIsReported(table', ring', selected') /\ missed' = {}
  <2>1. PICK r \in Records :
          r.type = "EXIT" /\ r.pid = p /\ r.due = (p \in selected) /\ Reserve(r)
    BY <1>1, <1>4, ExitReserves
  <2>2. table' = table /\ missed' = missed /\ selected' = selected \ {p}
    BY <1>4 DEF Exit, tracker
  <2>3. CASE ring' = ring
    BY <1>1, <2>2, <2>3 DEF DueIsReported
  <2>4. CASE Len(ring') = Len(ring) + 1 /\ ring'[Len(ring) + 1] = r
    <3>1. \A i \in 1 .. Len(ring) : ring'[i] = ring[i]
      BY <1>1, <2>1, ReserveEffect
    <3>2. r.due => r.pid \in selected
      BY <2>1
    <3>3. r.type # "EXEC" /\ \A q \in selected' : q \in selected /\ r.pid # q
      BY <2>1, <2>2
    <3> QED
      BY <1>1, <2>1, <2>2, <2>4, <3>1, <3>2, <3>3, DueWhenReserved
  <2> QED
    BY <1>1, <2>1, <2>3, <2>4, ReserveEffect
<1>5. ASSUME NEW p \in Pids, Open(p)
      PROVE  DueIsReported(table', ring', selected') /\ missed' = {}
  <2>1. PICK r \in Records : r.type = "OPEN" /\ (ring' = ring \/ Reserve(r))
    BY <1>1, <1>5, OpenReserves
  <2>2. table' = table /\ missed' = missed /\ selected' = selected
    BY <1>5 DEF Open, tracker
  <2>3. CASE ring' = ring
    BY <1>1, <2>2, <2>3
  <2>4. CASE Len(ring') = Len(ring) + 1 /\ ring'[Len(ring) + 1] = r
    <3>1. \A i \in 1 .. Len(ring) : ring'[i] = ring[i]
      BY <1>1, <2>1, <2>4, ReserveEffect
    <3> QED
      BY <1>1, <2>1, <2>2, <2>4, <3>1, DueWhenReserved
  <2> QED
    BY <1>1, <2>1, <2>3, <2>4, ReserveEffect
<1>6. ASSUME NEW i \in 1 .. RingSize, Submit(i)
      PROVE  DueIsReported(table', ring', selected') /\ missed' = {}
  <2>1. /\ Len(ring') = Len(ring) /\ table' = table /\ selected' = selected /\ missed' = missed
        /\ \A j \in 1 .. Len(ring) : /\ ring'[j].type = ring[j].type /\ ring'[j].pid = ring[j].pid
                                     /\ ring'[j].due = ring[j].due /\ ring'[j].named = ring[j].named
    BY <1>1, <1>6, SubmitEffect DEF Submit, kernel, tracker, Records
  <2>2. ASSUME NEW p \in Pids, NEW j \in 1 .. (Len(ring) + 1), TrackedBy(table, ring, p, j)
        PROVE  TrackedBy(table, ring', p, j)
    <3>1. j \in Nat /\ \A k \in 1 .. (j - 1) : k \in 1 .. Len(ring)
      BY <1>1
    <3> QED
      BY <2>1, <2>2, <3>1, SameWay
  <2>3. \A j \in 1 .. Len(ring) : ring[j].pid \in Pids /\ j \in 1 .. (Len(ring) + 1)
    <3>1. \A j \in 1 .. Len(ring) : ring[j] \in Records
      BY <1>1 DEF TypeOK
    <3> QED
      BY <1>1, <3>1 DEF Records
  <2>4. Len(ring) + 1 \in 1 .. (Len(ring) + 1)
    BY <1>1
  <2>5. \A j \in 1 .. Len(ring) : ring[j].due =>
          /\ ring[j].type = "EXEC" => ring[j].named \/ ring[j].pid = Target
          /\ ring[j].type = "EXIT" => TrackedBy(table, ring, ring[j].pid, j)
    BY <1>1 DEF DueIsReported
  <2>6. \A p \in selected : TrackedBy(table, ring, p, Len(ring) + 1)
    BY <1>1 DEF DueIsReported
  <2> QED
    BY <1>1, <2>1, <2>2, <2>3, <2>4, <2>5, <2>6 DEF DueIsReported
<1>7. CASE Poll
  <2> DEFINE r == ring[1]
  <2>1. /\ r \in Records /\ r = Head(ring) /\ r.pid \in Pids /\ Len(ring) >= 1
        /\ Len(ring') = Len(ring) - 1 /\ \A i \in 1 .. Len(ring') : ring'[i] = ring[i + 1]
        /\ selected' = selected
    BY <1>1, <1>7, PollEffect DEF Poll, Records, kernel
  <2>2. AtHome(table)
    BY DEF Tidy
  <2>3. r.due => /\ r.type = "EXEC" => r.named \/ r.pid = Target
                 /\ r.type = "EXIT" => TrackedBy(table, ring, r.pid, 1)
    BY <1>1, <2>1 DEF DueIsReported
  <2>4. TrackedBy(table, ring, r.pid, 1) => Tracked(r.pid)
    BY DEF TrackedBy, TrackedIn, Tracked
  <2>5. r.due /\ r.type = "EXEC" => ShouldTrack(r)
    BY <2>3 DEF ShouldTrack
  <2>6. /\ \A p \in TrackedIn(table) : p \in TrackedIn(table') \/ (r.type = "EXIT" /\ r.pid = p)
        /\ r.type = "EXEC" /\ r.due => r.pid \in TrackedIn(table')
    BY <1>1, <1>7, <2>1, <2>2, <2>5, HandledTable DEF Poll
  <2>7. missed' = {}
    BY <1>1, <1>7, <2>1, <2>3, <2>4, <2>5 DEF Poll, HandleExec, HandleExit, HandleOpen
  <2> QED
    BY <1>1, <2>1, <2>6, <2>7, DueWhenHandled
<1>8. CASE UNCHANGED vars
  BY <1>1, <1>8 DEF vars, kernel, tracker
<1> QED
  BY <1>2, <1>3, <1>4, <1>5, <1>6, <1>7, <1>8 DEF Next

\* Records of processes that pass the filter by themselves are reported, for every
\* size of the table and the ring: the tracker learns of a process before its EXIT
\* is handled, and is asked before it forgets.
THEOREM SelectedAreReported == Spec => []SelectedIsReported
<1>1. Learned => SelectedIsReported
  BY DEF Learned, SelectedIsReported
<1> QED
  BY <1>1, LearnedInit, LearnedNext, TidyInit, TidyNext, TypeCorrect, PTL DEF Spec

-----------------------------------------------------------------------------
\* An EXIT of p is at i or behind it.
ExitFrom(records, p, i) ==
  \E j \in 1 .. Len(records) : j >= i /\ records[j].type = "EXIT" /\ records[j].pid = p

\* Whoever is tracked, or will be by an EXEC that is admitted, is good, or its EXIT
\* comes after that.
Follows(t, records, admitted, good) ==
  /\ \A p \in TrackedIn(t) : p \in good \/ ExitFrom(records, p, 1)
  /\ \A i \in 1 .. Len(records) :
       records[i].type = "EXEC" /\ records[i].pid \in admitted
         => records[i].pid \in good \/ ExitFrom(records, records[i].pid, i)

\* The parent that the handler will find in the record
ParentIn(r, par) == IF r.ready THEN r.ppid ELSE par[r.pid]

\* Without --session: the PIDs that can be tracked after a record if these are before it
After(r, par, pids) ==
  {p \in Pids :
     /\ \/ p \in pids
        \/ /\ r.type = "EXEC" /\ r.pid = p
           /\ r.named \/ p = Target \/ ParentIn(r, par) \in pids
     /\ r.type = "EXIT" => r.pid # p}

\* The PIDs that can be tracked before each record, whatever the records find, are
\* good or have an EXIT from there on.
Foresees(t, records, par, good, can) ==
  /\ TrackedIn(t) \subseteq can[1]
  /\ \A i \in 1 .. Len(records) : After(records[i], par, can[i]) \subseteq can[i + 1]
  /\ \A i \in 1 .. Len(records) + 1 : \A p \in can[i] : p \in good \/ ExitFrom(records, p, i)

\* While a probe is in flight its process is not released.
ProbesHold == \A i \in 1 .. Len(ring) : ~ ring[i].ready => st[ring[i].pid] # "free"

RunOrUnseen == {p \in Pids : st[p] = "run" \/ p \in unseen}
OursRunning == {p \in ours : st[p] = "run"}

Settled == NoCollisions /\ ~ MinDuration /\ Mode = "filter" /\ unseen = {}

\* A tracked process runs, or its EXIT is on the way, or was lost.
ExitsFollow ==
  NoCollisions /\ ~ MinDuration => Follows(table, ring, Pids, RunOrUnseen)

\* With --session, a process of it that is tracked is ours.
SessionIsOurs == Settled /\ SessionOn => Follows(table, ring, sess, OursRunning)

\* Without it, the tracking is handed from parents to children, and to ours only.
OthersAreNot ==
  Settled /\ ~ SessionOn =>
    \E can \in [1 .. RingSize + 1 -> SUBSET Pids] :
      Foresees(table, ring, parent, OursRunning, can)

-----------------------------------------------------------------------------
\* An EXIT behind a record stays behind it, whatever is appended ...
LEMMA ExitStays ==
  ASSUME NEW before \in Seq(Records), NEW after \in Seq(Records), Len(after) >= Len(before),
         \A j \in 1 .. Len(before) : after[j].type = before[j].type /\ after[j].pid = before[j].pid,
         NEW p, NEW i, ExitFrom(before, p, i)
  PROVE  ExitFrom(after, p, i)
<1>1. PICK j \in 1 .. Len(before) : j >= i /\ before[j].type = "EXIT" /\ before[j].pid = p
  BY DEF ExitFrom
<1>2. j \in 1 .. Len(after)
  OBVIOUS
<1> QED
  BY <1>1, <1>2 DEF ExitFrom

\* ... and moves up with it.
LEMMA ExitMovesUp ==
  ASSUME NEW before \in Seq(Records), NEW after \in Seq(Records), Len(after) = Len(before) - 1,
         \A j \in 1 .. Len(after) : after[j] = before[j + 1],
         NEW p, NEW i \in Nat, i >= 1, ExitFrom(before, p, i + 1)
  PROVE  ExitFrom(after, p, i)
<1>1. PICK j \in 1 .. Len(before) : j >= i + 1 /\ before[j].type = "EXIT" /\ before[j].pid = p
  BY DEF ExitFrom
<1>2. j - 1 \in 1 .. Len(after) /\ j - 1 >= i /\ (j - 1) + 1 = j
  BY <1>1
<1> QED
  BY <1>1, <1>2 DEF ExitFrom

LEMMA ExitIsBehind ==
  ASSUME NEW records \in Seq(Records), NEW p, NEW i \in Nat, ExitFrom(records, p, i),
         records[i].type = "EXIT" => records[i].pid # p
  PROVE  ExitFrom(records, p, i + 1)
<1>1. PICK j \in 1 .. Len(records) : j >= i /\ records[j].type = "EXIT" /\ records[j].pid = p
  BY DEF ExitFrom
<1>2. j >= i + 1
  BY <1>1
<1> QED
  BY <1>1, <1>2 DEF ExitFrom

LEMMA FollowsKept ==
  ASSUME NEW t, NEW before \in Seq(Records), NEW after \in Seq(Records),
         NEW admitted, NEW admits, NEW good, NEW better,
         Follows(t, before, admitted, good), Len(after) = Len(before),
         \A j \in 1 .. Len(before) : after[j].type = before[j].type /\ after[j].pid = before[j].pid,
         good \subseteq better,
         \A i \in 1 .. Len(before) :
           before[i].type = "EXEC" /\ before[i].pid \in admits
             => before[i].pid \in admitted \/ ExitFrom(before, before[i].pid, i)
  PROVE  Follows(t, after, admits, better)
<1>1. \A p, i : ExitFrom(before, p, i) => ExitFrom(after, p, i)
  BY ExitStays
<1>2. \A p \in TrackedIn(t) : p \in better \/ ExitFrom(after, p, 1)
  BY <1>1 DEF Follows
<1>3. \A i \in 1 .. Len(before) :
        before[i].type = "EXEC" /\ before[i].pid \in admits
          => before[i].pid \in better \/ ExitFrom(before, before[i].pid, i)
  BY DEF Follows
<1>4. \A i \in 1 .. Len(after) :
        after[i].type = "EXEC" /\ after[i].pid \in admits
          => after[i].pid \in better \/ ExitFrom(after, after[i].pid, i)
  BY <1>1, <1>3
<1> QED
  BY <1>2, <1>4 DEF Follows

\* A record is appended.
LEMMA FollowsReserved ==
  ASSUME NEW t, NEW before \in Seq(Records), NEW after \in Seq(Records),
         NEW admitted, NEW good, NEW other, Follows(t, before, admitted, good),
         NEW r \in Records, Len(after) = Len(before) + 1, after[Len(before) + 1] = r,
         \A j \in 1 .. Len(before) : after[j] = before[j],
         \A p \in good : p \in other \/ (r.type = "EXIT" /\ r.pid = p),
         r.type = "EXEC" /\ r.pid \in admitted => r.pid \in other
  PROVE  Follows(t, after, admitted, other)
<1> DEFINE n == Len(before)
<1>1. n \in Nat /\ Len(after) = n + 1 /\ n + 1 \in 1 .. Len(after)
  OBVIOUS
<1>2. \A p, i : ExitFrom(before, p, i) => ExitFrom(after, p, i)
  BY <1>1, ExitStays
<1>3. \A p \in good : \A i \in 1 .. (n + 1) : p \in other \/ ExitFrom(after, p, i)
  BY <1>1 DEF ExitFrom
<1>4. \A p \in TrackedIn(t) : p \in other \/ ExitFrom(after, p, 1)
  BY <1>1, <1>2, <1>3 DEF Follows
<1>5. ASSUME NEW i \in 1 .. Len(after), after[i].type = "EXEC", after[i].pid \in admitted
      PROVE  after[i].pid \in other \/ ExitFrom(after, after[i].pid, i)
  <2>1. CASE i \in 1 .. n
    BY <1>1, <1>2, <1>3, <1>5, <2>1 DEF Follows
  <2>2. CASE i = n + 1
    BY <1>5, <2>2
  <2> QED
    BY <1>1, <2>1, <2>2
<1> QED
  BY <1>4, <1>5 DEF Follows

\* The handler takes the first record.
LEMMA FollowsHandled ==
  ASSUME NEW t, NEW u, NEW before \in Seq(Records), NEW after \in Seq(Records),
         NEW admitted, NEW good, Follows(t, before, admitted, good),
         Len(before) >= 1, Len(after) = Len(before) - 1,
         \A j \in 1 .. Len(after) : after[j] = before[j + 1],
         \A p \in TrackedIn(u) :
           /\ \/ p \in TrackedIn(t)
              \/ before[1].type = "EXEC" /\ before[1].pid = p /\ p \in admitted
           /\ before[1].type = "EXIT" => before[1].pid # p
  PROVE  Follows(u, after, admitted, good)
<1>1. 1 \in 1 .. Len(before) /\ Len(after) \in Nat
  OBVIOUS
<1>2. ASSUME NEW p \in TrackedIn(u)
      PROVE  p \in good \/ ExitFrom(after, p, 1)
  <2>1. p \in good \/ ExitFrom(before, p, 1)
    BY <1>1, <1>2 DEF Follows
  <2>2. CASE ExitFrom(before, p, 1)
    <3>1. ExitFrom(before, p, 1 + 1)
      BY <1>2, <2>2, ExitIsBehind
    <3> QED
      BY <3>1, ExitMovesUp
  <2> QED
    BY <2>1, <2>2
<1>3. ASSUME NEW i \in 1 .. Len(after), after[i].type = "EXEC", after[i].pid \in admitted
      PROVE  after[i].pid \in good \/ ExitFrom(after, after[i].pid, i)
  <2>1. after[i] = before[i + 1] /\ i + 1 \in 1 .. Len(before) /\ i \in Nat /\ i >= 1
    BY <1>1
  <2>2. after[i].pid \in good \/ ExitFrom(before, after[i].pid, i + 1)
    BY <1>3, <2>1 DEF Follows
  <2> QED
    BY <2>1, <2>2, ExitMovesUp
<1> QED
  BY <1>2, <1>3 DEF Follows

\* The steps of the kernel change no record but one that is completed, and no table.
LEMMA RingKept ==
  ASSUME TypeOK,
         \/ \E p, c \in Pids : Fork(p, c)
         \/ \E p \in Pids : LastThreadExit(p) \/ Reap(p)
         \/ \E i \in 1 .. RingSize : Submit(i)
         \/ UNCHANGED vars
  PROVE  /\ Len(ring') = Len(ring) /\ table' = table /\ unseen' = unseen
         /\ \A j \in 1 .. Len(ring) : /\ ring'[j].type = ring[j].type
                                      /\ ring'[j].pid = ring[j].pid
                                      /\ ring'[j].named = ring[j].named
                                      /\ ring[j].ready => ring'[j] = ring[j]
<1>1. CASE \E i \in 1 .. RingSize : Submit(i)
  <2>1. PICK i \in 1 .. RingSize : Submit(i)
    BY <1>1
  <2> QED
    BY <2>1, SubmitEffect DEF Submit, kernel, tracker, Records
<1> QED
  BY <1>1 DEF Fork, LastThreadExit, Reap, tracker, kernel, vars

LEMMA ProbesHoldNext == TypeOK /\ TypeOK' /\ ProbesHold /\ [Next]_vars => ProbesHold'
<1> SUFFICES ASSUME TypeOK, TypeOK', ProbesHold, [Next]_vars
             PROVE  ProbesHold'
  OBVIOUS
<1>1. /\ ring \in Seq(Records) /\ Len(ring) \in Nat /\ DOMAIN ring = 1 .. Len(ring)
      /\ \A i \in 1 .. Len(ring) : ring[i] \in Records /\ ring[i].pid \in Pids
      /\ st \in [Pids -> {"free", "run", "headless", "dying"}]
  <2>1. ring \in Seq(Records) /\ st \in [Pids -> {"free", "run", "headless", "dying"}]
    BY DEF TypeOK
  <2>2. \A i \in 1 .. Len(ring) : ring[i] \in Records
    BY <2>1
  <2> QED
    BY <2>1, <2>2 DEF Records
<1>2. ASSUME NEW p \in Pids, NEW c \in Pids, Fork(p, c)
      PROVE  ProbesHold'
  BY <1>1, <1>2 DEF Fork, ProbesHold
<1>3. ASSUME NEW p \in Pids, LastThreadExit(p)
      PROVE  ProbesHold'
  BY <1>1, <1>3 DEF LastThreadExit, ProbesHold
<1>4. ASSUME NEW p \in Pids, Reap(p)
      PROVE  ProbesHold'
  BY <1>1, <1>4 DEF Reap, ProbesHold, InProbe
<1>5. ASSUME NEW p \in Pids, NEW r \in Records, r.pid = p, st'[p] # "free",
             \A q \in Pids : st[q] # "free" => st'[q] # "free", ring' = ring \/ Reserve(r)
      PROVE  ProbesHold'
  <2>1. CASE ring' = ring
    BY <1>1, <1>5, <2>1 DEF ProbesHold
  <2>2. CASE Len(ring') = Len(ring) + 1 /\ ring'[Len(ring) + 1] = r
    <3>1. \A i \in 1 .. Len(ring) : ring'[i] = ring[i]
      BY <1>5, <2>2, ReserveEffect
    <3>2. \A i \in 1 .. Len(ring') : i \in 1 .. Len(ring) \/ i = Len(ring) + 1
      BY <1>1, <2>2
    <3> QED
      BY <1>1, <1>5, <2>2, <3>1, <3>2 DEF ProbesHold
  <2> QED
    BY <1>5, <2>1, <2>2, ReserveEffect
<1>6. ASSUME NEW p \in Pids, NEW m \in BOOLEAN, Exec(p, m)
      PROVE  ProbesHold'
  <2>1. PICK r \in Records : r.pid = p /\ (ring' = ring \/ Reserve(r))
    BY <1>6, ExecReserves
  <2>2. st'[p] # "free" /\ \A q \in Pids : st[q] # "free" => st'[q] # "free"
    BY <1>1, <1>6 DEF Exec
  <2> QED
    BY <1>5, <2>1, <2>2
<1>7. ASSUME NEW p \in Pids, NEW others \in BOOLEAN, NEW long \in BOOLEAN, Exit(p, others, long)
      PROVE  ProbesHold'
  <2>1. PICK r \in Records : r.pid = p /\ (ring' = ring \/ Reserve(r))
    BY <1>7, ExitReserves
  <2>2. st'[p] # "free" /\ \A q \in Pids : st[q] # "free" => st'[q] # "free"
    BY <1>1, <1>7 DEF Exit
  <2> QED
    BY <1>5, <2>1, <2>2
<1>8. ASSUME NEW p \in Pids, Open(p)
      PROVE  ProbesHold'
  <2>1. PICK r \in Records : r.pid = p /\ (ring' = ring \/ Reserve(r))
    BY <1>8, OpenReserves
  <2>2. st' = st /\ st[p] # "free"
    BY <1>8 DEF Open
  <2> QED
    BY <1>5, <2>1, <2>2
<1>9. ASSUME NEW i \in 1 .. RingSize, Submit(i)
      PROVE  ProbesHold'
  <2>1. st' = st
    BY <1>9 DEF Submit, kernel
  <2>2. \A j \in 1 .. Len(ring') : ~ ring'[j].ready => ring'[j] = ring[j] /\ j \in 1 .. Len(ring)
    BY <1>1, <1>9, SubmitEffect DEF Records
  <2> QED
    BY <2>1, <2>2 DEF ProbesHold
<1>10. CASE Poll
  <2>1. st' = st /\ \A j \in 1 .. Len(ring') : ring'[j] = ring[j + 1] /\ j + 1 \in 1 .. Len(ring)
    BY <1>1, <1>10, PollEffect DEF Poll, kernel
  <2> QED
    BY <2>1 DEF ProbesHold
<1>11. CASE UNCHANGED vars
  BY <1>11 DEF vars, kernel, ProbesHold
<1>12. ASSUME NEW p \in Pids, NEW m \in BOOLEAN, ExecOutside(p, m)
       PROVE  ProbesHold'
  BY <1>1, <1>12 DEF ExecOutside, ProbesHold
<1>13. ASSUME NEW p \in Pids, NEW others \in BOOLEAN, ExitOutside(p, others)
       PROVE  ProbesHold'
  BY <1>1, <1>13 DEF ExitOutside, ProbesHold
<1> QED
  BY <1>2, <1>3, <1>4, <1>6, <1>7, <1>8, <1>9, <1>10, <1>11, <1>12, <1>13 DEF Next

\* A process stops running by an EXIT only, and that is recorded or seen to be lost.
LEMMA ExitsFollowNext ==
  Tidy /\ TypeOK' /\ ExitsFollow /\ [Next]_vars => ExitsFollow'
<1> SUFFICES ASSUME Tidy, TypeOK', ExitsFollow, [Next]_vars, NoCollisions, ~ MinDuration
             PROVE  Follows(table', ring', Pids, RunOrUnseen')
  BY OptionsStay DEF ExitsFollow, NoCollisions, MinDuration
<1>1. /\ TypeOK /\ ring \in Seq(Records) /\ Len(ring) \in Nat /\ ring' \in Seq(Records)
      /\ st \in [Pids -> {"free", "run", "headless", "dying"}] /\ unseen \subseteq Pids
      /\ AtHome(table) /\ Follows(table, ring, Pids, RunOrUnseen)
  <2>1. TypeOK /\ AtHome(table) /\ Follows(table, ring, Pids, RunOrUnseen)
    BY DEF Tidy, ExitsFollow
  <2>2. ring \in Seq(Records) /\ st \in [Pids -> {"free", "run", "headless", "dying"}]
    BY <2>1 DEF TypeOK
  <2>3. unseen \subseteq Pids /\ ring' \in Seq(Records)
    BY <2>1 DEF TypeOK
  <2> QED
    BY <2>1, <2>2, <2>3
<1>2. ASSUME RunOrUnseen \subseteq RunOrUnseen',
             Len(ring') = Len(ring), table' = table,
             \A j \in 1 .. Len(ring) : ring'[j].type = ring[j].type /\ ring'[j].pid = ring[j].pid
      PROVE  Follows(table', ring', Pids, RunOrUnseen')
  <2>1. \A i \in 1 .. Len(ring) : ring[i].pid \in Pids => ring[i].pid \in Pids
    OBVIOUS
  <2> QED
    BY <1>1, <1>2, FollowsKept
<1>3. ASSUME \/ \E p, c \in Pids : Fork(p, c)
             \/ \E p \in Pids : LastThreadExit(p) \/ Reap(p)
             \/ \E i \in 1 .. RingSize : Submit(i)
             \/ UNCHANGED vars
      PROVE  Follows(table', ring', Pids, RunOrUnseen')
  <2>1. RunOrUnseen \subseteq RunOrUnseen'
    BY <1>1, <1>3 DEF Fork, LastThreadExit, Reap, Submit, vars, kernel, RunOrUnseen
  <2> QED
    BY <1>1, <1>2, <1>3, <2>1, RingKept
<1>4. ASSUME NEW p \in Pids, NEW r \in Records, r.pid = p, Reserve(r), table' = table,
             \A q \in RunOrUnseen : q \in RunOrUnseen' \/ (q = p /\ r.type = "EXIT"),
             r.type = "EXEC" => p \in RunOrUnseen',
             Len(ring) = RingSize => RunOrUnseen \subseteq RunOrUnseen'
      PROVE  Follows(table', ring', Pids, RunOrUnseen')
  <2>1. CASE ring' = ring /\ Len(ring) = RingSize
    BY <1>2, <1>4, <2>1
  <2>2. CASE Len(ring) < RingSize /\ Len(ring') = Len(ring) + 1 /\ ring'[Len(ring) + 1] = r
    <3>1. \A j \in 1 .. Len(ring) : ring'[j] = ring[j]
      BY <1>1, <1>4, ReserveEffect
    <3> QED
      BY <1>1, <1>4, <2>2, <3>1, FollowsReserved
  <2> QED
    BY <1>1, <1>4, <2>1, <2>2, ReserveEffect
<1>5. ASSUME NEW p \in Pids, NEW m \in BOOLEAN, Exec(p, m)
      PROVE  Follows(table', ring', Pids, RunOrUnseen')
  <2>1. PICK r \in Records : r.type = "EXEC" /\ r.pid = p /\ Reserve(r)
    BY <1>1, <1>5, ExecReserves
  <2>2. table' = table /\ RunOrUnseen \subseteq RunOrUnseen' /\ p \in RunOrUnseen'
    BY <1>1, <1>5 DEF Exec, tracker, RunOrUnseen
  <2> QED
    BY <1>4, <2>1, <2>2
<1>6. ASSUME NEW p \in Pids, NEW others \in BOOLEAN, NEW long \in BOOLEAN, Exit(p, others, long)
      PROVE  Follows(table', ring', Pids, RunOrUnseen')
  <2>1. PICK r \in Records :
          /\ r.type = "EXIT" /\ r.pid = p /\ Reserve(r)
          /\ unseen' = IF Len(ring) < RingSize THEN unseen ELSE unseen \cup {p}
    BY <1>1, <1>6, ExitReserves
  <2>2. table' = table /\ \A q \in RunOrUnseen : q \in RunOrUnseen' \/ q = p
    BY <1>1, <1>6, <2>1 DEF Exit, tracker, RunOrUnseen
  <2>3. Len(ring) = RingSize => p \in RunOrUnseen'
    BY <1>1, <2>1, ProcessTracerAssumption DEF RunOrUnseen
  <2> QED
    BY <1>4, <2>1, <2>2, <2>3
<1>7. ASSUME NEW p \in Pids, Open(p)
      PROVE  Follows(table', ring', Pids, RunOrUnseen')
  <2>1. PICK r \in Records : r.type = "OPEN" /\ r.pid = p /\ (ring' = ring \/ Reserve(r))
    BY <1>1, <1>7, OpenReserves
  <2>2. table' = table /\ RunOrUnseen' = RunOrUnseen
    BY <1>7 DEF Open, tracker, RunOrUnseen
  <2> QED
    BY <1>2, <1>4, <2>1, <2>2
<1>8. CASE Poll
  <2>1. /\ Len(ring) >= 1 /\ Len(ring') = Len(ring) - 1 /\ ring[1] \in Records /\ Head(ring) = ring[1]
        /\ \A j \in 1 .. Len(ring') : ring'[j] = ring[j + 1]
    BY <1>1, <1>8, PollEffect DEF Poll
  <2>2. \A p \in TrackedIn(table') :
          /\ p \in TrackedIn(table) \/ (ring[1].type = "EXEC" /\ ring[1].pid = p /\ p \in Pids)
          /\ ring[1].type = "EXIT" => ring[1].pid # p
    BY <1>1, <1>8, <2>1, HandledTable DEF Poll, TrackedIn
  <2>3. RunOrUnseen' = RunOrUnseen
    BY <1>8 DEF Poll, kernel, RunOrUnseen
  <2> QED
    BY <1>1, <2>1, <2>2, <2>3, FollowsHandled
<1>9. ASSUME NEW p \in Pids,
             \/ \E m \in BOOLEAN : ExecOutside(p, m)
             \/ \E others \in BOOLEAN : ExitOutside(p, others)
      PROVE  Follows(table', ring', Pids, RunOrUnseen')
  <2>1. table' = table /\ ring' = ring /\ RunOrUnseen \subseteq RunOrUnseen'
    BY <1>1, <1>9 DEF ExecOutside, ExitOutside, tracker, RunOrUnseen
  <2> QED
    BY <1>2, <2>1
<1> QED
  BY <1>3, <1>5, <1>6, <1>7, <1>8, <1>9 DEF Next

\* Settled is what the code can still be in after a step: losses are never undone.
LEMMA StaysSettled == [Next]_vars /\ Settled' => Settled
<1> SUFFICES ASSUME [Next]_vars, Settled'
             PROVE  Settled
  OBVIOUS
<1>1. unseen' = {} => unseen = {}
  BY DEF Next, vars, kernel, tracker, Fork, Exec, ExecOutside, Exit, ExitOutside,
         LastThreadExit, Submit, Reap, Open, Poll
<1> QED
  BY <1>1, OptionsStay DEF Settled, NoCollisions, MinDuration, Mode

\* A PID comes into the session by a fork only, and it is free before: what the ring
\* has of its last process ends with an EXIT.
LEMMA SessionNext ==
  Tidy /\ TypeOK' /\ ExitsFollow /\ SessionIsOurs /\ [Next]_vars => SessionIsOurs'
<1> SUFFICES ASSUME Tidy, TypeOK', ExitsFollow, SessionIsOurs, [Next]_vars,
                    Settled, Settled', SessionOn
             PROVE  Follows(table', ring', sess', OursRunning')
  BY OptionsStay, StaysSettled DEF SessionIsOurs, SessionOn
<1>1. /\ TypeOK /\ AtHome(table) /\ unseen = {} /\ unseen' = {} /\ ~ MinDuration
      /\ NoCollisions /\ Mode = "filter"
      /\ Follows(table, ring, sess, OursRunning) /\ Follows(table, ring, Pids, RunOrUnseen)
  BY DEF Tidy, Settled, SessionIsOurs, ExitsFollow
<1>2. /\ ring \in Seq(Records) /\ Len(ring) \in Nat
      /\ st \in [Pids -> {"free", "run", "headless", "dying"}]
  BY <1>1 DEF TypeOK
<1>3. ring' \in Seq(Records) /\ ours \subseteq Pids /\ sess \subseteq Pids
  BY <1>1 DEF TypeOK
<1>4. ASSUME OursRunning \subseteq OursRunning',
             Len(ring') = Len(ring), table' = table,
             \A j \in 1 .. Len(ring) : ring'[j].type = ring[j].type /\ ring'[j].pid = ring[j].pid,
             \A p \in sess' : p \in sess \/ st[p] = "free"
      PROVE  Follows(table', ring', sess', OursRunning')
  <2>1. ASSUME NEW i \in 1 .. Len(ring), ring[i].type = "EXEC", ring[i].pid \in sess'
        PROVE  ring[i].pid \in sess \/ ExitFrom(ring, ring[i].pid, i)
    <3>1. CASE st[ring[i].pid] = "free"
      <4>1. ring[i] \in Records
        BY <1>2
      <4> QED
        BY <1>1, <2>1, <3>1, <4>1 DEF Follows, RunOrUnseen, Records
    <3> QED
      BY <1>4, <2>1, <3>1
  <2> QED
    BY <1>1, <1>2, <1>3, <1>4, <2>1, FollowsKept
<1>5. ASSUME \/ \E p, c \in Pids : Fork(p, c)
             \/ \E p \in Pids : LastThreadExit(p) \/ Reap(p)
             \/ \E i \in 1 .. RingSize : Submit(i)
             \/ UNCHANGED vars
      PROVE  Follows(table', ring', sess', OursRunning')
  <2>1. /\ OursRunning \subseteq OursRunning'
        /\ \A p \in sess' : p \in sess \/ st[p] = "free"
    BY <1>2, <1>3, <1>5 DEF Fork, LastThreadExit, Reap, Submit, vars, kernel, OursRunning
  <2> QED
    BY <1>1, <1>4, <1>5, <2>1, RingKept
<1>6. ASSUME NEW p \in Pids, NEW r \in Records, r.pid = p, Reserve(r), table' = table, sess' = sess,
             \A q \in OursRunning : q \in OursRunning' \/ (q = p /\ r.type = "EXIT"),
             r.type = "EXEC" /\ p \in sess => p \in OursRunning',
             Len(ring) = RingSize => OursRunning \subseteq OursRunning'
      PROVE  Follows(table', ring', sess', OursRunning')
  <2>1. CASE ring' = ring /\ Len(ring) = RingSize
    BY <1>4, <1>6, <2>1
  <2>2. CASE Len(ring) < RingSize /\ Len(ring') = Len(ring) + 1 /\ ring'[Len(ring) + 1] = r
    <3>1. \A j \in 1 .. Len(ring) : ring'[j] = ring[j]
      BY <1>1, <1>6, ReserveEffect
    <3> QED
      BY <1>1, <1>2, <1>3, <1>6, <2>2, <3>1, FollowsReserved
  <2> QED
    BY <1>1, <1>6, <2>1, <2>2, ReserveEffect
<1>7. ASSUME NEW p \in Pids, NEW m \in BOOLEAN, Exec(p, m)
      PROVE  Follows(table', ring', sess', OursRunning')
  <2>1. PICK r \in Records : r.type = "EXEC" /\ r.pid = p /\ Reserve(r)
    BY <1>1, <1>7, ExecReserves
  <2>2. table' = table /\ sess' = sess /\ OursRunning \subseteq OursRunning'
    BY <1>2, <1>3, <1>7 DEF Exec, tracker, OursRunning
  <2>3. p \in sess => p \in OursRunning'
    BY <1>2, <1>7 DEF Exec, SelfSelected, OursRunning
  <2> QED
    BY <1>6, <2>1, <2>2, <2>3
<1>8. ASSUME NEW p \in Pids, NEW others \in BOOLEAN, NEW long \in BOOLEAN, Exit(p, others, long)
      PROVE  Follows(table', ring', sess', OursRunning')
  <2>1. PICK r \in Records :
          /\ r.type = "EXIT" /\ r.pid = p /\ Reserve(r)
          /\ unseen' = IF Len(ring) < RingSize THEN unseen ELSE unseen \cup {p}
    BY <1>1, <1>8, ExitReserves
  <2>2. /\ table' = table /\ sess' = sess
        /\ \A q \in OursRunning : q \in OursRunning' \/ q = p
    BY <1>2, <1>3, <1>8 DEF Exit, tracker, OursRunning
  <2>3. ~ (Len(ring) = RingSize)
    <3>1. Len(ring) < RingSize \/ unseen' = unseen \cup {p}
      BY <2>1
    <3>2. unseen' = {}
      BY <1>1
    <3>3. Len(ring) < RingSize
      BY <3>1, <3>2
    <3> QED
      BY <1>2, <3>3, ProcessTracerAssumption
  <2> QED
    BY <1>6, <2>1, <2>2, <2>3
<1>9. ASSUME NEW p \in Pids, Open(p)
      PROVE  Follows(table', ring', sess', OursRunning')
  <2>1. PICK r \in Records : r.type = "OPEN" /\ r.pid = p /\ (ring' = ring \/ Reserve(r))
    BY <1>1, <1>9, OpenReserves
  <2>2. table' = table /\ sess' = sess /\ OursRunning' = OursRunning
    BY <1>9 DEF Open, tracker, OursRunning
  <2> QED
    BY <1>4, <1>6, <2>1, <2>2
<1>10. CASE Poll
  <2>1. /\ Len(ring) >= 1 /\ Len(ring') = Len(ring) - 1 /\ ring[1] \in Records /\ Head(ring) = ring[1]
        /\ \A j \in 1 .. Len(ring') : ring'[j] = ring[j + 1]
    BY <1>1, <1>10, PollEffect DEF Poll
  <2>2. \A p \in TrackedIn(table') :
          /\ p \in TrackedIn(table) \/ (ring[1].type = "EXEC" /\ ring[1].pid = p /\ ShouldTrack(ring[1]))
          /\ ring[1].type = "EXIT" => ring[1].pid # p
    BY <1>1, <1>10, <2>1, HandledTable DEF Poll
  <2>3. ShouldTrack(ring[1]) => ring[1].pid \in sess
    BY DEF ShouldTrack
  <2>4. sess' = sess /\ OursRunning' = OursRunning
    BY <1>10 DEF Poll, kernel, OursRunning
  <2> QED
    BY <1>1, <1>2, <1>3, <2>1, <2>2, <2>3, <2>4, FollowsHandled
<1>11. ASSUME NEW p \in Pids, NEW m \in BOOLEAN, ExecOutside(p, m)
       PROVE  Follows(table', ring', sess', OursRunning')
  <2>1. table' = table /\ ring' = ring /\ sess' = sess /\ OursRunning \subseteq OursRunning'
    BY <1>2, <1>3, <1>11 DEF ExecOutside, tracker, OursRunning
  <2> QED
    BY <1>4, <2>1
<1>12. ASSUME NEW p \in Pids, NEW others \in BOOLEAN, ExitOutside(p, others)
       PROVE  FALSE
  BY <1>1, <1>12 DEF ExitOutside
<1> QED
  BY <1>5, <1>7, <1>8, <1>9, <1>10, <1>11, <1>12 DEF Next

\* More PIDs before a record, more after it.
LEMMA AfterMore ==
  ASSUME NEW r, NEW par, NEW few, NEW many, few \subseteq many
  PROVE  After(r, par, few) \subseteq After(r, par, many)
  BY DEF After

LEMMA ForeseesKept ==
  ASSUME NEW t, NEW before \in Seq(Records), NEW after \in Seq(Records), NEW par, NEW kin,
         NEW good, NEW better, NEW can, Foresees(t, before, par, good, can),
         Len(after) = Len(before),
         \A j \in 1 .. Len(before) : after[j].type = before[j].type /\ after[j].pid = before[j].pid,
         good \subseteq better,
         \A i \in 1 .. Len(before) : After(after[i], kin, can[i]) \subseteq After(before[i], par, can[i])
  PROVE  Foresees(t, after, kin, better, can)
<1>1. \A p, i : ExitFrom(before, p, i) => ExitFrom(after, p, i)
  BY ExitStays
<1>2. \A i \in 1 .. Len(after) + 1 : \A p \in can[i] : p \in better \/ ExitFrom(after, p, i)
  BY <1>1 DEF Foresees
<1>3. \A i \in 1 .. Len(after) : After(after[i], kin, can[i]) \subseteq can[i + 1]
  BY DEF Foresees
<1> QED
  BY <1>2, <1>3 DEF Foresees

\* A record is appended: what it admits of good PIDs is good.
LEMMA ForeseesReserved ==
  ASSUME NEW t, NEW before \in Seq(Records), NEW after \in Seq(Records), NEW par, NEW good, NEW other,
         NEW can \in [1 .. RingSize + 1 -> SUBSET Pids], Foresees(t, before, par, good, can),
         NEW r \in Records, Len(after) = Len(before) + 1, after[Len(before) + 1] = r,
         \A j \in 1 .. Len(before) : after[j] = before[j], Len(after) <= RingSize,
         \A p \in good : p \in other \/ (r.type = "EXIT" /\ r.pid = p),
         After(r, par, good) \subseteq other
  PROVE  \E more \in [1 .. RingSize + 1 -> SUBSET Pids] : Foresees(t, after, par, other, more)
<1> DEFINE n == Len(before)
           more == [can EXCEPT ![n + 2] = After(r, par, can[n + 1])]
<1>1. /\ n \in Nat /\ Len(after) = n + 1 /\ RingSize \in Nat
      /\ n + 1 \in 1 .. RingSize + 1 /\ n + 2 \in 1 .. RingSize + 1 /\ 1 \in 1 .. RingSize + 1
  BY ProcessTracerAssumption
<1>2. After(r, par, can[n + 1]) \in SUBSET Pids
  BY DEF After
<1>3. /\ more \in [1 .. RingSize + 1 -> SUBSET Pids]
      /\ more[n + 2] = After(r, par, can[n + 1])
      /\ \A i \in 1 .. (n + 1) : more[i] = can[i]
  BY <1>1, <1>2
<1>4. can[n + 1] \subseteq good
  <2>1. \A p : ~ ExitFrom(before, p, n + 1)
    BY <1>1 DEF ExitFrom
  <2>2. n + 1 \in 1 .. Len(before) + 1
    BY <1>1
  <2> QED
    BY <2>1, <2>2 DEF Foresees
<1>5. \A p, i : ExitFrom(before, p, i) => ExitFrom(after, p, i)
  <2>1. Len(after) >= Len(before)
    BY <1>1
  <2>2. \A j \in 1 .. Len(before) : after[j].type = before[j].type /\ after[j].pid = before[j].pid
    OBVIOUS
  <2> HIDE DEF n
  <2> QED
    BY <2>1, <2>2, ExitStays
<1>6. \A p \in good : \A i \in 1 .. (n + 1) : p \in other \/ ExitFrom(after, p, i)
  BY <1>1 DEF ExitFrom
<1>7. ASSUME NEW i \in 1 .. Len(after) + 1, NEW p \in more[i]
      PROVE  p \in other \/ ExitFrom(after, p, i)
  <2>1. CASE i \in 1 .. (n + 1)
    <3>1. p \in can[i] /\ i \in 1 .. Len(before) + 1
      BY <1>1, <1>3, <1>7, <2>1
    <3> QED
      BY <1>5, <1>6, <2>1, <3>1 DEF Foresees
  <2>2. CASE i = n + 2
    BY <1>3, <1>4, <1>7, <2>2, AfterMore
  <2> QED
    BY <1>1, <2>1, <2>2
<1>8. ASSUME NEW i \in 1 .. Len(after)
      PROVE  After(after[i], par, more[i]) \subseteq more[i + 1]
  <2>1. CASE i \in 1 .. n
    <3>1. i + 1 \in 1 .. (n + 1) /\ i \in 1 .. (n + 1) /\ after[i] = before[i]
      BY <1>1, <2>1
    <3>2. After(before[i], par, can[i]) \subseteq can[i + 1]
      BY <2>1 DEF Foresees
    <3> QED
      BY <1>3, <3>1, <3>2
  <2>2. CASE i = n + 1
    <3>1. n + 1 \in 1 .. (n + 1) /\ (n + 1) + 1 = n + 2
      BY <1>1
    <3> QED
      BY <1>3, <2>2, <3>1
  <2> QED
    BY <1>1, <2>1, <2>2
<1>9. TrackedIn(t) \subseteq more[1]
  <2>1. 1 \in 1 .. (n + 1)
    BY <1>1
  <2> QED
    BY <1>3, <2>1 DEF Foresees
<1>10. Foresees(t, after, par, other, more)
  BY <1>7, <1>8, <1>9 DEF Foresees
<1> QED
  BY <1>3, <1>10

\* The handler takes the first record.
LEMMA ForeseesHandled ==
  ASSUME NEW t, NEW u, NEW before \in Seq(Records), NEW after \in Seq(Records), NEW par, NEW good,
         NEW can \in [1 .. RingSize + 1 -> SUBSET Pids], Foresees(t, before, par, good, can),
         Len(before) >= 1, Len(before) <= RingSize, Len(after) = Len(before) - 1,
         \A j \in 1 .. Len(after) : after[j] = before[j + 1],
         TrackedIn(u) \subseteq After(before[1], par, TrackedIn(t))
  PROVE  \E more \in [1 .. RingSize + 1 -> SUBSET Pids] : Foresees(u, after, par, good, more)
<1> DEFINE more == [i \in 1 .. RingSize + 1 |-> IF i <= RingSize THEN can[i + 1] ELSE {}]
<1>1. RingSize \in Nat /\ Len(after) \in Nat /\ 1 \in 1 .. Len(before)
  BY ProcessTracerAssumption
<1>2. /\ more \in [1 .. RingSize + 1 -> SUBSET Pids]
      /\ \A i \in 1 .. Len(after) + 1 : more[i] = can[i + 1] /\ i + 1 \in 1 .. Len(before) + 1
  BY <1>1
<1>3. TrackedIn(u) \subseteq more[1]
  <2>1. 1 \in 1 .. Len(after) + 1
    BY <1>1
  <2>2. more[1] = can[1 + 1]
    BY <1>2, <2>1
  <2>3. After(before[1], par, can[1]) \subseteq can[1 + 1] /\ TrackedIn(t) \subseteq can[1]
    BY <1>1 DEF Foresees
  <2>4. After(before[1], par, TrackedIn(t)) \subseteq After(before[1], par, can[1])
    BY <2>3, AfterMore
  <2> HIDE DEF more
  <2> QED
    BY <2>2, <2>3, <2>4
<1>4. ASSUME NEW i \in 1 .. Len(after)
      PROVE  After(after[i], par, more[i]) \subseteq more[i + 1]
  <2>1. /\ i \in 1 .. Len(after) + 1 /\ i + 1 \in 1 .. Len(after) + 1 /\ i + 1 \in 1 .. Len(before)
        /\ after[i] = before[i + 1]
    BY <1>1
  <2>2. After(before[i + 1], par, can[i + 1]) \subseteq can[(i + 1) + 1]
    BY <2>1 DEF Foresees
  <2> HIDE DEF more
  <2> QED
    BY <1>2, <2>1, <2>2
<1>5. ASSUME NEW i \in 1 .. Len(after) + 1, NEW p \in more[i]
      PROVE  p \in good \/ ExitFrom(after, p, i)
  <2>1. p \in can[i + 1] /\ i + 1 \in 1 .. Len(before) + 1 /\ i \in Nat /\ i >= 1
    <3> HIDE DEF more
    <3> QED
      BY <1>1, <1>2, <1>5
  <2> QED
    BY <2>1, ExitMovesUp DEF Foresees
<1>6. Foresees(u, after, par, good, more)
  <2> HIDE DEF more
  <2> QED
    BY <1>3, <1>4, <1>5 DEF Foresees
<1> QED
  BY <1>2, <1>6

\* The PIDs that an EXEC may still have tracked: what it finds of its parent is fixed
\* when it is submitted, and until then its process lives and is not forked again.
LEMMA OthersNext ==
  Tidy /\ TypeOK' /\ ProbesHold /\ OthersAreNot /\ [Next]_vars => OthersAreNot'
<1> SUFFICES ASSUME Tidy, TypeOK', ProbesHold, [Next]_vars, Settled, Settled', ~ SessionOn,
                    NEW can \in [1 .. RingSize + 1 -> SUBSET Pids],
                    Foresees(table, ring, parent, OursRunning, can)
             PROVE  \E more \in [1 .. RingSize + 1 -> SUBSET Pids] :
                      Foresees(table', ring', parent', OursRunning', more)
  BY OptionsStay, StaysSettled DEF OthersAreNot, SessionOn
<1>1. /\ TypeOK /\ AtHome(table) /\ unseen = {} /\ unseen' = {} /\ ~ MinDuration
      /\ NoCollisions /\ Mode = "filter"
  BY DEF Tidy, Settled
<1>2. /\ ring \in Seq(Records) /\ Len(ring) \in Nat /\ Len(ring) <= RingSize
      /\ st \in [Pids -> {"free", "run", "headless", "dying"}]
      /\ parent \in [Pids -> Pids \cup {NoPid}]
      /\ \A i \in 1 .. Len(ring) : can[i] \in SUBSET Pids
  <2>1. \A i \in 1 .. Len(ring) : Len(ring) \in Nat /\ Len(ring) <= RingSize => i \in 1 .. RingSize + 1
    BY ProcessTracerAssumption
  <2>2. /\ ring \in Seq(Records) /\ Len(ring) \in Nat /\ Len(ring) <= RingSize
        /\ st \in [Pids -> {"free", "run", "headless", "dying"}]
        /\ parent \in [Pids -> Pids \cup {NoPid}]
    BY <1>1 DEF TypeOK
  <2> QED
    BY <2>1, <2>2
<1>3. ring' \in Seq(Records) /\ Len(ring') <= RingSize /\ ours \subseteq Pids
  BY <1>1 DEF TypeOK
<1>4. \A i \in 1 .. Len(ring) : ring[i] \in Records /\ ring[i].pid \in Pids
  <2>1. \A i \in 1 .. Len(ring) : ring[i] \in Records
    BY <1>2
  <2> QED
    BY <2>1 DEF Records
<1>5. NoPid \notin Pids
  BY ProcessTracerAssumption
<1>6. ASSUME OursRunning \subseteq OursRunning', Len(ring') = Len(ring), table' = table,
             \A j \in 1 .. Len(ring) : /\ ring'[j].type = ring[j].type /\ ring'[j].pid = ring[j].pid
                                       /\ ring'[j].named = ring[j].named,
             \A j \in 1 .. Len(ring) : \/ ParentIn(ring'[j], parent') = ParentIn(ring[j], parent)
                                       \/ ParentIn(ring'[j], parent') = NoPid
      PROVE  Foresees(table', ring', parent', OursRunning', can)
  <2>1. \A i \in 1 .. Len(ring) :
          After(ring'[i], parent', can[i]) \subseteq After(ring[i], parent, can[i])
    <3> TAKE i \in 1 .. Len(ring)
    <3>1. NoPid \notin can[i]
      BY <1>2, <1>5
    <3> QED
      BY <1>6, <3>1 DEF After
  <2> QED
    BY <1>2, <1>3, <1>6, <2>1, ForeseesKept
<1>7. ASSUME NEW p \in Pids, NEW c \in Pids, Fork(p, c)
      PROVE  Foresees(table', ring', parent', OursRunning', can)
  <2>1. /\ OursRunning \subseteq OursRunning' /\ ring' = ring /\ table' = table
        /\ st[c] = "free" /\ parent' = [parent EXCEPT ![c] = p]
    BY <1>2, <1>3, <1>7 DEF Fork, tracker, OursRunning
  <2>2. \A j \in 1 .. Len(ring) : ParentIn(ring'[j], parent') = ParentIn(ring[j], parent)
    BY <1>2, <1>4, <2>1 DEF ProbesHold, ParentIn
  <2> QED
    BY <1>6, <2>1, <2>2
<1>8. ASSUME NEW p \in Pids, LastThreadExit(p)
      PROVE  Foresees(table', ring', parent', OursRunning', can)
  <2>1. /\ OursRunning \subseteq OursRunning' /\ ring' = ring /\ table' = table /\ parent' = parent
    BY <1>2, <1>8 DEF LastThreadExit, tracker, OursRunning
  <2> QED
    BY <1>6, <2>1
<1>9. ASSUME NEW p \in Pids, Reap(p)
      PROVE  Foresees(table', ring', parent', OursRunning', can)
  <2>1. /\ OursRunning \subseteq OursRunning' /\ ring' = ring /\ table' = table
        /\ \A q \in Pids : q # p => parent'[q] \in {parent[q], NoPid}
    BY <1>2, <1>9 DEF Reap, tracker, OursRunning
  <2>2. \A j \in 1 .. Len(ring) : ~ ring[j].ready => ring[j].pid # p
    BY <1>2, <1>9 DEF Reap, InProbe
  <2>3. \A j \in 1 .. Len(ring) : \/ ParentIn(ring'[j], parent') = ParentIn(ring[j], parent)
                                  \/ ParentIn(ring'[j], parent') = NoPid
    BY <1>4, <2>1, <2>2 DEF ParentIn
  <2> QED
    BY <1>6, <2>1, <2>3
<1>10. ASSUME NEW i \in 1 .. RingSize, Submit(i)
       PROVE  Foresees(table', ring', parent', OursRunning', can)
  <2>1. /\ OursRunning' = OursRunning /\ parent' = parent
    BY <1>10 DEF Submit, kernel, OursRunning
  <2>2. \A j \in 1 .. Len(ring) : ParentIn(ring'[j], parent) = ParentIn(ring[j], parent)
    <3>1. /\ ring[i] \in Records /\ ~ ring[i].ready
          /\ ring'[i] = [ring[i] EXCEPT !.ready = TRUE, !.ppid = parent[ring[i].pid]]
          /\ \A j \in 1 .. Len(ring) : j # i => ring'[j] = ring[j]
      BY <1>1, <1>10, SubmitEffect
    <3>2. ring'[i].ready /\ ring'[i].ppid = parent[ring[i].pid]
      BY <3>1 DEF Records
    <3> QED
      BY <3>1, <3>2 DEF ParentIn
  <2> QED
    BY <1>1, <1>6, <1>10, <2>1, <2>2, RingKept
<1>11. CASE UNCHANGED vars
  BY <1>11 DEF vars, kernel, tracker, OursRunning
<1>12. ASSUME NEW p \in Pids, NEW r \in Records, r.pid = p, Reserve(r), table' = table, parent' = parent,
              \A q \in OursRunning : q \in OursRunning' \/ (q = p /\ r.type = "EXIT"),
              After(r, parent, OursRunning) \subseteq OursRunning',
              Len(ring) = RingSize => OursRunning \subseteq OursRunning'
       PROVE  \E more \in [1 .. RingSize + 1 -> SUBSET Pids] :
                Foresees(table', ring', parent', OursRunning', more)
  <2>1. CASE ring' = ring /\ Len(ring) = RingSize
    BY <1>6, <1>12, <2>1
  <2>2. CASE Len(ring) < RingSize /\ Len(ring') = Len(ring) + 1 /\ ring'[Len(ring) + 1] = r
    <3>1. \A j \in 1 .. Len(ring) : ring'[j] = ring[j]
      BY <1>1, <1>12, ReserveEffect
    <3> QED
      BY <1>2, <1>3, <1>12, <2>2, <3>1, ForeseesReserved
  <2> QED
    BY <1>1, <1>12, <2>1, <2>2, ReserveEffect
<1>13. ASSUME NEW p \in Pids, NEW m \in BOOLEAN, Exec(p, m)
       PROVE  \E more \in [1 .. RingSize + 1 -> SUBSET Pids] :
                Foresees(table', ring', parent', OursRunning', more)
  <2>1. PICK r \in Records :
          /\ r.type = "EXEC" /\ r.pid = p /\ ~ r.ready /\ r.named = m /\ Reserve(r)
    BY <1>1, <1>13, ExecReserves
  <2>2. table' = table /\ parent' = parent /\ OursRunning \subseteq OursRunning'
    BY <1>2, <1>3, <1>13 DEF Exec, tracker, OursRunning
  <2>3. m \/ p = Target \/ parent[p] \in OursRunning => p \in OursRunning'
    BY <1>2, <1>13 DEF Exec, SelfSelected, OursRunning
  <2>4. After(r, parent, OursRunning) \subseteq OursRunning'
    BY <2>1, <2>2, <2>3 DEF After, ParentIn
  <2> QED
    BY <1>12, <2>1, <2>2, <2>4
<1>14. ASSUME NEW p \in Pids, NEW others \in BOOLEAN, NEW long \in BOOLEAN, Exit(p, others, long)
       PROVE  \E more \in [1 .. RingSize + 1 -> SUBSET Pids] :
                Foresees(table', ring', parent', OursRunning', more)
  <2>1. PICK r \in Records :
          /\ r.type = "EXIT" /\ r.pid = p /\ Reserve(r)
          /\ unseen' = IF Len(ring) < RingSize THEN unseen ELSE unseen \cup {p}
    BY <1>1, <1>14, ExitReserves
  <2>2. /\ table' = table /\ parent' = parent
        /\ \A q \in OursRunning : q \in OursRunning' \/ q = p
    BY <1>2, <1>3, <1>14 DEF Exit, tracker, OursRunning
  <2>3. ~ (Len(ring) = RingSize)
    <3>1. Len(ring) < RingSize \/ unseen' = unseen \cup {p}
      BY <2>1
    <3>2. unseen' = {}
      BY <1>1
    <3>3. Len(ring) < RingSize
      BY <3>1, <3>2
    <3> QED
      BY <1>2, <3>3, ProcessTracerAssumption
  <2>4. After(r, parent, OursRunning) \subseteq OursRunning'
    BY <2>1, <2>2 DEF After
  <2> QED
    BY <1>12, <2>1, <2>2, <2>3, <2>4
<1>15. ASSUME NEW p \in Pids, Open(p)
       PROVE  \E more \in [1 .. RingSize + 1 -> SUBSET Pids] :
                Foresees(table', ring', parent', OursRunning', more)
  <2>1. PICK r \in Records : r.type = "OPEN" /\ r.pid = p /\ (ring' = ring \/ Reserve(r))
    BY <1>1, <1>15, OpenReserves
  <2>2. table' = table /\ parent' = parent /\ OursRunning' = OursRunning
    BY <1>15 DEF Open, tracker, OursRunning
  <2>3. After(r, parent, OursRunning) \subseteq OursRunning
    BY <2>1 DEF After
  <2>4. CASE ring' = ring
    BY <1>6, <2>2, <2>4
  <2> QED
    BY <1>12, <2>1, <2>2, <2>3, <2>4
<1>16. CASE Poll
  <2> DEFINE r == ring[1]
  <2>1. /\ Len(ring) >= 1 /\ Len(ring') = Len(ring) - 1 /\ r \in Records /\ Head(ring) = r /\ r.ready
        /\ \A j \in 1 .. Len(ring') : ring'[j] = ring[j + 1]
    BY <1>1, <1>16, PollEffect DEF Poll
  <2>2. parent' = parent /\ OursRunning' = OursRunning
    BY <1>16 DEF Poll, kernel, OursRunning
  <2>3. Tracked(r.ppid) => r.ppid \in TrackedIn(table)
    <3>1. r.ppid \in Pids \cup {NoPid}
      BY <2>1 DEF Records
    <3>2. ~ Find(table, NoPid)
      <4> SUFFICES ASSUME NEW k \in Slots, table[Probe(NoPid, k)] = NoPid
                   PROVE  FALSE
        BY DEF Find, FoundAt
      <4>1. NoPid \in Nat /\ NoPid # Free /\ k \in Nat
        BY PidTableAssumption, ProcessTracerAssumption DEF Slots
      <4>2. Probe(NoPid, k) \in Slots
        BY <4>1, PidTableAssumption DEF Probe, Slots
      <4> QED
        <5>1. table \in [Slots -> Pids \cup {Free}] /\ NoPid \notin Pids
          BY <1>1, <1>5, ProcessTracerAssumption DEF TypeOK, Tables
        <5> QED
          BY <4>1, <4>2, <5>1
    <3> QED
      BY <3>1, <3>2 DEF Tracked, TrackedIn
  <2>4. \A p \in TrackedIn(table') :
          /\ p \in TrackedIn(table) \/ (r.type = "EXEC" /\ r.pid = p /\ ShouldTrack(r))
          /\ r.type = "EXIT" => r.pid # p
    BY <1>1, <1>16, <2>1, HandledTable DEF Poll
  <2>5. ShouldTrack(r) => r.named \/ r.pid = Target \/ ParentIn(r, parent) \in TrackedIn(table)
    BY <1>1, <2>1, <2>3 DEF ShouldTrack, ParentIn
  <2>6. TrackedIn(table') \subseteq After(r, parent, TrackedIn(table))
    BY <2>4, <2>5 DEF After, TrackedIn
  <2> QED
    BY <1>2, <1>3, <2>1, <2>2, <2>6, ForeseesHandled
<1>17. ASSUME NEW p \in Pids, NEW m \in BOOLEAN, ExecOutside(p, m)
       PROVE  Foresees(table', ring', parent', OursRunning', can)
  <2>1. /\ OursRunning \subseteq OursRunning' /\ ring' = ring /\ table' = table /\ parent' = parent
    BY <1>2, <1>3, <1>17 DEF ExecOutside, tracker, OursRunning
  <2> QED
    BY <1>6, <2>1
<1>18. ASSUME NEW p \in Pids, NEW others \in BOOLEAN, ExitOutside(p, others)
       PROVE  FALSE
  BY <1>1, <1>18 DEF ExitOutside
<1> QED
  BY <1>7, <1>8, <1>9, <1>10, <1>11, <1>13, <1>14, <1>15, <1>16, <1>17, <1>18 DEF Next

LEMMA StaleInit == Init => ProbesHold /\ ExitsFollow /\ SessionIsOurs /\ OthersAreNot
<1> SUFFICES ASSUME Init
             PROVE  ProbesHold /\ ExitsFollow /\ SessionIsOurs /\ OthersAreNot
  OBVIOUS
<1>1. TrackedIn(table) \subseteq Seeds /\ Seeds \subseteq Pids /\ Alive0 \subseteq Pids
  BY SeedsAreFound, ProcessTracerAssumption DEF Init, SeededTables
<1>2. Len(ring) = 0 /\ ring = << >>
  BY DEF Init
<1>3. Seeds \subseteq RunOrUnseen
  BY <1>1 DEF Init, RunOrUnseen
<1>4. unseen = {} => Seeds \subseteq OursRunning
  BY <1>1 DEF Init, OursRunning
<1>5. ProbesHold
  BY <1>2 DEF ProbesHold
<1>6. ExitsFollow
  BY <1>1, <1>2, <1>3 DEF ExitsFollow, Follows
<1>7. SessionIsOurs
  BY <1>1, <1>2, <1>4 DEF SessionIsOurs, Settled, Follows
<1>8. OthersAreNot
  <2> SUFFICES ASSUME Settled
               PROVE  \E can \in [1 .. RingSize + 1 -> SUBSET Pids] :
                        Foresees(table, ring, parent, OursRunning, can)
    BY DEF OthersAreNot
  <2> DEFINE can == [i \in 1 .. RingSize + 1 |-> Seeds]
  <2>1. can \in [1 .. RingSize + 1 -> SUBSET Pids] /\ can[1] = Seeds
    BY <1>1, ProcessTracerAssumption
  <2>2. Foresees(table, ring, parent, OursRunning, can)
    <3> HIDE DEF can
    <3>1. \A i \in 1 .. Len(ring) + 1 : i = 1
      BY <1>2
    <3> QED
      BY <1>1, <1>2, <1>4, <2>1, <3>1 DEF Foresees, Settled
  <2> QED
    BY <2>1, <2>2
<1> QED
  BY <1>5, <1>6, <1>7, <1>8

\* A released PID that is used again inherits no tracking, neither its own nor its
\* parent's, for every size of the table and the ring and every interleaving of
\* forks, execs, exits, the two halves of the probes, and the handler.
THEOREM NothingIsStale == Spec => []NoStaleTracking
<1>1. /\ Tidy /\ ProbesHold /\ ExitsFollow /\ SessionIsOurs /\ OthersAreNot
      => NoStaleTracking
  <2> SUFFICES ASSUME Tidy, ExitsFollow, SessionIsOurs, OthersAreNot,
                      NoCollisions, ~ MinDuration, NEW p \in TrackedIn(table)
               PROVE  /\ st[p] = "run" \/ ExitPending(p) \/ p \in unseen
                      /\ (Mode = "filter" /\ unseen = {}) => p \in ours \/ ExitPending(p)
    BY DEF NoStaleTracking
  <2>1. ExitFrom(ring, p, 1) => ExitPending(p)
    <3>1. DOMAIN ring = 1 .. Len(ring)
      BY DEF Tidy, TypeOK
    <3> QED
      BY <3>1 DEF ExitFrom, ExitPending
  <2>2. st[p] = "run" \/ ExitPending(p) \/ p \in unseen
    BY <2>1 DEF ExitsFollow, Follows, RunOrUnseen
  <2>3. ASSUME Settled
        PROVE  p \in ours \/ ExitPending(p)
    <3>1. CASE SessionOn
      BY <2>1, <2>3, <3>1 DEF SessionIsOurs, Follows, OursRunning
    <3>2. CASE ~ SessionOn
      <4>1. PICK can : Foresees(table, ring, parent, OursRunning, can)
        BY <2>3, <3>2 DEF OthersAreNot
      <4>2. 1 \in 1 .. Len(ring) + 1
        BY DEF Tidy, TypeOK
      <4> QED
        BY <2>1, <4>1, <4>2 DEF Foresees, OursRunning
    <3> QED
      BY <3>1, <3>2
  <2> QED
    BY <2>2, <2>3 DEF Settled
<1>2. Init => Tidy /\ ProbesHold /\ ExitsFollow /\ SessionIsOurs /\ OthersAreNot
  BY TidyInit, StaleInit
<1>3. /\ Tidy /\ ProbesHold /\ ExitsFollow /\ SessionIsOurs /\ OthersAreNot
      /\ TypeOK' /\ [Next]_vars
      => (Tidy /\ ProbesHold /\ ExitsFollow /\ SessionIsOurs /\ OthersAreNot)'
  <2>1. Tidy => TypeOK
    BY DEF Tidy
  <2> QED
    BY <2>1, TidyNext, ProbesHoldNext, ExitsFollowNext, SessionNext, OthersNext
<1> QED
  BY <1>1, <1>2, <1>3, TypeCorrect, PTL DEF Spec

=============================================================================
