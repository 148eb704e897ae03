-------------------------- MODULE PidTrackerProofs --------------------------
(***************************************************************************)
(* What holds of the PID tracker for every table size and every set of     *)
(* PIDs.                                                                   *)
(***************************************************************************)
EXTENDS PidTracker, PidTableProofs, FiniteSetTheorems

-----------------------------------------------------------------------------
\* The table and the calls as lemmas about Tables see them.
LEMMA Typed ==
  ASSUME TypeOK
  PROVE  table \in Tables /\ inPlay \subseteq Pids
  BY DEF TypeOK, Tables

\* The table keeps its shape: every slot is inactive or holds a PID in play.
THEOREM TypeCorrect == Spec => []TypeOK
<1>1. Init => TypeOK
  BY DEF Init, TypeOK, EmptyTable
<1>2. TypeOK /\ [Next]_vars => TypeOK'
  <2> SUFFICES ASSUME TypeOK, [Next]_vars
               PROVE  TypeOK'
    OBVIOUS
  <2>1. ASSUME NEW p \in inPlay, AddPid(p)
        PROVE  TypeOK'
    <3>1. p \in Pids
      BY Typed
    <3>2. Add(table, p) \in [Slots -> inPlay \cup {Free}]
      BY <3>1, Typed, AddEffect DEF TypeOK
    <3> QED
      BY <2>1, <3>2 DEF AddPid, TypeOK
  <2>2. ASSUME NEW p \in inPlay, RemovePid(p)
        PROVE  TypeOK'
    <3>1. p \in Pids
      BY Typed
    <3>2. Remove(table, p) \in [Slots -> inPlay \cup {Free}]
      BY <3>1, Typed, RemoveEffect DEF TypeOK
    <3> QED
      BY <2>2, <3>2 DEF RemovePid, TypeOK
  <2>3. CASE UNCHANGED vars
    BY <2>3 DEF vars, TypeOK
  <2> QED
    BY <2>1, <2>2, <2>3 DEF Next
<1> QED
  BY <1>1, <1>2, PTL DEF Spec

\* A PID that was just removed is not found, at every table size and with any
\* collisions: a duplicate entry may survive, but behind the slot cleared.
THEOREM RemovedIsGone == Spec => RemovedIsNotFound
<1>1. TypeOK /\ [Next]_vars
        => [\A p \in inPlay : RemovePid(p) => p \notin TrackedIn(table')]_vars
  BY RemovedIsUnreachable, Typed DEF RemovePid, TrackedIn
<1> QED
  BY <1>1, TypeCorrect, PTL DEF Spec, RemovedIsNotFound

-----------------------------------------------------------------------------
\* A promised PID keeps an active entry until its own removal, whatever
\* collides with it and however full the table is: pid_tracker_add never
\* overwrites an active entry and pid_tracker_remove clears only its own.
THEOREM PromisesAreStored == Spec => []PromisedStored
<1>1. Init => PromisedStored
  BY DEF Init, PromisedStored
<1>2. TypeOK /\ PromisedStored /\ [Next]_vars => PromisedStored'
  <2> SUFFICES ASSUME TypeOK, PromisedStored, [Next]_vars
               PROVE  PromisedStored'
    OBVIOUS
  <2>1. ASSUME NEW p \in inPlay, AddPid(p)
        PROVE  PromisedStored'
    <3> SUFFICES ASSUME NEW q \in promised'
                 PROVE  q \in Pids /\ \E s \in Slots : table'[s] = q
      BY DEF PromisedStored, StoredIn
    <3>1. CASE q \in promised
      <4>1. PICK s \in Slots : table[s] = q
        BY <3>1 DEF PromisedStored, StoredIn
      <4>2. q \in Pids /\ q # Free
        BY <3>1, Typed, PidTableAssumption DEF TypeOK
      <4> QED
        BY <2>1, <3>1, <4>1, <4>2, AddStores, Typed DEF AddPid
    <3>2. CASE q \notin promised
      BY <2>1, <3>2, AddStores, Typed DEF AddPid
    <3> QED
      BY <3>1, <3>2
  <2>2. ASSUME NEW p \in inPlay, RemovePid(p)
        PROVE  PromisedStored'
    <3> SUFFICES ASSUME NEW q \in promised'
                 PROVE  q \in Pids /\ \E s \in Slots : table'[s] = q
      BY DEF PromisedStored, StoredIn
    <3>1. q \in promised /\ q # p
      BY <2>2 DEF RemovePid
    <3>2. PICK s \in Slots : table[s] = q
      BY <3>1 DEF PromisedStored, StoredIn
    <3>3. table'[s] = q
      BY <2>2, <3>1, <3>2, RemoveClears, Typed DEF RemovePid
    <3> QED
      BY <3>1, <3>3 DEF TypeOK
  <2>3. CASE UNCHANGED vars
    BY <2>3 DEF vars, PromisedStored, StoredIn
  <2> QED
    BY <2>1, <2>2, <2>3 DEF Next
<1> QED
  BY <1>1, <1>2, TypeCorrect, PTL DEF Spec

-----------------------------------------------------------------------------
\* Before the first removal no PID has two entries, and whatever is stored
\* is found, since nothing has emptied a slot that a probe passed over.
Gapless ==
  /\ \A r, s \in Slots : table[r] = table[s] /\ table[r] # Free => r = s
  /\ StoredIn(table) \subseteq TrackedIn(table)

\* The inductive invariant: each of the two reasons why the table is reliable
\* has its own shape of the table.
ReliableInv ==
  /\ TypeOK
  /\ Exact
  /\ NoCollisions => AtHome(table)
  /\ ~removed => Gapless

\* An add to a table without gaps leaves none, and adds its PID alone.
LEMMA GaplessAdd ==
  ASSUME TypeOK, Gapless, NEW p \in inPlay, AddPid(p)
  PROVE  /\ Gapless'
         /\ TrackedIn(table') = IF AddSucceeds(table, p) THEN TrackedIn(table) \cup {p}
                                ELSE TrackedIn(table)
<1>1. table \in Tables /\ p \in Pids /\ table' = Add(table, p)
  BY Typed DEF AddPid
<1>2. CASE table' = table /\ (AddSucceeds(table, p) => Find(table, p))
  BY <1>1, <1>2 DEF Gapless, StoredIn, TrackedIn, Find, FoundAt
<1>3. CASE \E i \in Slots : /\ ~ Find(table, p)
                            /\ AddSucceeds(table, p)
                            /\ FreeAt(table, p, i)
                            /\ Probe(p, i) \in Slots
                            /\ table' = [table EXCEPT ![Probe(p, i)] = p]
  <2>1. PICK i \in Slots : /\ ~ Find(table, p)
                           /\ AddSucceeds(table, p)
                           /\ FreeAt(table, p, i)
                           /\ Probe(p, i) \in Slots
                           /\ table' = [table EXCEPT ![Probe(p, i)] = p]
    BY <1>3
  <2>2. /\ \A s \in Slots : table[s] # p
        /\ table[Probe(p, i)] = Free
    BY <1>1, <2>1 DEF Gapless, StoredIn, TrackedIn, FreeAt
  <2>3. \A r, s \in Slots : table'[r] = table'[s] /\ table'[r] # Free => r = s
    BY <1>1, <2>1, <2>2 DEF Gapless, Tables
  <2>4. TrackedIn(table) \cup {p} \subseteq TrackedIn(table')
    <3>1. \A q \in Pids : Find(table, q) => Find(Add(table, p), q)
      BY <1>1, AddKeepsFound
    <3>2. Find(Add(table, p), p)
      BY <1>1, <2>1, AddMakesFound
    <3> QED
      BY <1>1, <3>1, <3>2 DEF TrackedIn
  <2>5. StoredIn(table') \subseteq StoredIn(table) \cup {p}
    BY <1>1, <2>1 DEF StoredIn, Tables
  <2>6. TrackedIn(table') \subseteq StoredIn(table')
    BY <1>1, <2>1, FoundIsStored DEF Tables
  <2> QED
    BY <2>1, <2>3, <2>4, <2>5, <2>6 DEF Gapless
<1> QED
  BY <1>1, <1>2, <1>3, AddEffect

-----------------------------------------------------------------------------
LEMMA ReliableInit == Init => ReliableInv
<1> SUFFICES ASSUME Init
             PROVE  ReliableInv
  OBVIOUS
<1>1. TypeOK /\ AtHome(table)
  BY DEF Init, TypeOK, AtHome, EmptyTable
<1>2. StoredIn(table) = {}
  BY PidTableAssumption DEF Init, EmptyTable, StoredIn
<1>3. TrackedIn(table) = {}
  BY <1>1, <1>2, Typed, FoundIsStored
<1>4. Gapless
  BY <1>2 DEF Init, EmptyTable, Gapless
<1> QED
  BY <1>1, <1>3, <1>4 DEF ReliableInv, Exact, Init

LEMMA ReliableAdd ==
  ASSUME ReliableInv, TypeOK', NEW p \in inPlay, AddPid(p)
  PROVE  ReliableInv'
<1>1. /\ table' = Add(table, p) /\ removed' = removed /\ inPlay' = inPlay
      /\ promised' = IF AddSucceeds(table, p) THEN promised \cup {p} ELSE promised
  BY DEF AddPid
<1>2. NoCollisions' = NoCollisions /\ (Reliable' => Reliable)
  BY <1>1 DEF NoCollisions, Reliable
<1>3. CASE NoCollisions
  <2>1. AtHome(table') /\ TrackedIn(table') = promised'
    BY <1>1, <1>3, HomeAdd DEF ReliableInv, TypeOK, NoCollisions, Exact, Reliable
  <2>2. ~removed' => Gapless'
    BY <1>1, GaplessAdd DEF ReliableInv
  <2> QED
    BY <2>1, <2>2 DEF ReliableInv, Exact
<1>4. CASE ~NoCollisions
  <2>1. ~removed' => Gapless' /\ TrackedIn(table') = promised'
    BY <1>1, GaplessAdd DEF ReliableInv, Exact, Reliable
  <2> QED
    BY <1>2, <1>4, <2>1 DEF ReliableInv, Exact, Reliable
<1> QED
  BY <1>3, <1>4

LEMMA ReliableRemove ==
  ASSUME ReliableInv, TypeOK', NEW p \in inPlay, RemovePid(p)
  PROVE  ReliableInv'
<1>1. /\ table' = Remove(table, p) /\ removed' = TRUE /\ inPlay' = inPlay
      /\ promised' = promised \ {p}
  BY DEF RemovePid
<1>2. NoCollisions' = NoCollisions
  BY <1>1 DEF NoCollisions
<1>3. CASE NoCollisions
  <2>1. AtHome(table') /\ TrackedIn(table') = promised'
    BY <1>1, <1>3, HomeRemove DEF ReliableInv, TypeOK, NoCollisions, Exact, Reliable
  <2> QED
    BY <1>1, <2>1 DEF ReliableInv, Exact
<1>4. CASE ~NoCollisions
  BY <1>1, <1>2, <1>4 DEF ReliableInv, Exact, Reliable
<1> QED
  BY <1>3, <1>4

LEMMA ReliableNext == ReliableInv /\ TypeOK' /\ [Next]_vars => ReliableInv'
<1> SUFFICES ASSUME ReliableInv, TypeOK', [Next]_vars
             PROVE  ReliableInv'
  OBVIOUS
<1>1. CASE UNCHANGED vars
  BY <1>1 DEF vars, ReliableInv, AtHome, Gapless, Exact, Reliable, NoCollisions,
              TrackedIn, StoredIn, Find, FoundAt
<1> QED
  BY <1>1, ReliableAdd, ReliableRemove DEF Next

\* Without collisions, and with them until the first removal, the tracker
\* answers for exactly the PIDs added and not removed since.
THEOREM ExactWhileReliable == Spec => []Exact
<1>1. ReliableInv => Exact
  BY DEF ReliableInv
<1> QED
  BY <1>1, ReliableInit, ReliableNext, TypeCorrect, PTL DEF Spec

-----------------------------------------------------------------------------
\* A table that is full and in which no PID has two entries and none is hidden
\* answers for as many PIDs as it has slots.
LEMMA FullMeansSize ==
  ASSUME TypeOK, Gapless, \A s \in Slots : table[s] # Free
  PROVE  Cardinality(TrackedIn(table)) = Size
<1> DEFINE T == TrackedIn(table)
<1>1. table \in Tables
  BY Typed
<1>2. T = {table[s] : s \in Slots}
  <2>1. T = StoredIn(table)
    BY <1>1, FoundIsStored DEF Gapless
  <2>2. StoredIn(table) = {table[s] : s \in Slots}
    BY <1>1 DEF StoredIn, Tables
  <2> QED
    BY <2>1, <2>2
<1>3. table \in Bijection(Slots, T)
  <2>1. table \in Injection(Slots, T)
    BY <1>1, <1>2 DEF Gapless, Injection, IsInjective, Tables
  <2>2. table \in Surjection(Slots, T)
    BY <1>1, <1>2 DEF Surjection, Tables
  <2> QED
    BY <2>1, <2>2 DEF Bijection
<1>4. IsFiniteSet(Slots) /\ Cardinality(Slots) = Size
  <2>1. 0 \in Int /\ Size - 1 \in Int /\ ~ (0 > Size - 1) /\ (Size - 1) - 0 + 1 = Size
    BY PidTableAssumption
  <2> QED
    BY <2>1, FS_Interval DEF Slots
<1> QED
  BY <1>3, <1>4, FS_Bijection DEF ExistsBijection

LEMMA AddImplementsAdd ==
  ASSUME ReliableInv, ReliableInv', NEW p \in inPlay, AddPid(p)
  PROVE  Abstract!SetAdd(p) /\ Reliable' \in {Reliable, FALSE}
<1>1. /\ TypeOK /\ table \in Tables /\ p \in Pids
      /\ table' = Add(table, p) /\ removed' = removed /\ inPlay' = inPlay
  BY Typed DEF AddPid, ReliableInv
<1>2. Reliable' = Reliable
  BY <1>1 DEF Reliable, NoCollisions
<1>3. CASE AddSucceeds(table, p)
  <2>1. answer' = "added" /\ promised' = promised \cup {p}
    BY <1>3 DEF AddPid
  <2>2. TrackedIn(table) \cup {p} \subseteq TrackedIn(table')
    BY <1>1, <1>3, AddKeepsFound, AddMakesFound DEF TrackedIn
  <2>3. Reliable' => TrackedIn(table') = TrackedIn(table) \cup {p}
    BY <1>2, <2>1 DEF ReliableInv, Exact
  <2> QED
    BY <1>2, <2>1, <2>2, <2>3 DEF Abstract!SetAdd
<1>4. CASE ~ AddSucceeds(table, p)
  <2>1. answer' = "refused" /\ table' = table /\ p \notin TrackedIn(table)
    BY <1>1, <1>4 DEF AddPid, Add, AddSucceeds, TrackedIn
  <2>2. ~NoCollisions
    BY <1>1, <1>4, HomeAdd DEF ReliableInv, TypeOK, NoCollisions
  <2>3. \A s \in Slots : table[s] # Free
    BY <1>1, <1>4, RefusedMeansFull
  <2>4. Reliable' => Cardinality(TrackedIn(table)) >= Size
    <3> SUFFICES ASSUME Reliable'
                 PROVE  Cardinality(TrackedIn(table)) >= Size
      OBVIOUS
    <3>1. Gapless
      BY <1>2, <2>2 DEF ReliableInv, Reliable
    <3>2. Cardinality(TrackedIn(table)) = Size
      BY <1>1, <2>3, <3>1, FullMeansSize
    <3> QED
      BY <3>2, PidTableAssumption
  <2>5. TrackedIn(table') = TrackedIn(table)
    BY <2>1
  <2>6. Abstract!Cardinality(TrackedIn(table)) = Cardinality(TrackedIn(table))
    BY Zenon DEF Cardinality, Abstract!Cardinality
  <2> QED
    BY <1>2, <2>1, <2>4, <2>5, <2>6 DEF Abstract!SetAdd
<1> QED
  BY <1>3, <1>4

LEMMA RemoveImplementsRemove ==
  ASSUME ReliableInv, ReliableInv', NEW p \in inPlay, RemovePid(p)
  PROVE  Abstract!SetRemove(p) /\ Reliable' \in {Reliable, FALSE}
<1>1. /\ TypeOK /\ table \in Tables /\ p \in Pids
      /\ table' = Remove(table, p) /\ removed' = TRUE /\ inPlay' = inPlay
      /\ answer' = "removed" /\ promised' = promised \ {p}
  BY Typed DEF RemovePid, ReliableInv
<1>2. Reliable' \in {Reliable, FALSE} /\ (Reliable' => Reliable)
  BY <1>1 DEF Reliable, NoCollisions
<1>3. TrackedIn(table') \subseteq TrackedIn(table) \ {p}
  BY <1>1, RemoveRevealsNothing DEF TrackedIn
<1>4. Reliable' => TrackedIn(table') = TrackedIn(table) \ {p}
  BY <1>1, <1>2 DEF ReliableInv, Exact
<1> QED
  BY <1>1, <1>2, <1>3, <1>4 DEF Abstract!SetRemove

\* The table implements what the tracker promises, at every size, with any
\* PIDs: every call on the table is the same call on the set, exactly so
\* while the table is reliable.
THEOREM TableImplementsSet == Spec => ImplementsSet
<1>1. Init => Abstract!SetInit
  <2> SUFFICES ASSUME Init
               PROVE  Abstract!SetInit
    OBVIOUS
  <2>1. Reliable = TRUE
    BY DEF Init, Reliable
  <2>2. TrackedIn(table) = {}
    BY <2>1, ReliableInit DEF ReliableInv, Exact, Init
  <2> QED
    BY <2>1, <2>2 DEF Init, Abstract!SetInit
<1>2. ReliableInv /\ ReliableInv' /\ [Next]_vars => [Abstract!SetNext]_(Abstract!setVars)
  <2> SUFFICES ASSUME ReliableInv, ReliableInv', [Next]_vars
               PROVE  [Abstract!SetNext]_(Abstract!setVars)
    OBVIOUS
  <2>1. inPlay \subseteq Pids
    BY Typed DEF ReliableInv
  <2>2. ASSUME NEW p \in inPlay, AddPid(p)
        PROVE  Abstract!SetNext
    BY <2>1, <2>2, AddImplementsAdd DEF Abstract!SetNext
  <2>3. ASSUME NEW p \in inPlay, RemovePid(p)
        PROVE  Abstract!SetNext
    BY <2>1, <2>3, RemoveImplementsRemove DEF Abstract!SetNext
  <2>4. CASE UNCHANGED vars
    BY <2>4 DEF vars, Abstract!setVars, TrackedIn, Find, FoundAt, Reliable, NoCollisions
  <2> QED
    BY <2>2, <2>3, <2>4 DEF Next
<1> QED
  BY <1>1, <1>2, ReliableInit, ReliableNext, TypeCorrect, PTL
     DEF Spec, ImplementsSet, Abstract!SetSpec

=============================================================================
