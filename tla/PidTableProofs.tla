--------------------------- MODULE PidTableProofs ---------------------------
(***************************************************************************)
(* Lemmas about the calls on the PID table: what an add and a removal do   *)
(* to what is stored and what is found, for every size and set of PIDs.    *)
(***************************************************************************)
EXTENDS PidTable, WellFoundedInduction, TLAPS

\* A probe stays inside the table: the mask of pid_hash.
LEMMA ProbeInSlots ==
  ASSUME NEW p \in Pids, NEW i \in Nat
  PROVE  Probe(p, i) \in Slots
  BY PidTableAssumption DEF Probe, Slots

\* An add leaves the table as it was, or turns one inactive slot of the
\* PID's probe into the PID's entry.
LEMMA AddEffect ==
  ASSUME NEW t \in Tables, NEW p \in Pids
  PROVE  \/ Add(t, p) = t /\ (AddSucceeds(t, p) => Find(t, p))
         \/ /\ ~ Find(t, p)
            /\ AddSucceeds(t, p)
            /\ \E i \in Slots : /\ FreeAt(t, p, i)
                                /\ Probe(p, i) \in Slots
                                /\ Add(t, p) = [t EXCEPT ![Probe(p, i)] = p]
<1>1. CASE ~ Find(t, p) /\ \E i \in Slots : FreeAt(t, p, i)
  <2> DEFINE k == CHOOSE j \in Slots : FreeAt(t, p, j)
  <2>1. k \in Slots /\ FreeAt(t, p, k)
    BY <1>1
  <2>2. Probe(p, k) \in Slots
    BY <2>1, ProbeInSlots, PidTableAssumption DEF Slots
  <2>3. Add(t, p) = [t EXCEPT ![Probe(p, k)] = p]
    BY <1>1 DEF Add
  <2> QED
    BY <1>1, <2>1, <2>2, <2>3 DEF AddSucceeds
<1>2. CASE ~ (~ Find(t, p) /\ \E i \in Slots : FreeAt(t, p, i))
  <2>1. Add(t, p) = t
    BY <1>2 DEF Add
  <2> QED
    BY <1>2, <2>1 DEF AddSucceeds
<1> QED
  BY <1>1, <1>2

\* A removal leaves the table as it was, or clears one slot holding the PID.
LEMMA RemoveEffect ==
  ASSUME NEW t \in Tables, NEW p \in Pids
  PROVE  \/ Remove(t, p) = t /\ ~ Find(t, p)
         \/ \E i \in Slots : /\ FoundAt(t, p, i)
                             /\ Probe(p, i) \in Slots
                             /\ Remove(t, p) = [t EXCEPT ![Probe(p, i)] = Free]
<1>1. CASE Find(t, p)
  <2> DEFINE k == CHOOSE j \in Slots : FoundAt(t, p, j)
  <2>1. k \in Slots /\ FoundAt(t, p, k)
    BY <1>1 DEF Find
  <2>2. Probe(p, k) \in Slots
    BY <2>1, ProbeInSlots, PidTableAssumption DEF Slots
  <2>3. Remove(t, p) = [t EXCEPT ![Probe(p, k)] = Free]
    BY <1>1 DEF Remove
  <2> QED
    BY <2>1, <2>2, <2>3
<1>2. CASE ~ Find(t, p)
  BY <1>2 DEF Remove
<1> QED
  BY <1>1, <1>2

\* Every set of probe steps has a first one.
LEMMA LeastExists ==
  ASSUME NEW S \in SUBSET Nat, S # {}
  PROVE  \E i \in S : \A j \in S : ~ (j < i)
<1>1. IsWellFoundedOn(OpToRel(<, Nat), Nat)
  BY NatLessThanWellFounded
<1>2. PICK i \in S : \A j \in S : ~ (<<j, i>> \in OpToRel(<, Nat))
  BY <1>1, WFMin
<1> QED
  BY <1>2 DEF OpToRel

\* The remainder of a sum whose first part is a multiple.
LEMMA ModOfSum ==
  ASSUME NEW k \in Nat \ {0}, NEW a \in Nat, NEW b \in 0 .. (k - 1)
  PROVE  (a * k + b) % k = b
  BY SMTT(20)

\* A probe of Size steps visits every slot.
LEMMA ProbeCovers ==
  ASSUME NEW p \in Pids, NEW s \in Slots
  PROVE  \E i \in Slots : Probe(p, i) = s
<1> DEFINE r == p % Size
           d == p \div Size
           i == IF r <= s THEN s - r ELSE s - r + Size
           a == IF r <= s THEN d ELSE d + 1
<1>1. Size \in Nat \ {0} /\ p \in Nat /\ s \in 0 .. (Size - 1)
  BY PidTableAssumption DEF Slots
<1>2. r \in 0 .. (Size - 1) /\ d \in Nat /\ p = d * Size + r
  BY <1>1, SMTT(20)
<1>3. i \in Slots /\ a \in Nat
  BY <1>1, <1>2 DEF Slots
<1>4. p + i = a * Size + s
  <2> HIDE DEF r, d
  <2>1. (d + 1) * Size = d * Size + Size
    BY <1>1, <1>2, SMTT(20)
  <2> QED
    BY <1>1, <1>2, <2>1
<1>5. (a * Size + s) % Size = s
  <2> HIDE DEF a
  <2> QED
    BY <1>1, <1>3, ModOfSum
<1> QED
  BY <1>3, <1>4, <1>5 DEF Probe

\* What is left of a PID after its removal is out of its probe's reach: the
\* slot cleared ends the probe, and the slots before it hold other PIDs.
LEMMA RemovedIsUnreachable ==
  ASSUME NEW t \in Tables, NEW p \in Pids
  PROVE  ~ Find(Remove(t, p), p)
<1>1. CASE Remove(t, p) = t /\ ~ Find(t, p)
  BY <1>1
<1>2. ASSUME NEW i \in Slots, FoundAt(t, p, i), Probe(p, i) \in Slots,
             Remove(t, p) = [t EXCEPT ![Probe(p, i)] = Free]
      PROVE  ~ Find(Remove(t, p), p)
  <2> SUFFICES ASSUME NEW k \in Slots, FoundAt(Remove(t, p), p, k)
               PROVE  FALSE
    BY DEF Find
  <2>1. Probe(p, k) \in Slots
    BY ProbeInSlots, PidTableAssumption DEF Slots
  <2>2. Remove(t, p)[Probe(p, i)] = Free
    BY <1>2 DEF Tables
  <2>3. Remove(t, p)[Probe(p, k)] = p /\ p # Free
    BY PidTableAssumption DEF FoundAt
  <2>4. t[Probe(p, k)] = p
    BY <1>2, <2>1, <2>2, <2>3 DEF Tables
  <2>5. i < k
    BY <1>2, <2>2, <2>3, <2>4, PidTableAssumption DEF FoundAt, Slots
  <2> QED
    BY <2>2, <2>5, PidTableAssumption DEF FoundAt, Slots
<1> QED
  BY <1>1, <1>2, RemoveEffect

\* Effects of one call on the slots, without the probe order.
LEMMA AddStores ==
  ASSUME NEW t \in Tables, NEW p \in Pids
  PROVE  /\ \A s \in Slots : t[s] # Free => Add(t, p)[s] = t[s]
         /\ AddSucceeds(t, p) => \E s \in Slots : Add(t, p)[s] = p
         /\ \A s \in Slots : Add(t, p)[s] # t[s] => Add(t, p)[s] = p
<1>1. CASE Add(t, p) = t /\ (AddSucceeds(t, p) => Find(t, p))
  <2>1. Find(t, p) => \E s \in Slots : t[s] = p
    BY ProbeInSlots, PidTableAssumption DEF Find, FoundAt, Slots
  <2> QED
    BY <1>1, <2>1
<1>2. CASE \E i \in Slots : /\ FreeAt(t, p, i)
                            /\ Probe(p, i) \in Slots
                            /\ Add(t, p) = [t EXCEPT ![Probe(p, i)] = p]
  BY <1>2 DEF FreeAt, Tables
<1> QED
  BY <1>1, <1>2, AddEffect

LEMMA RemoveClears ==
  ASSUME NEW t \in Tables, NEW p \in Pids
  PROVE  \A s \in Slots : Remove(t, p)[s] = t[s]
                          \/ (t[s] = p /\ Remove(t, p)[s] = Free)
  BY RemoveEffect DEF FoundAt, Tables

-----------------------------------------------------------------------------
\* What is found is stored.
LEMMA FoundIsStored ==
  ASSUME NEW t \in Tables
  PROVE  TrackedIn(t) \subseteq StoredIn(t)
<1>1. ASSUME NEW p \in Pids, Find(t, p)
      PROVE  \E s \in Slots : t[s] = p
  <2>1. PICK i \in Slots : t[Probe(p, i)] = p
    BY <1>1 DEF Find, FoundAt
  <2>2. Probe(p, i) \in Slots
    BY ProbeInSlots, PidTableAssumption DEF Slots
  <2> QED
    BY <2>1, <2>2
<1> QED
  BY <1>1 DEF TrackedIn, StoredIn

\* An add never shortens another PID's probe: what was found is found still.
LEMMA AddKeepsFound ==
  ASSUME NEW t \in Tables, NEW p \in Pids, NEW q \in Pids, Find(t, q)
  PROVE  Find(Add(t, p), q)
<1>1. CASE Add(t, p) = t
  BY <1>1
<1>2. CASE ~ Find(t, p) /\ \E i \in Slots : /\ FreeAt(t, p, i)
                                            /\ Probe(p, i) \in Slots
                                            /\ Add(t, p) = [t EXCEPT ![Probe(p, i)] = p]
  <2>1. PICK i \in Slots : /\ FreeAt(t, p, i)
                           /\ Probe(p, i) \in Slots
                           /\ Add(t, p) = [t EXCEPT ![Probe(p, i)] = p]
    BY <1>2
  <2>2. PICK k \in Slots : FoundAt(t, q, k)
    BY DEF Find
  <2>3. k \in Nat /\ p # Free /\ q # Free /\ q # p
    BY <1>2, PidTableAssumption DEF Slots
  <2>4. t[Probe(p, i)] = Free
    BY <2>1 DEF FreeAt
  <2>5. Add(t, p)[Probe(q, k)] = q
    <3>1. Probe(q, k) \in Slots /\ Probe(q, k) # Probe(p, i)
      BY <2>2, <2>3, <2>4, ProbeInSlots DEF FoundAt
    <3> QED
      BY <2>1, <2>2, <3>1 DEF FoundAt, Tables
  <2>6. ASSUME NEW j \in 0 .. (k - 1)
        PROVE  Add(t, p)[Probe(q, j)] \notin {Free, q}
    <3>1. j \in Nat
      BY <2>3
    <3>2. Probe(q, j) \in Slots /\ t[Probe(q, j)] \notin {Free, q}
      BY <2>2, <3>1, ProbeInSlots DEF FoundAt
    <3> QED
      BY <2>1, <2>3, <2>4, <3>2 DEF Tables
  <2>7. FoundAt(Add(t, p), q, k)
    BY <2>5, <2>6 DEF FoundAt
  <2> QED
    BY <2>7 DEF Find
<1> QED
  BY <1>1, <1>2, AddEffect

\* An entry that no inactive slot and no other entry of its PID precedes on
\* the probe is found.  The first of several entries always is one.
LEMMA UnbrokenIsFound ==
  ASSUME NEW t \in Tables, NEW p \in Pids, NEW k \in Slots, t[Probe(p, k)] = p,
         \A j \in 0 .. (k - 1) : t[Probe(p, j)] # Free
  PROVE  Find(t, p)
<1> DEFINE S == {j \in 0 .. k : t[Probe(p, j)] = p}
<1>1. S \in SUBSET Nat /\ k \in S
  BY PidTableAssumption DEF Slots
<1>2. PICK i \in S : \A j \in S : ~ (j < i)
  BY <1>1, LeastExists
<1>3. i \in Slots /\ i \in 0 .. k
  BY <1>2, PidTableAssumption DEF Slots
<1>4. ASSUME NEW j \in 0 .. (i - 1)
      PROVE  t[Probe(p, j)] \notin {Free, p}
  <2>1. j \in 0 .. (k - 1) /\ j \in 0 .. k /\ j < i
    BY <1>3, PidTableAssumption DEF Slots
  <2> QED
    BY <1>2, <2>1
<1>5. FoundAt(t, p, i)
  BY <1>2, <1>4 DEF FoundAt
<1> QED
  BY <1>3, <1>5 DEF Find

\* An add that succeeds makes its PID found, whatever the table holds.
LEMMA AddMakesFound ==
  ASSUME NEW t \in Tables, NEW p \in Pids, AddSucceeds(t, p)
  PROVE  Find(Add(t, p), p)
<1>1. CASE Find(t, p)
  BY <1>1, AddKeepsFound
<1>2. CASE ~ Find(t, p)
  <2>1. PICK i \in Slots : /\ FreeAt(t, p, i)
                           /\ Probe(p, i) \in Slots
                           /\ Add(t, p) = [t EXCEPT ![Probe(p, i)] = p]
    BY <1>2, AddEffect
  <2>2. Add(t, p) \in Tables /\ Add(t, p)[Probe(p, i)] = p /\ p # Free
    BY <2>1, PidTableAssumption DEF Tables
  <2>3. ASSUME NEW j \in 0 .. (i - 1)
        PROVE  Add(t, p)[Probe(p, j)] # Free
    <3>1. Probe(p, j) \in Slots /\ t[Probe(p, j)] # Free
      BY <2>1, ProbeInSlots, PidTableAssumption DEF FreeAt, Slots
    <3> QED
      BY <2>1, <2>2, <3>1 DEF Tables
  <2> QED
    BY <2>2, <2>3, UnbrokenIsFound
<1> QED
  BY <1>1, <1>2

\* A removal brings no other PID back: the slot it clears was active.
LEMMA RemoveRevealsNothing ==
  ASSUME NEW t \in Tables, NEW p \in Pids, NEW q \in Pids, Find(Remove(t, p), q)
  PROVE  Find(t, q) /\ q # p
<1>1. q # p
  BY RemovedIsUnreachable
<1>2. PICK k \in Slots : FoundAt(Remove(t, p), q, k)
  BY DEF Find
<1>3. ASSUME NEW j \in 0 .. k, Remove(t, p)[Probe(q, j)] # Free
      PROVE  t[Probe(q, j)] = Remove(t, p)[Probe(q, j)]
  <2>1. Probe(q, j) \in Slots
    BY ProbeInSlots, PidTableAssumption DEF Slots
  <2> QED
    BY <1>3, <2>1, RemoveClears
<1>4. k \in 0 .. k /\ q # Free /\ \A j \in 0 .. (k - 1) : j \in 0 .. k
  BY PidTableAssumption DEF Slots
<1>5. t[Probe(q, k)] = q
  BY <1>2, <1>3, <1>4 DEF FoundAt
<1>6. \A j \in 0 .. (k - 1) : t[Probe(q, j)] \notin {Free, q}
  BY <1>2, <1>3, <1>4 DEF FoundAt
<1> QED
  BY <1>1, <1>5, <1>6 DEF Find, FoundAt

\* An add is refused only when every slot is active.
LEMMA RefusedMeansFull ==
  ASSUME NEW t \in Tables, NEW p \in Pids, ~ AddSucceeds(t, p)
  PROVE  \A s \in Slots : t[s] # Free
<1> SUFFICES ASSUME NEW s \in Slots, t[s] = Free
             PROVE  FALSE
  OBVIOUS
<1> DEFINE S == {i \in Slots : t[Probe(p, i)] = Free}
<1>1. S \in SUBSET Nat /\ S # {}
  BY ProbeCovers, PidTableAssumption DEF Slots
<1>2. PICK i \in S : \A j \in S : ~ (j < i)
  BY <1>1, LeastExists
<1>3. \A j \in 0 .. (i - 1) : j \in Slots /\ j < i
  BY <1>2, PidTableAssumption DEF Slots
<1>4. FreeAt(t, p, i)
  BY <1>2, <1>3 DEF FreeAt
<1> QED
  BY <1>4 DEF AddSucceeds

-----------------------------------------------------------------------------
\* While home slots are distinct every entry sits in its PID's home slot ...
AtHome(t) == \A s \in Slots : t[s] # Free => s = Probe(t[s], 0)

\* ... so a probe ends at its first step.
LEMMA FindAtHome ==
  ASSUME NEW S \in SUBSET Pids, DistinctHomes(S), NEW t \in [Slots -> S \cup {Free}],
         AtHome(t), NEW p \in S
  PROVE  /\ Find(t, p) <=> t[Probe(p, 0)] = p
         /\ \A i \in Slots : FoundAt(t, p, i) => i = 0
         /\ t[Probe(p, 0)] \in {p, Free}
<1> DEFINE h == Probe(p, 0)
<1>1. h \in Slots /\ 0 \in Slots
  BY ProbeInSlots, PidTableAssumption DEF Slots
<1>2. t[h] \in {p, Free}
  <2>1. t[h] \in S \cup {Free}
    BY <1>1
  <2>2. ASSUME t[h] # Free
        PROVE  t[h] = p
    <3>1. t[h] \in S /\ Probe(t[h], 0) = Probe(p, 0)
      BY <1>1, <2>1, <2>2 DEF AtHome
    <3> QED
      BY <3>1 DEF DistinctHomes
  <2> QED
    BY <2>2
<1>3. ASSUME NEW i \in Slots, FoundAt(t, p, i)
      PROVE  i = 0
  <2> SUFFICES ASSUME i # 0
               PROVE  FALSE
    OBVIOUS
  <2>1. 0 \in 0 .. (i - 1)
    BY PidTableAssumption DEF Slots
  <2> QED
    BY <1>2, <1>3, <2>1 DEF FoundAt
<1>4. t[h] = p => FoundAt(t, p, 0)
  BY DEF FoundAt
<1>5. Find(t, p) => t[h] = p
  BY <1>3 DEF Find, FoundAt
<1> QED
  BY <1>1, <1>2, <1>3, <1>4, <1>5 DEF Find

LEMMA AddAtHome ==
  ASSUME NEW S \in SUBSET Pids, DistinctHomes(S), NEW t \in [Slots -> S \cup {Free}],
         AtHome(t), NEW p \in S
  PROVE  AddSucceeds(t, p) /\ Add(t, p) = [t EXCEPT ![Probe(p, 0)] = p]
<1> DEFINE h == Probe(p, 0)
<1>1. h \in Slots /\ 0 \in Slots
  BY ProbeInSlots, PidTableAssumption DEF Slots
<1>2. CASE t[h] = p
  <2>1. Find(t, p)
    BY <1>2, FindAtHome
  <2>2. t = [t EXCEPT ![h] = p]
    BY <1>1, <1>2 DEF Tables
  <2> QED
    BY <2>1, <2>2 DEF Add, AddSucceeds
<1>3. CASE t[h] # p
  <2>1. ~ Find(t, p) /\ t[h] = Free
    BY <1>3, FindAtHome
  <2>2. FreeAt(t, p, 0)
    BY <2>1 DEF FreeAt
  <2>3. \A i \in Slots : FreeAt(t, p, i) => i = 0
    <3> SUFFICES ASSUME NEW i \in Slots, FreeAt(t, p, i), i # 0
                 PROVE  FALSE
      OBVIOUS
    <3>1. 0 \in 0 .. (i - 1)
      BY PidTableAssumption DEF Slots
    <3> QED
      BY <2>1, <3>1 DEF FreeAt
  <2>4. (CHOOSE k \in Slots : FreeAt(t, p, k)) = 0
    BY <1>1, <2>2, <2>3
  <2> QED
    BY <1>1, <2>1, <2>2, <2>4 DEF Add, AddSucceeds
<1> QED
  BY <1>2, <1>3

LEMMA RemoveAtHome ==
  ASSUME NEW S \in SUBSET Pids, DistinctHomes(S), NEW t \in [Slots -> S \cup {Free}],
         AtHome(t), NEW p \in S
  PROVE  Remove(t, p) = [t EXCEPT ![Probe(p, 0)] = Free]
<1> DEFINE h == Probe(p, 0)
<1>1. h \in Slots
  BY ProbeInSlots, PidTableAssumption
<1>2. CASE Remove(t, p) = t /\ ~ Find(t, p)
  <2>1. t[h] = Free
    BY <1>2, FindAtHome
  <2> QED
    BY <1>1, <1>2, <2>1 DEF Tables
<1>3. CASE \E i \in Slots : /\ FoundAt(t, p, i)
                            /\ Probe(p, i) \in Slots
                            /\ Remove(t, p) = [t EXCEPT ![Probe(p, i)] = Free]
  BY <1>3, FindAtHome
<1> QED
  <2> t \in Tables
    BY DEF Tables
  <2> QED
    BY <1>2, <1>3, RemoveEffect

\* What is tracked is stored, so it is one of the PIDs in the table.
LEMMA TrackedAmong ==
  ASSUME NEW S \in SUBSET Pids, NEW t \in [Slots -> S \cup {Free}]
  PROVE  TrackedIn(t) \subseteq S
<1>1. t \in Tables
  BY DEF Tables
<1>2. StoredIn(t) \subseteq S
  BY PidTableAssumption DEF StoredIn
<1> QED
  BY <1>1, <1>2, FoundIsStored

\* Then an add adds its PID and a removal removes it, and nothing else changes.
LEMMA HomeAdd ==
  ASSUME NEW S \in SUBSET Pids, DistinctHomes(S), NEW t \in [Slots -> S \cup {Free}],
         AtHome(t), NEW p \in S
  PROVE  /\ AddSucceeds(t, p)
         /\ Add(t, p) \in [Slots -> S \cup {Free}]
         /\ AtHome(Add(t, p))
         /\ TrackedIn(Add(t, p)) = TrackedIn(t) \cup {p}
<1> DEFINE h == Probe(p, 0)
           new == Add(t, p)
<1>1. h \in Slots
  BY ProbeInSlots
<1>2. AddSucceeds(t, p) /\ new = [t EXCEPT ![h] = p]
  BY AddAtHome
<1>3. new \in [Slots -> S \cup {Free}] /\ AtHome(new)
  BY <1>1, <1>2 DEF AtHome
<1>4. ASSUME NEW q \in S
      PROVE  Find(new, q) <=> Find(t, q) \/ q = p
  <2>1. (Find(t, q) <=> t[Probe(q, 0)] = q) /\ (Find(new, q) <=> new[Probe(q, 0)] = q)
    BY <1>3, FindAtHome
  <2>2. Probe(q, 0) \in Slots /\ (Probe(q, 0) = h => q = p)
    BY ProbeInSlots DEF DistinctHomes
  <2> QED
    BY <1>1, <1>2, <2>1, <2>2
<1>5. TrackedIn(new) \subseteq S /\ TrackedIn(t) \subseteq S
  BY <1>3, TrackedAmong
<1> QED
  BY <1>2, <1>3, <1>4, <1>5 DEF TrackedIn

LEMMA HomeRemove ==
  ASSUME NEW S \in SUBSET Pids, DistinctHomes(S), NEW t \in [Slots -> S \cup {Free}],
         AtHome(t), NEW p \in S
  PROVE  /\ Remove(t, p) \in [Slots -> S \cup {Free}]
         /\ AtHome(Remove(t, p))
         /\ TrackedIn(Remove(t, p)) = TrackedIn(t) \ {p}
<1> DEFINE h == Probe(p, 0)
           new == Remove(t, p)
<1>1. h \in Slots
  BY ProbeInSlots
<1>2. new = [t EXCEPT ![h] = Free]
  BY RemoveAtHome
<1>3. new \in [Slots -> S \cup {Free}] /\ AtHome(new)
  BY <1>1, <1>2 DEF AtHome
<1>4. ASSUME NEW q \in S
      PROVE  Find(new, q) <=> Find(t, q) /\ q # p
  <2>1. (Find(t, q) <=> t[Probe(q, 0)] = q) /\ (Find(new, q) <=> new[Probe(q, 0)] = q)
    BY <1>3, FindAtHome
  <2>2. Probe(q, 0) \in Slots /\ (Probe(q, 0) = h => q = p) /\ q # Free
    BY ProbeInSlots, PidTableAssumption DEF DistinctHomes
  <2> QED
    BY <1>1, <1>2, <2>1, <2>2
<1>5. TrackedIn(new) \subseteq S /\ TrackedIn(t) \subseteq S
  BY <1>3, TrackedAmong
<1> QED
  BY <1>3, <1>4, <1>5 DEF TrackedIn

=============================================================================
