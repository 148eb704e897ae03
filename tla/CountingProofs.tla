--------------------------- MODULE CountingProofs ---------------------------
(***************************************************************************)
(* What the filters of the counting probes select, whatever the tree of    *)
(* cgroups and wherever it changes under the walk; that a write is         *)
(* counted, under its own descriptor, for every size of the maps; and that *)
(* the aggregation map reports what happened and no more, for any number   *)
(* of CPUs, keys and elements.                                             *)
(***************************************************************************)
EXTENDS Counting, FiniteSetTheorems, SequenceTheorems, WellFoundedInduction, TLAPS

Ids == Paths \X Nat
Dirs == [dir : Paths, must : SUBSET Ids, met : SUBSET Paths]

Shape ==
  /\ children \in BOOLEAN /\ attached \in BOOLEAN
  /\ born \in [Paths -> Nat] /\ live \subseteq Ids
  /\ phase \in {"clear", "root", "walk", "running", "ended"} /\ walk \in Seq(Dirs)
  /\ tracked \subseteq Ids /\ IsFiniteSet(tracked) /\ Cardinality(tracked) <= MapSize

\* A path has one cgroup at a time, and none without its parent's.
Tree ==
  /\ \A id \in live : id = IdOf(id[1])
  /\ \A p \in Paths : Exists(p) /\ ParentOf[p] \in Paths => Exists(ParentOf[p])

\* A cgroup below the root has not lived longer than its parent.
Lived ==
  /\ through \subseteq live /\ Subtree \subseteq during
  /\ \A id \in through : /\ Below(id[1])
                         /\ id[1] # Root => /\ ParentOf[id[1]] \in Paths
                                            /\ IdOf(ParentOf[id[1]]) \in through

\* The walk has been at a cgroup, or it does not matter any more.
Met(id) == id \in tracked \/ Cardinality(tracked) = MapSize

\* The walk has the parent open, and will come to the cgroup.
Pending(id) ==
  \E i \in 1 .. Len(walk) :
    walk[i].dir = ParentOf[id[1]] /\ id \in walk[i].must /\ id[1] \notin walk[i].met

\* Of the cgroups that have lived all the time, those not met are pending, or
\* their parents have not been met either.
Walking ==
  /\ walk # << >>
  /\ \A i \in 1 .. Len(walk) : Below(walk[i].dir)
  /\ tracked \subseteq during
  /\ \A id \in through :
       IF id[1] = Root THEN Met(id)
       ELSE Met(id) \/ Pending(id) \/ ~Met(IdOf(ParentOf[id[1]]))

CgroupsKept ==
  /\ Shape /\ Tree /\ Lived /\ RefreshExact
  /\ phase = "root" => tracked = {}
  /\ phase = "walk" => Walking

\* Processes and their calls
Entries == {p \in Procs : ctx[p] # None}

CallsShape ==
  /\ calls \in Seq({"recorded", "noRoom", "missed"})
  /\ current \in [Procs -> Nat] /\ ctx \in [Procs -> Nat]
  /\ \A p \in Procs : current[p] <= Len(calls)
  /\ IsFiniteSet(Entries)
  /\ \A r \in counted : r.call \in 1 .. Len(calls)
  /\ due \subseteq 1 .. Len(calls)

\* A process that is sure of being selected is, and its call has its entry.
Surely ==
  \A p \in sure :
    /\ p \in Procs /\ attached /\ Selected(p)
    /\ current[p] # None => calls[current[p]] \in {"recorded", "noRoom"}

CallsKept == CallsShape /\ OwnDescriptor /\ Surely /\ SelectedAreCounted

\* Every process is somewhere.
Placed == where = [p \in Procs |-> where[p]]

-----------------------------------------------------------------------------
\* The subtree: whoever is below the root is the root or has a parent that is,
\* and a child of one that is below the root is below it, too.
LEMMA BelowParent ==
  ASSUME NEW p \in Paths, Below(p), p # Root
  PROVE  ParentOf[p] \in Paths /\ Below(ParentOf[p])
<1>1. ParentOf[p] \in Paths
  <2> SUFFICES ASSUME ParentOf[p] \notin Paths PROVE FALSE
    OBVIOUS
  <2>1. {p} \in SUBSET Paths /\ p \in {p} /\ \A q \in {p} : ParentOf[q] \in Paths => ParentOf[q] \in {p}
    OBVIOUS
  <2> QED
    BY <2>1 DEF Below
<1>2. ASSUME NEW above \in SUBSET Paths, ParentOf[p] \in above,
             \A q \in above : ParentOf[q] \in Paths => ParentOf[q] \in above
      PROVE  Root \in above
  <2>1. /\ above \cup {p} \in SUBSET Paths /\ p \in above \cup {p}
        /\ \A q \in above \cup {p} : ParentOf[q] \in Paths => ParentOf[q] \in above \cup {p}
    BY <1>2
  <2>2. Root \in above \cup {p}
    BY <2>1 DEF Below
  <2> QED
    BY <2>2
<1> QED
  BY <1>1, <1>2 DEF Below

LEMMA BelowChild ==
  ASSUME NEW p \in Paths, ParentOf[p] \in Paths, Below(ParentOf[p])
  PROVE  Below(p)
<1> SUFFICES ASSUME NEW above \in SUBSET Paths, p \in above,
                    \A q \in above : ParentOf[q] \in Paths => ParentOf[q] \in above
             PROVE  Root \in above
  BY DEF Below
<1> QED
  BY DEF Below

\* Every entry of the map of cgroups fits, and one that is not there had no room.
LEMMA AddedEffect ==
  ASSUME WriteAssumption, Shape, NEW p \in Paths, tracked' = Added(p)
  PROVE  /\ tracked' \subseteq Ids /\ IsFiniteSet(tracked') /\ Cardinality(tracked') <= MapSize
         /\ tracked \subseteq tracked' /\ tracked' \subseteq tracked \cup {IdOf(p)}
         /\ Cardinality(tracked) = MapSize => tracked' = tracked
         /\ IdOf(p) \in tracked' \/ Cardinality(tracked') = MapSize
<1>1. /\ IdOf(p) \in Ids /\ tracked \subseteq Ids /\ IsFiniteSet(tracked)
      /\ Cardinality(tracked) \in Nat /\ MapSize \in Nat /\ Cardinality(tracked) <= MapSize
  BY FS_CardinalityType DEF Shape, Ids, IdOf, WriteAssumption, CgroupAssumption
<1>2. CASE Cardinality(tracked) < MapSize
  <2>1. tracked' = tracked \cup {IdOf(p)}
    BY <1>2 DEF Added
  <2>2. IsFiniteSet(tracked') /\ Cardinality(tracked') <= Cardinality(tracked) + 1
    <3>1. CASE IdOf(p) \in tracked
      <4>1. tracked' = tracked
        BY <2>1, <3>1
      <4> QED
        BY <1>1, <4>1
    <3>2. CASE IdOf(p) \notin tracked
      <4>1. /\ IsFiniteSet(tracked \cup {IdOf(p)})
            /\ Cardinality(tracked \cup {IdOf(p)}) = Cardinality(tracked) + 1
        BY <1>1, <3>2, FS_AddElement
      <4> QED
        BY <1>1, <2>1, <4>1
    <3> QED
      BY <3>1, <3>2
  <2>3. Cardinality(tracked') \in Nat
    BY <2>2, FS_CardinalityType
  <2> QED
    BY <1>1, <1>2, <2>1, <2>2, <2>3
<1>3. CASE ~(Cardinality(tracked) < MapSize)
  BY <1>1, <1>3 DEF Added
<1> QED
  BY <1>2, <1>3

-----------------------------------------------------------------------------
\* A directory is opened with what is in it, below the root.
LEMMA OpenedEffect ==
  ASSUME Shape, Tree, NEW p \in Paths
  PROVE  /\ Opened(p) \in Dirs
         /\ \A id \in live : ParentOf[id[1]] = p => id \in Opened(p).must
<1>1. {IdOf(c) : c \in LiveIn(p)} \subseteq Ids
  BY DEF Shape, LiveIn, IdOf, Ids
<1>2. ASSUME NEW id \in live, ParentOf[id[1]] = p
      PROVE  id \in Opened(p).must
  <2>1. id = IdOf(id[1]) /\ id[1] \in Paths
    BY DEF Tree, Shape, Ids
  <2>2. id[1] \in LiveIn(p)
    BY <1>2, <2>1 DEF LiveIn, Exists
  <2> QED
    BY <2>1, <2>2 DEF Opened
<1> QED
  BY <1>1, <1>2 DEF Opened, Dirs

\* Sequences: the last element and all others.
LEMMA LastAndFront ==
  ASSUME NEW S, NEW s \in Seq(S), s # << >>
  PROVE  /\ Len(s) \in Nat /\ Len(s) >= 1 /\ Last(s) = s[Len(s)] /\ Last(s) \in S
         /\ Front(s) \in Seq(S) /\ Len(Front(s)) = Len(s) - 1
         /\ \A i \in 1 .. Len(Front(s)) : Front(s)[i] = s[i]
<1>1. Len(s) \in Nat /\ Len(s) >= 1 /\ Last(s) = s[Len(s)] /\ Last(s) \in S
  BY DEF Last
<1>2. \A i \in 1 .. (Len(s) - 1) : s[i] \in S
  BY <1>1
<1> DEFINE n == Len(s) - 1
           u == SubSeq(s, 1, n)
<1>3. n \in Nat /\ n \in Int /\ 1 \in Int /\ \A i \in 1 .. n : s[i] \in S
  BY <1>1, <1>2
<1>4. Front(s) = u
  BY DEF Front
<1> HIDE DEF n
<1>5. /\ u \in Seq(S) /\ Len(u) = IF 1 <= n THEN n - 1 + 1 ELSE 0
      /\ \A i \in 1 .. n - 1 + 1 : u[i] = s[1 + i - 1]
  BY <1>3, SubSeqProperties
<1> HIDE DEF u
<1>6. Len(u) = n /\ \A i \in 1 .. n : u[i] = s[i]
  BY <1>3, <1>5
<1> QED
  BY <1>1, <1>4, <1>5, <1>6 DEF n

-----------------------------------------------------------------------------
\* The part of the tree that a refresh begins with is as Lived says.
LEMMA LivedAtBegin ==
  ASSUME Shape, Tree, NEW id \in Subtree
  PROVE  /\ Below(id[1])
         /\ id[1] # Root => ParentOf[id[1]] \in Paths /\ IdOf(ParentOf[id[1]]) \in Subtree
<1>1. id \in live /\ Below(id[1]) /\ id[1] \in Paths /\ id = IdOf(id[1]) /\ Exists(id[1])
  BY DEF Subtree, Tree, Shape, Ids, Exists
<1>2. ASSUME id[1] # Root
      PROVE  ParentOf[id[1]] \in Paths /\ IdOf(ParentOf[id[1]]) \in Subtree
  <2>1. ParentOf[id[1]] \in Paths /\ Below(ParentOf[id[1]])
    BY <1>1, <1>2, BelowParent
  <2>2. IdOf(ParentOf[id[1]]) \in live /\ IdOf(ParentOf[id[1]])[1] = ParentOf[id[1]]
    BY <1>1, <2>1 DEF Tree, Exists, IdOf
  <2> QED
    BY <2>1, <2>2 DEF Subtree
<1> QED
  BY <1>1, <1>2

LEMMA CgroupsAtFirst == WriteAssumption /\ CgroupInit => CgroupsKept
<1> SUFFICES ASSUME WriteAssumption, CgroupInit
             PROVE  CgroupsKept
  OBVIOUS
<1> USE DEF WriteAssumption, CgroupAssumption, CgroupInit
<1>1. Shape
  <2>1. IsFiniteSet({}) /\ Cardinality({}) = 0
    BY FS_EmptySet
  <2>2. tracked = {} /\ 0 <= MapSize /\ live \subseteq Ids /\ born \in [Paths -> Nat]
    BY DEF Ids
  <2>3. walk \in Seq(Dirs) /\ children \in BOOLEAN
    OBVIOUS
  <2> QED
    BY <2>1, <2>2, <2>3 DEF Shape
<1>2. \A p \in Paths : Exists(p) <=> p \in Live0
  BY DEF Exists, IdOf
<1>3. Tree
  <2>1. \A id \in live : id = IdOf(id[1])
    BY DEF IdOf
  <2>2. \A p \in Paths : Exists(p) /\ ParentOf[p] \in Paths => Exists(ParentOf[p])
    BY <1>2
  <2> QED
    BY <2>1, <2>2 DEF Tree
<1>4. Lived
  <2>1. through \subseteq live /\ Subtree \subseteq during
    BY DEF Subtree
  <2>2. \A id \in through :
          /\ Below(id[1])
          /\ id[1] # Root => ParentOf[id[1]] \in Paths /\ IdOf(ParentOf[id[1]]) \in through
    BY <1>1, <1>3, LivedAtBegin
  <2> QED
    BY <2>1, <2>2 DEF Lived
<1>5. RefreshExact
  BY <1>1 DEF RefreshExact, Shape
<1> QED
  BY <1>1, <1>3, <1>4, <1>5 DEF CgroupsKept

\* What a step of the refresh leaves of the tree
LEMMA TreeStays ==
  ASSUME Tree, Lived, UNCHANGED <<tree, history>>
  PROVE  Tree' /\ Lived'
<1>1. UNCHANGED <<live, born, through, during>> /\ \A p : IdOf(p)' = IdOf(p)
  BY DEF tree, history, IdOf
<1>2. (\A p : Exists(p)' <=> Exists(p)) /\ Subtree' = Subtree
  BY <1>1 DEF Exists, Subtree
<1>3. Tree'
  BY <1>1, <1>2 DEF Tree
<1>4. Lived'
  BY <1>1, <1>2 DEF Lived
<1> QED
  BY <1>3, <1>4

LEMMA KeptByBeginRefresh == CgroupsKept /\ BeginRefresh => CgroupsKept'
<1> SUFFICES ASSUME CgroupsKept, BeginRefresh
             PROVE  CgroupsKept'
  OBVIOUS
<1>1. UNCHANGED <<children, target, live, born, tracked, attached, walk>>
      /\ phase' = "clear" /\ through' = Subtree /\ during' = Subtree
  BY DEF BeginRefresh, tree
<1>2. (\A p : IdOf(p)' = IdOf(p)) /\ (\A p : Exists(p)' <=> Exists(p)) /\ Subtree' = Subtree
  BY <1>1 DEF IdOf, Exists, Subtree
<1>3. Shape' /\ Tree' /\ RefreshExact'
  BY <1>1, <1>2 DEF CgroupsKept, Shape, Tree, RefreshExact
<1>4. Lived'
  <2>1. \A id \in through' :
          /\ Below(id[1])
          /\ id[1] # Root => ParentOf[id[1]] \in Paths /\ IdOf(ParentOf[id[1]]) \in through'
    BY <1>1, LivedAtBegin DEF CgroupsKept
  <2> QED
    BY <1>1, <1>2, <2>1 DEF Lived, Subtree
<1> QED
  BY <1>1, <1>3, <1>4 DEF CgroupsKept

LEMMA KeptByClearing ==
  WriteAssumption /\ CgroupsKept /\ ((\E id \in tracked : Clear(id)) \/ Cleared) => CgroupsKept'
<1> SUFFICES ASSUME WriteAssumption, CgroupsKept, (\E id \in tracked : Clear(id)) \/ Cleared
             PROVE  CgroupsKept'
  OBVIOUS
<1>1. /\ UNCHANGED <<children, live, born, attached, walk>> /\ UNCHANGED <<tree, history>>
      /\ tracked' \subseteq tracked /\ phase = "clear"
      /\ phase' = "clear" \/ (phase' = "root" /\ tracked' = {})
  BY DEF Clear, Cleared, tree
<1>2. IsFiniteSet(tracked') /\ Cardinality(tracked') <= MapSize
  <2>1. IsFiniteSet(tracked') /\ Cardinality(tracked') <= Cardinality(tracked)
    BY <1>1, FS_Subset DEF CgroupsKept, Shape
  <2>2. Cardinality(tracked') \in Nat /\ Cardinality(tracked) \in Nat /\ MapSize \in Nat
    BY <2>1, FS_CardinalityType DEF CgroupsKept, Shape, WriteAssumption, CgroupAssumption
  <2> QED
    BY <2>1, <2>2 DEF CgroupsKept, Shape
<1>3. Shape' /\ RefreshExact'
  BY <1>1, <1>2 DEF CgroupsKept, Shape, RefreshExact
<1> QED
  BY <1>1, <1>3, TreeStays DEF CgroupsKept

\* Without its root, nothing of the subtree has lived all the time.
LEMMA RootlessIsEmpty ==
  ASSUME WriteAssumption, Shape, Tree, Lived, ~Exists(Root)
  PROVE  through = {}
<1> SUFFICES ASSUME NEW id \in through
             PROVE  FALSE
  OBVIOUS
<1> DEFINE above == {p \in Paths : IdOf(p) \in through}
<1>1. id \in live /\ Below(id[1]) /\ id = IdOf(id[1]) /\ id[1] \in Paths
  BY DEF Lived, Tree, Shape, Ids
<1>2. id[1] \in above /\ above \in SUBSET Paths
  BY <1>1
<1>3. Root \notin above
  BY DEF Lived, Exists
<1>4. \A q \in above : ParentOf[q] \in Paths => ParentOf[q] \in above
  BY <1>3 DEF Lived, IdOf
<1> QED
  BY <1>1, <1>2, <1>3, <1>4 DEF Below

LEMMA KeptByAddRoot == WriteAssumption /\ CgroupsKept /\ AddRoot => CgroupsKept'
<1> SUFFICES ASSUME WriteAssumption, CgroupsKept, AddRoot
             PROVE  CgroupsKept'
  OBVIOUS
<1>1. /\ UNCHANGED <<children, live, born, attached>> /\ UNCHANGED <<tree, history>>
      /\ UNCHANGED <<through, during>>
      /\ tracked = {} /\ Root \in Paths /\ MapSize \in Nat
  BY DEF AddRoot, tree, history, CgroupsKept, WriteAssumption, CgroupAssumption
<1>2. Tree' /\ Lived'
  BY <1>1, TreeStays DEF CgroupsKept
<1>3. CASE Exists(Root)
  <2>1. phase' = "walk" /\ tracked' = Added(Root) /\ walk' = << Opened(Root) >>
    BY <1>3 DEF AddRoot
  <2>2. /\ tracked' \subseteq Ids /\ IsFiniteSet(tracked') /\ Cardinality(tracked') <= MapSize
        /\ tracked' \subseteq {IdOf(Root)}
        /\ Cardinality(tracked) = MapSize => tracked' = tracked
        /\ IdOf(Root) \in tracked' \/ Cardinality(tracked') = MapSize
    BY <1>1, <2>1, AddedEffect DEF CgroupsKept
  <2>3. /\ Opened(Root) \in Dirs /\ Opened(Root).dir = Root /\ Opened(Root).met = {}
        /\ \A id \in live : ParentOf[id[1]] = Root => id \in Opened(Root).must
    BY <1>1, OpenedEffect DEF CgroupsKept, Opened
  <2>4. Shape'
    BY <1>1, <2>1, <2>2, <2>3 DEF CgroupsKept, Shape
  <2>5. RefreshExact'
    BY <2>1, <2>2 DEF RefreshExact
  <2>6. IdOf(Root) \in Subtree /\ Below(Root)
    BY <1>1, <1>3 DEF Subtree, Exists, Below, IdOf
  <2>7. ASSUME NEW id \in through
        PROVE  IF id[1] = Root THEN Met(id)'
               ELSE Met(id)' \/ Pending(id)' \/ ~Met(IdOf(ParentOf[id[1]]))'
    <3>1. id \in live /\ id = IdOf(id[1]) /\ id[1] \in Paths
      BY DEF CgroupsKept, Lived, Tree, Shape, Ids
    <3>2. CASE id[1] = Root
      BY <2>2, <3>1, <3>2 DEF Met
    <3>3. CASE id[1] # Root /\ ParentOf[id[1]] = Root
      <4>1. /\ 1 \in 1 .. Len(walk') /\ walk'[1].dir = ParentOf[id[1]]
            /\ id \in walk'[1].must /\ id[1] \notin walk'[1].met
        BY <2>1, <2>3, <3>1, <3>3
      <4> QED
        BY <3>3, <4>1 DEF Pending
    <3>4. CASE id[1] # Root /\ ParentOf[id[1]] # Root
      <4>1. IdOf(ParentOf[id[1]])' # IdOf(Root) /\ IdOf(ParentOf[id[1]])' \notin tracked'
        BY <1>1, <2>2, <3>4 DEF IdOf
      <4> QED
        BY <3>4, <4>1 DEF Met
    <3> QED
      BY <3>2, <3>3, <3>4
  <2>8. Walking'
    <3>1. walk' # << >> /\ \A i \in 1 .. Len(walk') : Below(walk'[i].dir)
      BY <2>1, <2>3, <2>6
    <3>2. tracked' \subseteq during'
      BY <1>1, <2>2, <2>6 DEF CgroupsKept, Lived
    <3> QED
      BY <1>1, <2>7, <3>1, <3>2 DEF Walking
  <2> QED
    BY <1>2, <2>1, <2>4, <2>5, <2>8 DEF CgroupsKept
<1>4. CASE ~Exists(Root)
  <2>1. phase' \in {"running", "ended"} /\ UNCHANGED <<tracked, walk>>
    BY <1>4 DEF AddRoot
  <2>2. through' = {} /\ tracked' = {}
    BY <1>1, <1>4, <2>1, RootlessIsEmpty DEF CgroupsKept
  <2>3. Shape' /\ RefreshExact'
    BY <1>1, <2>1, <2>2 DEF CgroupsKept, Shape, RefreshExact
  <2> QED
    BY <1>2, <2>1, <2>3 DEF CgroupsKept
<1> QED
  BY <1>3, <1>4

LEMMA KeptByVisit ==
  ASSUME WriteAssumption, CgroupsKept, NEW p \in Paths, Visit(p)
  PROVE  CgroupsKept'
<1> DEFINE n == Len(walk)
           top == [Last(walk) EXCEPT !.met = @ \cup {p}]
<1>1. /\ UNCHANGED <<children, live, born, attached>> /\ UNCHANGED <<tree, history>>
      /\ UNCHANGED <<through, during>>
      /\ phase = "walk" /\ phase' = "walk" /\ ParentOf[p] = Last(walk).dir /\ Exists(p)
      /\ tracked' = Added(p) /\ walk' = Append(Append(Front(walk), top), Opened(p))
  BY DEF Visit, tree, history
<1>2. Tree' /\ Lived' /\ Walking /\ Shape /\ Tree /\ Lived /\ walk \in Seq(Dirs)
  BY <1>1, TreeStays DEF CgroupsKept, Shape
<1>3. /\ tracked' \subseteq Ids /\ IsFiniteSet(tracked') /\ Cardinality(tracked') <= MapSize
      /\ tracked \subseteq tracked' /\ tracked' \subseteq tracked \cup {IdOf(p)}
      /\ Cardinality(tracked) = MapSize => tracked' = tracked
      /\ IdOf(p) \in tracked' \/ Cardinality(tracked') = MapSize
  BY <1>1, <1>2, AddedEffect
<1>4. /\ n \in Nat /\ n >= 1 /\ Last(walk) = walk[n] /\ Last(walk) \in Dirs
      /\ Front(walk) \in Seq(Dirs) /\ Len(Front(walk)) = n - 1
      /\ \A i \in 1 .. n - 1 : Front(walk)[i] = walk[i]
  BY <1>2, LastAndFront DEF Walking
<1>5. /\ top \in Dirs /\ top.dir = walk[n].dir /\ top.must = walk[n].must
      /\ top.met = walk[n].met \cup {p}
  BY <1>4 DEF Dirs
<1>6. /\ Opened(p) \in Dirs /\ Opened(p).dir = p /\ Opened(p).met = {}
      /\ \A id \in live : ParentOf[id[1]] = p => id \in Opened(p).must
  BY <1>2, OpenedEffect DEF Opened
<1>7. /\ walk' \in Seq(Dirs) /\ Len(walk') = n + 1
      /\ \A i \in 1 .. n - 1 : walk'[i] = walk[i]
      /\ walk'[n] = top /\ walk'[n + 1] = Opened(p)
  <2> HIDE DEF top
  <2>1. /\ Append(Front(walk), top) \in Seq(Dirs) /\ Len(Append(Front(walk), top)) = n
        /\ \A i \in 1 .. n - 1 : Append(Front(walk), top)[i] = walk[i]
        /\ Append(Front(walk), top)[n] = top
    BY <1>4, <1>5
  <2> QED
    BY <1>1, <1>4, <1>6, <2>1
<1>8. Shape' /\ RefreshExact'
  BY <1>1, <1>2, <1>3, <1>7 DEF Shape, RefreshExact
<1>9. Below(p) /\ IdOf(p) \in Subtree
  <2>1. n \in 1 .. Len(walk) /\ Below(ParentOf[p]) /\ ParentOf[p] \in Paths
    BY <1>1, <1>2, <1>4 DEF Walking, Dirs
  <2>2. Below(p)
    BY <2>1, BelowChild
  <2> QED
    BY <1>1, <2>2 DEF Subtree, Exists, IdOf
<1>10. \A i \in 1 .. Len(walk') : Below(walk'[i].dir)
  <2> SUFFICES ASSUME NEW i \in 1 .. n + 1
               PROVE  Below(walk'[i].dir)
    BY <1>7
  <2>1. CASE i \in 1 .. n - 1
    BY <1>2, <1>7, <2>1 DEF Walking
  <2>2. CASE i = n
    <3>1. walk'[i] = top /\ n \in 1 .. Len(walk)
      BY <1>4, <1>7, <2>2
    <3>2. top.dir = walk[n].dir
      BY <1>5
    <3> QED
      BY <1>2, <3>1, <3>2 DEF Walking
  <2>3. CASE i = n + 1
    BY <1>6, <1>7, <1>9, <2>3
  <2> QED
    BY <1>4, <2>1, <2>2, <2>3
<1>11. \A id : /\ IdOf(id[1])' = IdOf(id[1]) /\ IdOf(ParentOf[id[1]])' = IdOf(ParentOf[id[1]])
               /\ Met(id) => Met(id)'
  BY <1>1, <1>3 DEF IdOf, Met
<1>12. ASSUME NEW id \in through, id[1] # Root, ~Met(id)'
       PROVE  Pending(id)' \/ ~Met(IdOf(ParentOf[id[1]]))'
  <2>1. id \in live /\ id = IdOf(id[1]) /\ id[1] \in Paths /\ id # IdOf(p)
    BY <1>2, <1>3, <1>12 DEF Lived, Tree, Shape, Ids, Met
  <2>2. Pending(id) \/ ~Met(IdOf(ParentOf[id[1]]))
    BY <1>2, <1>11, <1>12 DEF Walking
  <2>3. CASE Pending(id)
    <3>1. PICK i \in 1 .. n :
            walk[i].dir = ParentOf[id[1]] /\ id \in walk[i].must /\ id[1] \notin walk[i].met
      BY <2>3 DEF Pending
    <3>2. id[1] # p
      BY <2>1
    <3>3. CASE i = n
      <4>1. walk'[i].dir = ParentOf[id[1]] /\ id \in walk'[i].must /\ id[1] \notin walk'[i].met
        BY <1>5, <1>7, <3>1, <3>2, <3>3
      <4> QED
        BY <1>4, <1>7, <3>1, <4>1 DEF Pending
    <3>4. CASE i # n
      <4>1. walk'[i] = walk[i] /\ i \in 1 .. Len(walk')
        BY <1>4, <1>7, <3>1, <3>4
      <4> QED
        BY <3>1, <4>1 DEF Pending
    <3> QED
      BY <3>3, <3>4
  <2>4. CASE ~Met(IdOf(ParentOf[id[1]])) /\ ParentOf[id[1]] = p
    <3>1. n + 1 \in 1 .. Len(walk') /\ walk'[n + 1].dir = ParentOf[id[1]]
          /\ id \in walk'[n + 1].must /\ id[1] \notin walk'[n + 1].met
      BY <1>4, <1>6, <1>7, <2>1, <2>4
    <3> QED
      BY <3>1 DEF Pending
  <2>5. CASE ~Met(IdOf(ParentOf[id[1]])) /\ ParentOf[id[1]] # p
    <3>1. IdOf(ParentOf[id[1]]) \notin tracked' /\ Cardinality(tracked') # MapSize
      BY <1>3, <1>12, <2>5 DEF Met, IdOf
    <3> QED
      BY <1>11, <3>1 DEF Met
  <2> QED
    BY <2>2, <2>3, <2>4, <2>5
<1>13. Walking'
  <2>1. walk' # << >>
    BY <1>4, <1>7
  <2>2. tracked' \subseteq during'
    BY <1>1, <1>2, <1>3, <1>9 DEF Walking, Lived
  <2>3. \A id \in through' : IF id[1] = Root THEN Met(id)'
                             ELSE Met(id)' \/ Pending(id)' \/ ~Met(IdOf(ParentOf[id[1]]))'
    BY <1>1, <1>2, <1>11, <1>12 DEF Walking
  <2> QED
    BY <1>10, <2>1, <2>2, <2>3 DEF Walking
<1> QED
  BY <1>1, <1>2, <1>8, <1>13 DEF CgroupsKept

LEMMA KeptByCloseDir == WriteAssumption /\ CgroupsKept /\ CloseDir => CgroupsKept'
<1> SUFFICES ASSUME WriteAssumption, CgroupsKept, CloseDir
             PROVE  CgroupsKept'
  OBVIOUS
<1> DEFINE n == Len(walk)
<1>1. /\ UNCHANGED <<children, live, born, attached, tracked>> /\ UNCHANGED <<tree, history>>
      /\ UNCHANGED <<through, during>> /\ Closed
      /\ phase = "walk" /\ walk' = Front(walk)
      /\ phase' = IF Len(walk) = 1 THEN "running" ELSE "walk"
  BY DEF CloseDir, tree, history
<1>2. Tree' /\ Lived' /\ Walking /\ Shape /\ Tree /\ Lived /\ walk \in Seq(Dirs)
  BY <1>1, TreeStays DEF CgroupsKept, Shape
<1>3. /\ n \in Nat /\ n >= 1 /\ Last(walk) = walk[n]
      /\ walk' \in Seq(Dirs) /\ Len(walk') = n - 1
      /\ \A i \in 1 .. n - 1 : walk'[i] = walk[i]
  BY <1>1, <1>2, LastAndFront DEF Walking
<1>4. Shape'
  BY <1>1, <1>2, <1>3 DEF Shape
<1>5. \A id : Met(id)' = Met(id) /\ IdOf(ParentOf[id[1]])' = IdOf(ParentOf[id[1]])
  BY <1>1 DEF Met, IdOf
<1>6. ASSUME NEW id \in through, Pending(id)
      PROVE  \E i \in 1 .. n - 1 :
               walk'[i].dir = ParentOf[id[1]] /\ id \in walk'[i].must /\ id[1] \notin walk'[i].met
  <2>1. PICK i \in 1 .. n :
          walk[i].dir = ParentOf[id[1]] /\ id \in walk[i].must /\ id[1] \notin walk[i].met
    BY <1>6 DEF Pending
  <2>2. i # n
    BY <1>1, <1>2, <1>3, <2>1 DEF Closed, Lived
  <2> QED
    BY <1>3, <2>1, <2>2
<1>7. CASE n # 1
  <2>1. Walking'
    <3>1. walk' # << >> /\ \A i \in 1 .. Len(walk') : Below(walk'[i].dir)
      BY <1>2, <1>3, <1>7 DEF Walking
    <3>2. \A id \in through : Pending(id) => Pending(id)'
      BY <1>3, <1>6 DEF Pending
    <3> QED
      BY <1>1, <1>2, <1>5, <3>1, <3>2 DEF Walking
  <2>2. phase' = "walk"
    BY <1>1, <1>7
  <2> QED
    BY <1>2, <1>4, <2>1, <2>2 DEF CgroupsKept, RefreshExact, Shape
<1>8. CASE n = 1
  <2>1. ASSUME NEW id \in through
        PROVE  Met(id)
    <3> SUFFICES ASSUME ~Met(id)
                 PROVE  FALSE
      OBVIOUS
    <3> DEFINE above == {q \in Paths : IdOf(q) \in through /\ ~Met(IdOf(q))}
    <3>1. id = IdOf(id[1]) /\ id[1] \in Paths /\ Below(id[1])
      BY <1>2 DEF Lived, Tree, Shape, Ids
    <3>2. id[1] \in above /\ above \in SUBSET Paths
      BY <3>1
    <3>3. \A q \in above : ~Pending(IdOf(q))
      BY <1>3, <1>6, <1>8
    <3>4. Root \notin above
      BY <1>2 DEF Walking, IdOf
    <3>5. \A q \in above : ParentOf[q] \in Paths => ParentOf[q] \in above
      <4> SUFFICES ASSUME NEW q \in above, ParentOf[q] \in Paths
                   PROVE  ParentOf[q] \in above
        OBVIOUS
      <4>1. IdOf(q)[1] = q /\ q # Root
        BY <3>4 DEF IdOf
      <4>2. ~Met(IdOf(ParentOf[q]))
        BY <1>2, <3>3, <4>1 DEF Walking
      <4>3. IdOf(ParentOf[q]) \in through
        BY <1>2, <4>1 DEF Lived
      <4> QED
        BY <4>2, <4>3
    <3> QED
      BY <3>1, <3>2, <3>4, <3>5 DEF Below
  <2>2. through \subseteq tracked \/ Cardinality(tracked) = MapSize
    BY <2>1 DEF Met
  <2>3. phase' = "running"
    BY <1>1, <1>8
  <2> QED
    BY <1>1, <1>2, <1>4, <2>2, <2>3 DEF CgroupsKept, RefreshExact, Shape, Walking
<1> QED
  BY <1>7, <1>8

LEMMA KeptByAttach == CgroupsKept /\ Attach => CgroupsKept'
<1> SUFFICES ASSUME CgroupsKept, Attach
             PROVE  CgroupsKept'
  OBVIOUS
<1>1. /\ UNCHANGED <<children, live, born, tracked, phase, walk, through, during>>
      /\ UNCHANGED <<tree, history>> /\ attached' = TRUE /\ phase = "running"
  BY DEF Attach, tree, history
<1>2. Shape' /\ RefreshExact'
  BY <1>1 DEF CgroupsKept, Shape, RefreshExact
<1> QED
  BY <1>1, <1>2, TreeStays DEF CgroupsKept

LEMMA KeptByMkdir ==
  ASSUME WriteAssumption, CgroupsKept, NEW p \in Paths, Mkdir(p)
  PROVE  CgroupsKept'
<1> DEFINE new == <<p, born[p] + 1>>
<1>1. /\ UNCHANGED <<children, tracked, attached, phase, walk, through>>
      /\ ~Exists(p) /\ (ParentOf[p] \in Paths => Exists(ParentOf[p]))
      /\ born' = [born EXCEPT ![p] = @ + 1]
      /\ live' = live \cup {<<p, born'[p]>>}
      /\ during' = IF Below(p) THEN during \cup {<<p, born'[p]>>} ELSE during
  BY DEF Mkdir, refresh
<1>2. /\ Shape /\ Tree /\ Lived /\ new \in Ids /\ new = IdOf(p)' /\ new[1] = p
      /\ live' = live \cup {new}
      /\ during' = IF Below(p) THEN during \cup {new} ELSE during
  BY <1>1 DEF CgroupsKept, Shape, Ids, IdOf
<1>3. \A q \in Paths : q # p => IdOf(q)' = IdOf(q)
  BY <1>1, <1>2 DEF Shape, IdOf
<1>4. \A id \in live : id[1] # p /\ id[1] \in Paths
  BY <1>1, <1>2 DEF Tree, Exists, Shape, Ids
<1>5. Shape'
  BY <1>1, <1>2 DEF Shape
<1>6. Tree'
  <2>1. \A id \in live' : id = IdOf(id[1])'
    BY <1>2, <1>3, <1>4 DEF Tree
  <2>2. ASSUME NEW q \in Paths, Exists(q)', ParentOf[q] \in Paths
        PROVE  Exists(ParentOf[q])'
    <3>1. CASE q = p /\ ParentOf[p] # p
      BY <1>1, <1>2, <1>3, <2>2, <3>1 DEF Exists
    <3>2. CASE ParentOf[q] = p
      BY <1>2, <3>2 DEF Exists
    <3>3. CASE q # p /\ ParentOf[q] # p
      <4>1. IdOf(q) \in live'
        BY <1>3, <2>2, <3>3 DEF Exists
      <4>2. IdOf(q) \in live
        BY <1>2, <3>3, <4>1 DEF IdOf
      <4>3. Exists(ParentOf[q])
        BY <1>2, <2>2, <4>2 DEF Tree, Exists
      <4> QED
        BY <1>2, <1>3, <2>2, <3>3, <4>3 DEF Exists
    <3> QED
      BY <3>1, <3>2, <3>3
  <2> QED
    BY <2>1, <2>2 DEF Tree
<1>7. \A id \in through :
        /\ id[1] # p /\ id[1] \in Paths
        /\ id[1] # Root => /\ ParentOf[id[1]] \in Paths /\ ParentOf[id[1]] # p
                           /\ IdOf(ParentOf[id[1]]) \in through
                           /\ IdOf(ParentOf[id[1]])' = IdOf(ParentOf[id[1]])
  <2> SUFFICES ASSUME NEW id \in through
               PROVE  /\ id[1] # p /\ id[1] \in Paths
                      /\ id[1] # Root => /\ ParentOf[id[1]] \in Paths /\ ParentOf[id[1]] # p
                                         /\ IdOf(ParentOf[id[1]]) \in through
                                         /\ IdOf(ParentOf[id[1]])' = IdOf(ParentOf[id[1]])
    OBVIOUS
  <2>1. id[1] # p /\ id[1] \in Paths
    BY <1>2, <1>4 DEF Lived
  <2>2. ASSUME id[1] # Root
        PROVE  /\ ParentOf[id[1]] \in Paths /\ IdOf(ParentOf[id[1]]) \in through
               /\ ParentOf[id[1]] # p
    <3>1. ParentOf[id[1]] \in Paths /\ IdOf(ParentOf[id[1]]) \in through
      BY <1>2, <2>2 DEF Lived
    <3>2. IdOf(ParentOf[id[1]])[1] = ParentOf[id[1]]
      BY DEF IdOf
    <3> QED
      BY <1>2, <1>4, <3>1, <3>2 DEF Lived
  <2> QED
    BY <1>3, <2>1, <2>2
<1>8. Lived'
  <2>1. Subtree' \subseteq Subtree \cup (IF Below(p) THEN {new} ELSE {})
    BY <1>2 DEF Subtree
  <2>2. through' \subseteq live' /\ Subtree' \subseteq during'
    BY <1>1, <1>2, <2>1 DEF Lived
  <2>3. \A id \in through' : /\ Below(id[1])
                             /\ id[1] # Root => /\ ParentOf[id[1]] \in Paths
                                                /\ IdOf(ParentOf[id[1]])' \in through'
    BY <1>1, <1>2, <1>7 DEF Lived
  <2> QED
    BY <2>2, <2>3 DEF Lived
<1>9. RefreshExact'
  BY <1>1, <1>2 DEF CgroupsKept, RefreshExact
<1>10. ASSUME phase = "walk"
       PROVE  Walking'
  <2>1. Walking /\ tracked' \subseteq during'
    BY <1>1, <1>2, <1>10 DEF CgroupsKept, Walking
  <2>2. \A id : (Met(id)' <=> Met(id)) /\ (Pending(id)' <=> Pending(id))
    BY <1>1 DEF Met, Pending
  <2>3. \A id \in through : id[1] # Root => (Met(IdOf(ParentOf[id[1]]))' <=> Met(IdOf(ParentOf[id[1]])))
    BY <1>1, <1>7 DEF Met
  <2> QED
    BY <1>1, <2>1, <2>2, <2>3 DEF Walking
<1> QED
  BY <1>1, <1>5, <1>6, <1>8, <1>9, <1>10 DEF CgroupsKept

LEMMA KeptByRmdir ==
  ASSUME WriteAssumption, CgroupsKept, NEW p \in Paths, Rmdir(p)
  PROVE  CgroupsKept'
<1>1. /\ UNCHANGED <<children, born, tracked, attached, phase, walk, during>>
      /\ Exists(p) /\ LiveIn(p) = {}
      /\ live' = live \ {IdOf(p)} /\ through' = through \ {IdOf(p)}
  BY DEF Rmdir, refresh
<1>2. Shape /\ Tree /\ Lived /\ \A q : IdOf(q)' = IdOf(q)
  BY <1>1 DEF CgroupsKept, IdOf
<1>3. \A id \in live : id[1] \in Paths /\ id = IdOf(id[1]) /\ ParentOf[id[1]] # p
  BY <1>1, <1>2 DEF Tree, Shape, Ids, LiveIn, Exists
<1>4. Shape'
  BY <1>1, <1>2 DEF Shape
<1>5. Tree'
  <2>1. \A q \in Paths : Exists(q)' => Exists(q)
    BY <1>1, <1>2 DEF Exists
  <2>2. ASSUME NEW q \in Paths, Exists(q)', ParentOf[q] \in Paths
        PROVE  Exists(ParentOf[q])'
    <3>1. Exists(ParentOf[q]) /\ ParentOf[q] # p
      BY <1>2, <1>3, <2>1, <2>2 DEF Tree, Exists, IdOf
    <3> QED
      BY <1>1, <1>2, <3>1 DEF Exists, IdOf
  <2> QED
    BY <1>1, <1>2, <2>2 DEF Tree
<1>6. \A id \in through' :
        /\ id \in through
        /\ id[1] # Root => IdOf(ParentOf[id[1]]) \in through'
  BY <1>1, <1>2, <1>3 DEF Lived, IdOf
<1>7. Lived'
  <2>1. through' \subseteq live' /\ Subtree' \subseteq during'
    BY <1>1, <1>2 DEF Lived, Subtree
  <2> QED
    BY <1>2, <1>6, <2>1 DEF Lived
<1>8. RefreshExact'
  BY <1>1 DEF CgroupsKept, RefreshExact
<1>9. ASSUME phase = "walk"
      PROVE  Walking'
  <2>1. Walking
    BY <1>9 DEF CgroupsKept
  <2>2. \A id : /\ (Met(id)' <=> Met(id)) /\ (Pending(id)' <=> Pending(id))
                /\ (Met(IdOf(ParentOf[id[1]]))' <=> Met(IdOf(ParentOf[id[1]])))
    BY <1>1, <1>2 DEF Met, Pending
  <2> QED
    BY <1>1, <1>6, <2>1, <2>2 DEF Walking
<1> QED
  BY <1>1, <1>4, <1>5, <1>7, <1>8, <1>9 DEF CgroupsKept

LEMMA KeptByPopulate == WriteAssumption /\ CgroupsKept /\ Populate => CgroupsKept'
  BY KeptByBeginRefresh, KeptByClearing, KeptByAddRoot, KeptByVisit, KeptByCloseDir, KeptByAttach
  DEF Populate

LEMMA KeptByCgroups == WriteAssumption /\ CgroupsKept /\ Cgroups => CgroupsKept'
  BY KeptByMkdir, KeptByRmdir DEF Cgroups

-----------------------------------------------------------------------------
\* What is selected passes the filter.
LEMMA SelectedIsTracked ==
  ASSUME WriteAssumption, CgroupsKept, NEW p \in Procs, Selected(p)
  PROVE  EventTracked(p)
<1>1. CASE where[p] = target
  BY <1>1 DEF Selected, EventTracked, CgroupTracked
<1>2. CASE children /\ phase = "running" /\ where[p] \in through /\ Cardinality(tracked) < MapSize
  <2>1. Cardinality(tracked) # MapSize
    BY <1>2, FS_CardinalityType DEF CgroupsKept, Shape, WriteAssumption, CgroupAssumption
  <2>2. where[p] \in tracked
    BY <1>2, <2>1 DEF CgroupsKept, RefreshExact
  <2> QED
    BY <1>2, <2>2 DEF Selected, EventTracked, CgroupTracked
<1> QED
  BY <1>1, <1>2 DEF Selected

LEMMA CallsAtFirst == WriteAssumption /\ Init => CallsKept
<1> SUFFICES ASSUME WriteAssumption, Init
             PROVE  CallsKept
  OBVIOUS
<1>1. Entries = {} /\ IsFiniteSet({}) /\ Cardinality({}) = 0 /\ 0 <= CtxSize
  BY FS_EmptySet DEF Init, Entries, WriteAssumption
<1>2. CallsShape
  BY <1>1 DEF Init, CallsShape, None
<1>3. OwnDescriptor
  BY <1>1 DEF Init, OwnDescriptor, None, Entries
<1>4. Surely /\ SelectedAreCounted
  BY DEF Init, Surely, SelectedAreCounted
<1> QED
  BY <1>2, <1>3, <1>4 DEF CallsKept

\* A new call leaves those before it as they are.
LEMMA CallAdded ==
  ASSUME CallsShape, NEW how \in {"recorded", "noRoom", "missed"},
         calls' = Append(calls, how)
  PROVE  /\ calls' \in Seq({"recorded", "noRoom", "missed"})
         /\ Len(calls) \in Nat /\ Len(calls') = Len(calls) + 1
         /\ calls'[Len(calls) + 1] = how
         /\ \A c \in 1 .. Len(calls) : calls'[c] = calls[c]
         /\ \A p \in Procs : current[p] # None =>
              current[p] \in 1 .. Len(calls) /\ calls'[current[p]] = calls[current[p]]
<1>1. /\ calls \in Seq({"recorded", "noRoom", "missed"}) /\ Len(calls) \in Nat
      /\ current \in [Procs -> Nat] /\ \A p \in Procs : current[p] <= Len(calls)
  BY DEF CallsShape
<1>2. /\ calls' \in Seq({"recorded", "noRoom", "missed"}) /\ Len(calls') = Len(calls) + 1
      /\ calls'[Len(calls) + 1] = how
      /\ \A c \in 1 .. Len(calls) : calls'[c] = calls[c]
  BY <1>1
<1>3. \A p \in Procs : current[p] # None => current[p] \in 1 .. Len(calls)
  BY <1>1 DEF None
<1> QED
  BY <1>1, <1>2, <1>3

LEMMA CallsKeptByAct ==
  ASSUME WriteAssumption, CgroupsKept, CallsKept, NEW p \in Procs, NEW readable \in BOOLEAN,
         Act(p, readable)
  PROVE  CallsKept'
<1> DEFINE c == Len(calls) + 1
<1>1. /\ UNCHANGED <<children, target, tracked, phase, through, attached>>
      /\ UNCHANGED <<filterPids, pids, where, current, ctx, sure>>
      /\ calls' = Append(calls, "recorded")
      /\ counted' = IF EventTracked(p) /\ readable THEN counted \cup {[call |-> c, from |-> c]}
                    ELSE counted
      /\ due' = IF Selected(p) /\ readable THEN due \cup {c} ELSE due
  BY DEF Act, cgroupVars, refresh, history
<1>2. CallsShape
  BY DEF CallsKept
<1>3. /\ calls' \in Seq({"recorded", "noRoom", "missed"})
      /\ c \in Nat /\ Len(calls) \in Nat /\ Len(calls') = c
      /\ \A d \in 1 .. Len(calls) : calls'[d] = calls[d]
      /\ \A q \in Procs : current[q] # None =>
           current[q] \in 1 .. Len(calls) /\ calls'[current[q]] = calls[current[q]]
  BY <1>1, <1>2, CallAdded
<1>4. \A r \in counted' : r \in counted \/ (r.call = c /\ r.from = c)
  BY <1>1
<1>5. CallsShape'
  <2>1. \A q \in Procs : current'[q] <= Len(calls')
    BY <1>1, <1>2, <1>3 DEF CallsShape
  <2>2. \A r \in counted' : r.call \in 1 .. Len(calls')
    BY <1>2, <1>3, <1>4 DEF CallsShape
  <2>3. due' \subseteq 1 .. Len(calls')
    <3>1. due' \subseteq due \cup {c} /\ due \subseteq 1 .. Len(calls)
      BY <1>1, <1>2 DEF CallsShape
    <3>2. 1 .. Len(calls) \subseteq 1 .. Len(calls') /\ c \in 1 .. Len(calls')
      BY <1>3
    <3> QED
      BY <3>1, <3>2
  <2> QED
    BY <1>1, <1>2, <1>3, <2>1, <2>2, <2>3 DEF CallsShape, Entries
<1>6. OwnDescriptor'
  <2>1. \A q \in Procs : current'[q] # None /\ calls'[current'[q]] = "recorded" => ctx'[q] = current'[q]
    BY <1>1, <1>3 DEF CallsKept, OwnDescriptor
  <2>2. \A r \in counted' : r.from = r.call \/ calls'[r.call] # "recorded"
    BY <1>2, <1>3, <1>4 DEF CallsKept, OwnDescriptor, CallsShape
  <2> QED
    BY <1>1, <2>1, <2>2 DEF CallsKept, OwnDescriptor
<1>7. Surely'
  BY <1>1, <1>3 DEF CallsKept, Surely, Selected
<1>8. SelectedAreCounted'
  <2>1. counted \subseteq counted'
    BY <1>1
  <2>2. ASSUME NEW d \in due', d \notin due
        PROVE  \E r \in counted' : r.call = d
    <3>1. d = c /\ Selected(p) /\ readable
      BY <1>1, <2>2
    <3>2. [call |-> c, from |-> c] \in counted'
      BY <1>1, <3>1, SelectedIsTracked
    <3> QED
      BY <3>1, <3>2
  <2>3. ASSUME NEW d \in due
        PROVE  calls'[d] = "noRoom" \/ \E r \in counted' : r.call = d
    <3>1. calls'[d] = calls[d]
      BY <1>2, <1>3 DEF CallsShape
    <3> QED
      BY <2>1, <3>1 DEF CallsKept, SelectedAreCounted
  <2> QED
    BY <2>2, <2>3 DEF SelectedAreCounted
<1> QED
  BY <1>5, <1>6, <1>7, <1>8 DEF CallsKept

\* The entry of a call in write_ctx_map, and the map's size
LEMMA StoredEffect ==
  ASSUME WriteAssumption, CallsShape, Cardinality(Entries) <= CtxSize,
         NEW p \in Procs, CtxRoom(p), NEW c \in Nat, ctx' = Stored(p, c)
  PROVE  /\ ctx' \in [Procs -> Nat] /\ ctx'[p] = c
         /\ \A q \in Procs : q # p => ctx'[q] = ctx[q]
         /\ IsFiniteSet(Entries') /\ Cardinality(Entries') <= CtxSize
<1>1. /\ ctx \in [Procs -> Nat] /\ ctx' = [ctx EXCEPT ![p] = c] /\ IsFiniteSet(Entries)
      /\ Cardinality(Entries) \in Nat /\ CtxSize \in Nat
  BY FS_CardinalityType DEF CallsShape, Stored, WriteAssumption
<1>2. Entries' \subseteq Entries \cup {p}
  BY <1>1 DEF Entries
<1>3. IsFiniteSet(Entries \cup {p}) /\ Cardinality(Entries \cup {p}) <= CtxSize
  <2>1. CASE p \in Entries
    <3>1. Entries \cup {p} = Entries
      BY <2>1
    <3> QED
      BY <1>1, <3>1
  <2>2. CASE p \notin Entries
    <3>1. Cardinality(Entries) < CtxSize
      BY <2>2 DEF Entries, CtxRoom
    <3>2. /\ IsFiniteSet(Entries \cup {p})
          /\ Cardinality(Entries \cup {p}) = Cardinality(Entries) + 1
      BY <1>1, <2>2, FS_AddElement
    <3> QED
      BY <1>1, <3>1, <3>2
  <2> QED
    BY <2>1, <2>2
<1>4. /\ IsFiniteSet(Entries') /\ Cardinality(Entries') <= Cardinality(Entries \cup {p})
      /\ Cardinality(Entries') \in Nat /\ Cardinality(Entries \cup {p}) \in Nat
  <2>1. /\ IsFiniteSet(Entries')
        /\ Cardinality(Entries') <= Cardinality(Entries \cup {p})
    BY <1>2, <1>3, FS_Subset
  <2> QED
    BY <1>3, <2>1, FS_CardinalityType
<1> QED
  BY <1>1, <1>3, <1>4

LEMMA CallsKeptByEnter ==
  ASSUME WriteAssumption, CgroupsKept, CallsKept, NEW p \in Procs, Enter(p)
  PROVE  CallsKept'
<1> DEFINE c == Len(calls) + 1
           recorded == attached /\ EventTracked(p) /\ CtxRoom(p)
           how == IF recorded THEN "recorded"
                  ELSE IF attached /\ EventTracked(p) THEN "noRoom" ELSE "missed"
<1>1. /\ UNCHANGED <<children, target, tracked, phase, through, attached>>
      /\ UNCHANGED <<filterPids, pids, where, due, counted>>
      /\ current[p] = None /\ calls' = Append(calls, how)
      /\ current' = [current EXCEPT ![p] = c]
      /\ ctx' = IF recorded THEN Stored(p, c) ELSE ctx
      /\ sure' = IF attached /\ Selected(p) THEN sure \cup {p} ELSE sure \ {p}
  BY DEF Enter, cgroupVars, refresh, history
<1>2. CallsShape /\ OwnDescriptor /\ Surely /\ SelectedAreCounted
  BY DEF CallsKept
<1>3. /\ calls' \in Seq({"recorded", "noRoom", "missed"})
      /\ c \in Nat /\ c # None /\ Len(calls) \in Nat /\ Len(calls') = c /\ calls'[c] = how
      /\ \A d \in 1 .. Len(calls) : calls'[d] = calls[d]
      /\ \A q \in Procs : current[q] # None =>
           current[q] \in 1 .. Len(calls) /\ calls'[current[q]] = calls[current[q]]
  <2>1. how \in {"recorded", "noRoom", "missed"}
    OBVIOUS
  <2> HIDE DEF how
  <2> QED
    BY <1>1, <1>2, <2>1, CallAdded DEF None
<1>4. /\ current \in [Procs -> Nat] /\ current' \in [Procs -> Nat] /\ current'[p] = c
      /\ \A q \in Procs : q # p => current'[q] = current[q]
  <2>1. current \in [Procs -> Nat]
    BY <1>2 DEF CallsShape
  <2> QED
    BY <1>1, <1>3, <2>1
<1>5. /\ ctx' \in [Procs -> Nat] /\ (recorded => ctx'[p] = c)
      /\ \A q \in Procs : q # p => ctx'[q] = ctx[q]
      /\ IsFiniteSet(Entries') /\ Cardinality(Entries') <= CtxSize
  <2>1. Cardinality(Entries) <= CtxSize
    BY <1>2 DEF OwnDescriptor, Entries
  <2>2. CASE recorded
    BY <1>1, <1>2, <1>3, <2>1, <2>2, StoredEffect
  <2>3. CASE ~recorded
    BY <1>1, <1>2, <2>1, <2>3 DEF CallsShape, Entries
  <2> QED
    BY <2>2, <2>3
<1>6. CallsShape'
  <2>1. \A q \in Procs : current'[q] <= Len(calls')
    BY <1>2, <1>3, <1>4 DEF CallsShape
  <2>2. \A r \in counted' : r.call \in 1 .. Len(calls')
    BY <1>1, <1>2, <1>3 DEF CallsShape
  <2>3. due' \subseteq 1 .. Len(calls')
    BY <1>1, <1>2, <1>3 DEF CallsShape
  <2> QED
    BY <1>3, <1>4, <1>5, <2>1, <2>2, <2>3 DEF CallsShape
<1>7. OwnDescriptor'
  <2>1. ASSUME NEW q \in Procs, current'[q] # None, calls'[current'[q]] = "recorded"
        PROVE  ctx'[q] = current'[q]
    <3>1. CASE q = p
      BY <1>3, <1>4, <1>5, <2>1, <3>1
    <3>2. CASE q # p
      BY <1>2, <1>3, <1>4, <1>5, <2>1, <3>2 DEF OwnDescriptor
    <3> QED
      BY <3>1, <3>2
  <2>2. \A r \in counted' : r.from = r.call \/ calls'[r.call] # "recorded"
    BY <1>1, <1>2, <1>3 DEF OwnDescriptor, CallsShape
  <2> QED
    BY <1>5, <2>1, <2>2 DEF OwnDescriptor, Entries
<1>8. Surely'
  <2>1. ASSUME NEW q \in sure'
        PROVE  /\ q \in Procs /\ attached' /\ Selected(q)'
               /\ current'[q] # None => calls'[current'[q]] \in {"recorded", "noRoom"}
    <3>1. Selected(q)' <=> Selected(q)
      BY <1>1 DEF Selected
    <3>2. CASE q = p
      <4>1. attached /\ Selected(p)
        BY <1>1, <2>1, <3>2
      <4>2. EventTracked(p)
        BY <4>1, SelectedIsTracked
      <4>3. calls'[current'[p]] \in {"recorded", "noRoom"}
        BY <1>3, <1>4, <4>1, <4>2
      <4> QED
        BY <1>1, <3>1, <3>2, <4>1, <4>3
    <3>3. CASE q # p
      <4>1. q \in sure
        BY <1>1, <2>1, <3>3
      <4> QED
        BY <1>1, <1>2, <1>3, <1>4, <3>1, <3>3, <4>1 DEF Surely
    <3> QED
      BY <3>2, <3>3
  <2> QED
    BY <2>1 DEF Surely
<1>9. SelectedAreCounted'
  BY <1>1, <1>2, <1>3 DEF SelectedAreCounted, CallsShape
<1> QED
  BY <1>6, <1>7, <1>8, <1>9 DEF CallsKept

LEMMA CallsKeptByExit ==
  ASSUME WriteAssumption, CgroupsKept, CallsKept, NEW p \in Procs, NEW wrote \in BOOLEAN,
         Exit(p, wrote)
  PROVE  CallsKept'
<1> DEFINE c == current[p]
           counts == attached /\ wrote /\ EventTracked(p) /\ ctx[p] # None
<1>1. /\ UNCHANGED <<children, target, tracked, phase, through, attached>>
      /\ UNCHANGED <<filterPids, pids, where, calls, sure>>
      /\ c # None /\ current' = [current EXCEPT ![p] = None]
      /\ IF counts THEN /\ ctx' = [ctx EXCEPT ![p] = None]
                        /\ counted' = counted \cup {[call |-> c, from |-> ctx[p]]}
         ELSE ctx' = ctx /\ counted' = counted
      /\ due' = IF wrote /\ p \in sure THEN due \cup {c} ELSE due
  BY DEF Exit, cgroupVars, refresh, history
<1>2. CallsShape /\ OwnDescriptor /\ Surely /\ SelectedAreCounted
  BY DEF CallsKept
<1>3. /\ current \in [Procs -> Nat] /\ ctx \in [Procs -> Nat] /\ Len(calls) \in Nat
      /\ c \in 1 .. Len(calls)
  BY <1>1, <1>2 DEF CallsShape, None
<1>4. /\ current' \in [Procs -> Nat] /\ current'[p] = None
      /\ \A q \in Procs : q # p => current'[q] = current[q]
  BY <1>1, <1>3 DEF None
<1>5. /\ ctx' \in [Procs -> Nat] /\ \A q \in Procs : q # p => ctx'[q] = ctx[q]
      /\ Entries' \subseteq Entries
  BY <1>1, <1>3 DEF Entries, None
<1>6. IsFiniteSet(Entries') /\ Cardinality(Entries') <= CtxSize
  <2>1. IsFiniteSet(Entries) /\ Cardinality(Entries) <= CtxSize /\ CtxSize \in Nat
    BY <1>2 DEF CallsShape, OwnDescriptor, Entries, WriteAssumption
  <2>2. IsFiniteSet(Entries') /\ Cardinality(Entries') <= Cardinality(Entries)
    BY <1>5, <2>1, FS_Subset
  <2>3. Cardinality(Entries') \in Nat /\ Cardinality(Entries) \in Nat
    BY <2>1, <2>2, FS_CardinalityType
  <2> QED
    BY <2>1, <2>2, <2>3
<1>7. CallsShape'
  <2>1. \A q \in Procs : current'[q] <= Len(calls')
    BY <1>1, <1>2, <1>3, <1>4 DEF CallsShape, None
  <2>2. \A r \in counted' : r.call \in 1 .. Len(calls')
    BY <1>1, <1>2, <1>3 DEF CallsShape
  <2>3. due' \subseteq 1 .. Len(calls')
    BY <1>1, <1>2, <1>3 DEF CallsShape
  <2> QED
    BY <1>1, <1>2, <1>4, <1>5, <1>6, <2>1, <2>2, <2>3 DEF CallsShape
<1>8. OwnDescriptor'
  <2>1. \A q \in Procs :
          current'[q] # None /\ calls'[current'[q]] = "recorded" => ctx'[q] = current'[q]
    BY <1>1, <1>2, <1>4, <1>5 DEF OwnDescriptor
  <2>2. \A r \in counted' : r.from = r.call \/ calls'[r.call] # "recorded"
    BY <1>1, <1>2, <1>3 DEF OwnDescriptor
  <2> QED
    BY <1>6, <2>1, <2>2 DEF OwnDescriptor, Entries
<1>9. Surely'
  BY <1>1, <1>2, <1>4 DEF Surely, Selected
<1>10. SelectedAreCounted'
  <2>1. ASSUME wrote, p \in sure, calls[c] # "noRoom"
        PROVE  [call |-> c, from |-> ctx[p]] \in counted'
    <3>1. attached /\ Selected(p) /\ calls[c] = "recorded"
      BY <1>1, <1>2, <2>1 DEF Surely
    <3>2. EventTracked(p) /\ ctx[p] # None
      BY <1>1, <1>2, <3>1, SelectedIsTracked DEF OwnDescriptor
    <3> QED
      BY <1>1, <2>1, <3>1, <3>2
  <2>2. counted \subseteq counted'
    BY <1>1
  <2>3. ASSUME NEW d \in due', calls'[d] # "noRoom"
        PROVE  \E r \in counted' : r.call = d
    <3>1. CASE d \in due
      BY <1>1, <1>2, <2>2, <2>3, <3>1 DEF SelectedAreCounted
    <3>2. CASE d \notin due
      <4>1. d = c /\ wrote /\ p \in sure
        BY <1>1, <2>3, <3>2
      <4>2. [call |-> c, from |-> ctx[p]] \in counted'
        BY <1>1, <2>1, <2>3, <4>1
      <4> QED
        BY <4>1, <4>2
    <3> QED
      BY <3>1, <3>2
  <2> QED
    BY <2>3 DEF SelectedAreCounted
<1> QED
  BY <1>7, <1>8, <1>9, <1>10 DEF CallsKept

\* Steps that make and end no call keep what is known of the calls, if those that
\* stay sure stay selected.
LEMMA CallsKeptElse ==
  ASSUME CallsKept, UNCHANGED <<calls, current, ctx, due, counted>>, sure' \subseteq sure,
         \A p \in sure' : Selected(p) /\ attached => Selected(p)' /\ attached'
  PROVE  CallsKept'
<1>1. CallsShape'
  BY DEF CallsKept, CallsShape, Entries
<1>2. OwnDescriptor' /\ SelectedAreCounted'
  BY DEF CallsKept, OwnDescriptor, SelectedAreCounted
<1>3. Surely'
  BY DEF CallsKept, Surely
<1> QED
  BY <1>1, <1>2, <1>3 DEF CallsKept

LEMMA CallsKeptByRefresh == CgroupsKept /\ CallsKept /\ Refresh => CallsKept'
<1> SUFFICES ASSUME CgroupsKept, CallsKept, Refresh
             PROVE  CallsKept'
  OBVIOUS
<1>1. /\ Populate /\ UNCHANGED <<filterPids, pids, where, calls, current, ctx, due, counted>>
      /\ sure' = IF phase' = "running" THEN sure ELSE {p \in sure : where[p] = target}
  BY DEF Refresh
<1>2. UNCHANGED <<children, target>> /\ (attached => attached')
  <2>1. CASE Attach
    BY <2>1 DEF Attach
  <2>2. CASE ~Attach
    <3>1. UNCHANGED <<children, target>> /\ attached' = attached
      BY <1>1, <2>2 DEF Populate, BeginRefresh, Clear, Cleared, AddRoot, Visit, CloseDir
    <3> QED
      BY <3>1
  <2> QED
    BY <2>1, <2>2
<1>3. phase = "running" /\ phase' = "running" => UNCHANGED <<tracked, through>>
  BY <1>1 DEF Populate, BeginRefresh, Clear, Cleared, AddRoot, Visit, CloseDir, Attach, history
<1>4. ASSUME NEW p \in sure', Selected(p)
      PROVE  Selected(p)'
  <2>1. CASE where[p] = target
    BY <1>1, <1>2, <1>4, <2>1 DEF Selected
  <2>2. CASE where[p] # target
    <3>1. phase = "running" /\ phase' = "running"
      BY <1>1, <1>4, <2>2 DEF Selected
    <3> QED
      BY <1>1, <1>2, <1>3, <1>4, <3>1 DEF Selected
  <2> QED
    BY <2>1, <2>2
<1> QED
  BY <1>1, <1>2, <1>4, CallsKeptElse

LEMMA CallsKeptByCgroups == CallsKept /\ Cgroups => CallsKept'
<1> SUFFICES ASSUME CallsKept, NEW p \in Paths, UNCHANGED procVars,
                    Mkdir(p) \/ (Rmdir(p) /\ \A q \in Procs : where[q] # IdOf(p))
             PROVE  CallsKept'
  BY DEF Cgroups
<1>1. /\ UNCHANGED <<calls, current, ctx, due, counted, sure, filterPids, pids, where>>
      /\ UNCHANGED <<children, target, phase, tracked, attached>>
  BY DEF procVars, Mkdir, Rmdir, refresh
<1>2. ASSUME NEW q \in sure, Selected(q)
      PROVE  Selected(q)'
  <2>1. q \in Procs
    BY DEF CallsKept, Surely
  <2>2. where[q] \in through => where[q] \in through'
    BY <2>1 DEF Mkdir, Rmdir
  <2> QED
    BY <1>1, <1>2, <2>2 DEF Selected
<1> QED
  BY <1>1, <1>2, CallsKeptElse

LEMMA CallsKeptByMove ==
  ASSUME CallsKept, Placed, NEW p \in Procs, Track(p) \/ \E id \in live : Move(p, id)
  PROVE  CallsKept'
<1>1. /\ UNCHANGED <<calls, current, ctx, due, counted, filterPids>>
      /\ UNCHANGED <<children, target, phase, tracked, attached, through>>
      /\ sure' = sure \ {p}
      /\ \/ where' = where /\ pids' = (IF p \in pids THEN pids \ {p} ELSE pids \cup {p})
         \/ pids' = pids /\ \E id \in live : where' = [where EXCEPT ![p] = id]
  BY DEF Track, Move, cgroupVars, refresh, history
<1>2. ASSUME NEW q \in sure', Selected(q)
      PROVE  Selected(q)'
  <2>1. q \in Procs /\ q # p
    BY <1>1 DEF CallsKept, Surely
  <2>2. where'[q] = where[q]
    BY <1>1, <2>1 DEF Placed
  <2>3. q \in pids' <=> q \in pids
    BY <1>1, <2>1
  <2> QED
    BY <1>1, <1>2, <2>2, <2>3 DEF Selected
<1> QED
  BY <1>1, <1>2, CallsKeptElse

-----------------------------------------------------------------------------
LEMMA KeptByNext ==
  ASSUME WriteAssumption, CgroupsKept, CallsKept, Placed, [Next]_vars
  PROVE  CgroupsKept' /\ CallsKept' /\ Placed'
<1>0. Placed'
  BY DEF Next, Placed, Refresh, Cgroups, Act, Enter, Exit, Track, Move, vars, procVars
<1>1. CASE Refresh
  BY <1>0, <1>1, KeptByPopulate, CallsKeptByRefresh DEF Refresh
<1>2. CASE Cgroups
  BY <1>0, <1>2, KeptByCgroups, CallsKeptByCgroups
<1>3. UNCHANGED cgroupVars => CgroupsKept'
  <2> SUFFICES ASSUME UNCHANGED cgroupVars
               PROVE  CgroupsKept'
    OBVIOUS
  <2>1. UNCHANGED <<children, live, born, tracked, attached, phase, walk, through, during>>
        /\ UNCHANGED <<tree, history>>
    BY DEF cgroupVars, tree, refresh, history
  <2>2. Tree' /\ Lived'
    BY <2>1, TreeStays DEF CgroupsKept
  <2>3. Shape' /\ RefreshExact'
    BY <2>1 DEF CgroupsKept, Shape, RefreshExact
  <2>4. phase = "walk" => Walking'
    BY <2>1 DEF CgroupsKept, Walking, Met, Pending, IdOf
  <2> QED
    BY <2>1, <2>2, <2>3, <2>4 DEF CgroupsKept
<1>4. CASE \E p \in Procs, readable \in BOOLEAN : Act(p, readable)
  BY <1>0, <1>3, <1>4, CallsKeptByAct DEF Act
<1>5. CASE \E p \in Procs : Enter(p)
  BY <1>0, <1>3, <1>5, CallsKeptByEnter DEF Enter
<1>6. CASE \E p \in Procs : \E wrote \in BOOLEAN : Exit(p, wrote)
  BY <1>0, <1>3, <1>6, CallsKeptByExit DEF Exit
<1>7. CASE \E p \in Procs : Track(p) \/ \E id \in live : Move(p, id)
  BY <1>0, <1>3, <1>7, CallsKeptByMove DEF Track, Move
<1>8. CASE UNCHANGED vars
  <2>1. UNCHANGED cgroupVars /\ UNCHANGED <<calls, current, ctx, due, counted, sure>>
        /\ UNCHANGED <<filterPids, pids, where, children, target, phase, tracked, through, attached>>
    BY <1>8 DEF vars, procVars, cgroupVars, refresh, history
  <2>2. \A p : Selected(p)' <=> Selected(p)
    BY <2>1 DEF Selected
  <2> QED
    BY <1>0, <1>3, <2>1, <2>2, CallsKeptElse
<1> QED
  BY <1>1, <1>2, <1>4, <1>5, <1>6, <1>7, <1>8 DEF Next

LEMMA WritesPart == CountingSpec => Spec
<1>1. CountingInit => Init
  BY DEF CountingInit
<1>2. [CountingNext]_<<part, vars, agVars, opVars>> => [Next]_vars
  BY DEF CountingNext
<1> QED
  BY <1>1, <1>2, PTL DEF CountingSpec, Spec

LEMMA AlwaysKept == CountingSpec => [](CgroupsKept /\ CallsKept)
<1>0. WriteAssumption
  BY CountingAssumption
<1>1. Init => CgroupsKept /\ CallsKept /\ Placed
  BY <1>0, CgroupsAtFirst, CallsAtFirst DEF Init, Placed
<1>2. CgroupsKept /\ CallsKept /\ Placed /\ [Next]_vars => (CgroupsKept /\ CallsKept /\ Placed)'
  BY <1>0, KeptByNext
<1> QED
  BY <1>1, <1>2, WritesPart, PTL DEF Spec

\* populate_cgroup_filter_map: wherever the tree changes while it walks, the map then
\* has every cgroup of the subtree that was there all the time, unless it is full, and
\* none that was not in the subtree meanwhile.
THEOREM RefreshesAreExact == CountingSpec => []RefreshExact
<1>1. CgroupsKept => RefreshExact
  BY DEF CgroupsKept
<1> QED
  BY <1>1, AlwaysKept, PTL

\* trace_write_exit_common: a write whose entry was recorded is counted under its own
\* descriptor, whatever others have left in write_ctx_map.
THEOREM DescriptorsAreOwn == CountingSpec => []OwnDescriptor
<1>1. CallsKept => OwnDescriptor
  BY DEF CallsKept
<1> QED
  BY <1>1, AlwaysKept, PTL

\* is_event_tracked: what the filters select from the entry of a call to its exit is
\* counted, unless write_ctx_map had no room.
THEOREM NoneIsMissed == CountingSpec => []SelectedAreCounted
<1>1. CallsKept => SelectedAreCounted
  BY DEF CallsKept
<1> QED
  BY <1>1, AlwaysKept, PTL

-----------------------------------------------------------------------------
\* Sums of functions on finite sets, as Functions defines them: an element is
\* chosen, and the others are summed.
Chosen(s) == CHOOSE x \in s : TRUE

Sums(f, S, sum) ==
  \A s \in SUBSET S :
    sum[s] = IF s = {} THEN 0 ELSE f[Chosen(s)] + sum[s \ {Chosen(s)}]

UpTo(S, n) == {s \in SUBSET S : Cardinality(s) <= n}

SumsUpTo(f, S, n, sum) ==
  \A s \in SUBSET S : Cardinality(s) <= n =>
    sum[s] = IF s = {} THEN 0 ELSE f[Chosen(s)] + sum[s \ {Chosen(s)}]

LEMMA LeastOf ==
  ASSUME NEW T, T \subseteq Nat, T # {}
  PROVE  \E x \in T : \A y \in T : x <= y
<1>1. IsWellFoundedOn(OpToRel(<, Nat), Nat)
  BY NatLessThanWellFounded
<1>2. PICK x \in T : \A y \in T : ~ (<<y, x>> \in OpToRel(<, Nat))
  BY <1>1, WFMin
<1>3. \A y \in T : ~ (y < x)
  BY <1>2 DEF OpToRel
<1> QED
  BY <1>3

LEMMA ChosenIn == \A s : s # {} => Chosen(s) \in s
BY DEF Chosen

\* A smallest set among finite ones
LEMMA SmallestOf ==
  ASSUME NEW S, IsFiniteSet(S), NEW F, F \subseteq SUBSET S, F # {}
  PROVE  \E s \in F : \A t \in F : Cardinality(s) <= Cardinality(t)
<1> DEFINE sizes == {Cardinality(s) : s \in F}
<1>1. \A s \in F : Cardinality(s) \in Nat
  BY FS_Subset, FS_CardinalityType
<1>2. sizes \subseteq Nat /\ sizes # {}
  BY <1>1
<1>3. \E x \in sizes : \A y \in sizes : x <= y
  <2> HIDE DEF sizes
  <2> QED
    BY <1>2, LeastOf
<1> QED
  BY <1>3

LEMMA SmallerWithout ==
  ASSUME NEW S, IsFiniteSet(S), NEW s \in SUBSET S, s # {}
  PROVE  /\ Chosen(s) \in s /\ s \ {Chosen(s)} \in SUBSET S
         /\ Cardinality(s \ {Chosen(s)}) \in Nat /\ Cardinality(s) \in Nat
         /\ Cardinality(s \ {Chosen(s)}) = Cardinality(s) - 1
<1>1. Chosen(s) \in s
  BY ChosenIn
<1>2. IsFiniteSet(s)
  BY FS_Subset
<1>3. /\ IsFiniteSet(s \ {Chosen(s)})
      /\ Cardinality(s \ {Chosen(s)}) = Cardinality(s) - 1
  BY <1>1, <1>2, FS_RemoveElement
<1> QED
  BY <1>1, <1>2, <1>3, FS_CardinalityType

\* The sums of the subsets up to a size exist,
LEMMA SumsExist ==
  ASSUME NEW S, IsFiniteSet(S), NEW f \in [S -> Nat], NEW n \in Nat
  PROVE  \E sum \in [UpTo(S, n) -> Nat] : SumsUpTo(f, S, n, sum)
<1> DEFINE D(m) == {s \in SUBSET S : Cardinality(s) <= m}
           Good(m, sum) == \A s \in SUBSET S : Cardinality(s) <= m =>
             sum[s] = IF s = {} THEN 0 ELSE f[Chosen(s)] + sum[s \ {Chosen(s)}]
           Bad == {m \in Nat : ~ \E sum \in [D(m) -> Nat] : Good(m, sum)}
<1>0. \A s \in SUBSET S : IsFiniteSet(s) /\ Cardinality(s) \in Nat
  BY FS_Subset, FS_CardinalityType
<1>00. \A s \in SUBSET S : s # {} => /\ Chosen(s) \in S /\ s \ {Chosen(s)} \in SUBSET S
                                     /\ Cardinality(s \ {Chosen(s)}) = Cardinality(s) - 1
                                     /\ Cardinality(s) - 1 \in Nat
  BY SmallerWithout
<1>1. SUFFICES ASSUME Bad # {}
               PROVE  FALSE
  BY DEF UpTo, SumsUpTo
<1>2. PICK m \in Bad : \A k \in Bad : m <= k
  <2> HIDE DEF Bad
  <2>1. Bad \subseteq Nat
    BY DEF Bad
  <2> QED
    BY <1>1, <2>1, LeastOf
<1>3. m # 0
  <2> SUFFICES ASSUME m = 0
               PROVE  FALSE
    OBVIOUS
  <2> DEFINE sum == [s \in D(0) |-> 0]
  <2>1. ASSUME NEW s \in SUBSET S, Cardinality(s) <= 0
        PROVE  s = {}
    <3>1. s # {} => Cardinality(s) - 1 \in Nat
      BY <1>00
    <3>2. Cardinality(s) \in Nat
      BY <1>0
    <3> QED
      BY <2>1, <3>1, <3>2
  <2>2. sum \in [D(0) -> Nat] /\ Good(0, sum)
    <3>1. \A s \in SUBSET S : Cardinality(s) <= 0 => s = {} /\ sum[s] = 0
      BY <2>1
    <3> QED
      BY <3>1
  <2> QED
    <3> HIDE DEF sum, Good, D
    <3> QED
      BY <1>2, <2>2 DEF Bad
<1>4. m - 1 \in Nat /\ m - 1 \notin Bad /\ m \in Nat
  <2>1. m \in Nat
    OBVIOUS
  <2> HIDE DEF Bad
  <2>2. m - 1 \in Nat /\ ~(m <= m - 1)
    BY <2>1, <1>3
  <2> QED
    BY <1>2, <2>1, <2>2
<1>5. PICK less \in [D(m - 1) -> Nat] : Good(m - 1, less)
  BY <1>4
<1> DEFINE sum == [s \in D(m) |-> IF s = {} THEN 0 ELSE f[Chosen(s)] + less[s \ {Chosen(s)}]]
<1>6. ASSUME NEW s \in D(m), s # {}
      PROVE  s \ {Chosen(s)} \in D(m - 1) /\ f[Chosen(s)] \in Nat
  <2>1. s \in SUBSET S /\ Cardinality(s) <= m /\ Cardinality(s) \in Nat
    BY <1>0
  <2>2. /\ Chosen(s) \in S /\ s \ {Chosen(s)} \in SUBSET S
        /\ Cardinality(s \ {Chosen(s)}) = Cardinality(s) - 1
    BY <1>00, <1>6, <2>1
  <2>3. Cardinality(s) - 1 <= m - 1
    BY <2>1, <1>4
  <2> QED
    BY <2>2, <2>3
<1>7. sum \in [D(m) -> Nat]
  <2>1. \A s \in D(m) : s # {} => less[s \ {Chosen(s)}] \in Nat
    BY <1>6, <1>5
  <2> QED
    BY <2>1, <1>6
<1>8. \A s \in D(m - 1) : sum[s] = less[s]
  BY <1>0, <1>4, <1>5
<1>9. Good(m, sum)
  <2> SUFFICES ASSUME NEW s \in SUBSET S, Cardinality(s) <= m
               PROVE  sum[s] = IF s = {} THEN 0 ELSE f[Chosen(s)] + sum[s \ {Chosen(s)}]
    OBVIOUS
  <2>1. s \in D(m)
    OBVIOUS
  <2> QED
    BY <2>1, <1>6, <1>8
<1> QED
  <2> HIDE DEF sum, Good, D
  <2> QED
    BY <1>2, <1>7, <1>9 DEF Bad

\* so that a sum is the last of them.
LEMMA SumIsSums ==
  ASSUME NEW S, IsFiniteSet(S), NEW f \in [S -> Nat]
  PROVE  \E sum \in [SUBSET S -> Nat] : Sums(f, S, sum) /\ Map!SumFunction(f) = sum[S]
<1> DEFINE Is(iter) == iter = [s \in SUBSET S |-> IF s = {} THEN 0 ELSE
              f[CHOOSE x \in s : TRUE] + iter[s \ {CHOOSE x \in s : TRUE}]]
<1>1. DOMAIN f = S
  OBVIOUS
<1>2. Map!SumFunction(f) = (CHOOSE iter : Is(iter))[S]
  BY <1>1 DEF Map!SumFunction, Map!SumFunctionOnSet, Map!FoldFunctionOnSet, Map!MapThenFoldSet
<1>3. Cardinality(S) \in Nat /\ \A s \in SUBSET S : Cardinality(s) <= Cardinality(S)
  BY FS_CardinalityType, FS_Subset
<1>4. PICK sum \in [UpTo(S, Cardinality(S)) -> Nat] : SumsUpTo(f, S, Cardinality(S), sum)
  BY <1>3, SumsExist
<1>5. UpTo(S, Cardinality(S)) = SUBSET S
  BY <1>3 DEF UpTo
<1>6. sum \in [SUBSET S -> Nat]
  BY <1>4, <1>5
<1>7. \A s \in SUBSET S : sum[s] = IF s = {} THEN 0 ELSE f[Chosen(s)] + sum[s \ {Chosen(s)}]
  BY <1>3, <1>4 DEF SumsUpTo
<1>8. Is(sum)
  BY <1>6, <1>7, Zenon DEF Chosen
<1> DEFINE it == CHOOSE iter : Is(iter)
<1>9. Is(it)
  <2> HIDE DEF Is
  <2> QED
    BY <1>8
<1>10. Sums(f, S, it)
  <2> HIDE DEF it
  <2> QED
    BY <1>9 DEF Sums, Chosen
<1>11. it \in [SUBSET S -> Nat]
  <2>1. \A s \in SUBSET S : it[s] = sum[s]
    <3> DEFINE Wrong == {s \in SUBSET S : it[s] # sum[s]}
    <3> SUFFICES ASSUME Wrong # {}
                 PROVE  FALSE
      OBVIOUS
    <3> HIDE DEF it
    <3>1. PICK s \in Wrong : \A t \in Wrong : Cardinality(s) <= Cardinality(t)
      <4>1. Wrong \subseteq SUBSET S
        OBVIOUS
      <4> HIDE DEF Wrong
      <4> QED
        BY <4>1, SmallestOf
    <3>2. s # {}
      BY <1>7, <1>10 DEF Sums
    <3>3. s \ {Chosen(s)} \in SUBSET S /\ s \ {Chosen(s)} \notin Wrong
      BY <3>1, <3>2, SmallerWithout
    <3> QED
      BY <1>7, <1>10, <3>1, <3>2, <3>3 DEF Sums
  <2>2. it = [s \in SUBSET S |-> it[s]]
    <3> HIDE DEF it
    <3> QED
      BY <1>9
  <2> QED
    <3> HIDE DEF it
    <3> QED
      BY <1>6, <2>1, <2>2
<1> QED
  <2> HIDE DEF Is
  <2> QED
    BY <1>2, <1>10, <1>11

LEMMA SumType ==
  ASSUME NEW S, IsFiniteSet(S), NEW f \in [S -> Nat]
  PROVE  Map!SumFunction(f) \in Nat
<1>1. PICK sum \in [SUBSET S -> Nat] : Sums(f, S, sum) /\ Map!SumFunction(f) = sum[S]
  BY SumIsSums
<1> QED
  BY <1>1

\* Nothing adds up to nothing.
LEMMA SumOfZeros ==
  ASSUME NEW S, IsFiniteSet(S), NEW f \in [S -> Nat], \A x \in S : f[x] = 0
  PROVE  Map!SumFunction(f) = 0
<1>1. PICK sum \in [SUBSET S -> Nat] : Sums(f, S, sum) /\ Map!SumFunction(f) = sum[S]
  BY SumIsSums
<1> DEFINE Wrong == {s \in SUBSET S : sum[s] # 0}
<1>2. SUFFICES ASSUME Wrong # {}
               PROVE  FALSE
  BY <1>1
<1>3. PICK s \in Wrong : \A t \in Wrong : Cardinality(s) <= Cardinality(t)
  <2>1. Wrong \subseteq SUBSET S
    OBVIOUS
  <2> HIDE DEF Wrong
  <2> QED
    BY <1>2, <2>1, SmallestOf
<1>4. s \in SUBSET S /\ sum[s] # 0 /\ s # {}
  BY <1>1 DEF Sums
<1>5. Chosen(s) \in s /\ s \ {Chosen(s)} \in SUBSET S /\ s \ {Chosen(s)} \notin Wrong
  BY <1>3, <1>4, SmallerWithout
<1>6. sum[s] = f[Chosen(s)] + sum[s \ {Chosen(s)}]
  BY <1>1, <1>4 DEF Sums
<1> QED
  BY <1>4, <1>5, <1>6

\* A sum changes with one of its terms.
DifferAt(f, g, S, x) ==
  /\ IsFiniteSet(S) /\ f \in [S -> Nat] /\ g \in [S -> Nat] /\ x \in S
  /\ \A y \in S \ {x} : f[y] = g[y]

LEMMA SumChanges ==
  ASSUME NEW S, NEW f, NEW g, NEW x, DifferAt(f, g, S, x)
  PROVE  Map!SumFunction(f) + g[x] = Map!SumFunction(g) + f[x]
<1> USE DEF DifferAt
<1>1. PICK sum \in [SUBSET S -> Nat] : Sums(f, S, sum) /\ Map!SumFunction(f) = sum[S]
  BY SumIsSums
<1>2. PICK other \in [SUBSET S -> Nat] : Sums(g, S, other) /\ Map!SumFunction(g) = other[S]
  BY SumIsSums
<1> DEFINE Right(s) == IF x \in s THEN sum[s] + g[x] = other[s] + f[x] ELSE sum[s] = other[s]
           Wrong == {s \in SUBSET S : ~Right(s)}
<1>3. SUFFICES ASSUME Wrong # {}
               PROVE  FALSE
  <2>1. Wrong = {} => Right(S)
    OBVIOUS
  <2> QED
    BY <1>1, <1>2, <1>3, <2>1
<1>4. PICK s \in Wrong : \A t \in Wrong : Cardinality(s) <= Cardinality(t)
  <2>1. Wrong \subseteq SUBSET S
    OBVIOUS
  <2> HIDE DEF Wrong
  <2> QED
    BY <1>3, <2>1, SmallestOf
<1>5. s \in SUBSET S /\ ~Right(s)
  OBVIOUS
<1>6. s # {}
  BY <1>1, <1>2, <1>5 DEF Sums
<1> DEFINE c == Chosen(s)
           r == s \ {Chosen(s)}
<1>7. c \in s /\ r \in SUBSET S /\ Right(r)
  <2>1. Chosen(s) \in s /\ r \in SUBSET S /\ r \notin Wrong
    BY <1>4, <1>6, SmallerWithout
  <2> QED
    BY <2>1
<1>8. sum[s] = f[c] + sum[r] /\ other[s] = g[c] + other[r]
  BY <1>1, <1>2, <1>5, <1>6 DEF Sums
<1>9. /\ f[c] \in Nat /\ g[c] \in Nat /\ f[x] \in Nat /\ g[x] \in Nat
      /\ sum[r] \in Nat /\ other[r] \in Nat
  BY <1>5, <1>7
<1>10. CASE c = x
  <2>1. x \notin r
    BY <1>10
  <2>2. sum[r] = other[r]
    BY <1>7, <2>1
  <2> QED
    BY <1>5, <1>7, <1>8, <1>9, <1>10, <2>2
<1>11. CASE c # x
  <2>1. f[c] = g[c] /\ (x \in r <=> x \in s)
    BY <1>5, <1>7, <1>11
  <2> HIDE DEF r, c
  <2>2. CASE x \in s
    BY <1>5, <1>7, <1>8, <1>9, <2>1, <2>2
  <2>3. CASE x \notin s
    BY <1>5, <1>7, <1>8, <1>9, <2>1, <2>3
  <2> QED
    BY <2>2, <2>3
<1> QED
  BY <1>10, <1>11

\* Any term can be summed first.
Summing(f, S, sum) ==
  IsFiniteSet(S) /\ f \in [S -> Nat] /\ sum \in [SUBSET S -> Nat] /\ Sums(f, S, sum)

LEMMA SumFirst ==
  ASSUME NEW S, NEW f, NEW sum, Summing(f, S, sum), NEW s, s \subseteq S, NEW x, x \in s
  PROVE  sum[s] = f[x] + sum[s \ {x}]
<1> USE DEF Summing
<1> DEFINE Fits(t) == \A y \in t : sum[t] = f[y] + sum[t \ {y}]
           Wrong == {t \in SUBSET S : ~Fits(t)}
<1>1. SUFFICES ASSUME Wrong # {}
               PROVE  FALSE
  OBVIOUS
<1>2. PICK t \in Wrong : \A v \in Wrong : Cardinality(t) <= Cardinality(v)
  <2>1. Wrong \subseteq SUBSET S
    OBVIOUS
  <2> HIDE DEF Wrong
  <2> QED
    BY <1>1, <2>1, SmallestOf
<1>3. PICK y \in t : sum[t] # f[y] + sum[t \ {y}]
  OBVIOUS
<1>4. t \in SUBSET S /\ t # {} /\ IsFiniteSet(t)
  BY <1>3, FS_Subset
<1>5. ASSUME NEW z \in t
      PROVE  t \ {z} \in SUBSET S /\ Fits(t \ {z})
  <2>1. IsFiniteSet(t \ {z}) /\ Cardinality(t \ {z}) = Cardinality(t) - 1
    BY <1>4, FS_RemoveElement
  <2>2. Cardinality(t) \in Nat /\ ~(Cardinality(t) <= Cardinality(t \ {z}))
    BY <1>4, <2>1, FS_CardinalityType
  <2>3. t \ {z} \notin Wrong
    <3> HIDE DEF Wrong
    <3> QED
      BY <1>2, <2>2
  <2> QED
    BY <1>4, <2>3
<1> DEFINE c == Chosen(t)
<1>6. c \in t /\ sum[t] = f[c] + sum[t \ {c}]
  BY <1>4, ChosenIn DEF Sums
<1> HIDE DEF c
<1>7. c # y /\ c \in t \ {y} /\ y \in t \ {c}
  BY <1>3, <1>6
<1>8. sum[t \ {c}] = f[y] + sum[(t \ {c}) \ {y}] /\ sum[t \ {y}] = f[c] + sum[(t \ {y}) \ {c}]
  BY <1>5, <1>6, <1>7
<1>9. (t \ {c}) \ {y} = (t \ {y}) \ {c} /\ (t \ {y}) \ {c} \in SUBSET S
  BY <1>4
<1>10. f[c] \in Nat /\ f[y] \in Nat /\ sum[(t \ {y}) \ {c}] \in Nat
  BY <1>4, <1>6, <1>9
<1> DEFINE rest == sum[(t \ {y}) \ {c}]
<1>11. /\ sum[t] = f[c] + (f[y] + rest) /\ f[y] + sum[t \ {y}] = f[y] + (f[c] + rest)
       /\ rest \in Nat
  BY <1>6, <1>8, <1>9, <1>10
<1> HIDE DEF rest
<1> QED
  BY <1>3, <1>10, <1>11

\* Terms that are nothing can be left out.
Extends(f, S, g, T) ==
  /\ IsFiniteSet(S) /\ T \in SUBSET S /\ f \in [S -> Nat] /\ g \in [T -> Nat]
  /\ \A x \in S : f[x] = IF x \in T THEN g[x] ELSE 0

LEMMA SumOfPart ==
  ASSUME NEW S, NEW T, NEW f, NEW g, Extends(f, S, g, T)
  PROVE  Map!SumFunction(f) = Map!SumFunction(g)
<1> USE DEF Extends
<1>0. IsFiniteSet(T)
  BY FS_Subset
<1>1. PICK sum \in [SUBSET S -> Nat] : Sums(f, S, sum) /\ Map!SumFunction(f) = sum[S]
  BY SumIsSums
<1>2. PICK part_ \in [SUBSET T -> Nat] : Sums(g, T, part_) /\ Map!SumFunction(g) = part_[T]
  BY <1>0, SumIsSums
<1> DEFINE Wrong == {s \in SUBSET S : sum[s] # part_[s \cap T]}
<1>3. SUFFICES ASSUME Wrong # {}
               PROVE  FALSE
  <2>1. Wrong = {} => sum[S] = part_[S \cap T]
    OBVIOUS
  <2>2. S \cap T = T
    OBVIOUS
  <2> QED
    BY <1>1, <1>2, <1>3, <2>1, <2>2
<1>4. PICK s \in Wrong : \A t \in Wrong : Cardinality(s) <= Cardinality(t)
  <2>1. Wrong \subseteq SUBSET S
    OBVIOUS
  <2> HIDE DEF Wrong
  <2> QED
    BY <1>3, <2>1, SmallestOf
<1>5. s \in SUBSET S /\ sum[s] # part_[s \cap T] /\ s \cap T \in SUBSET T
  OBVIOUS
<1>6. s # {}
  <2> SUFFICES ASSUME s = {}
               PROVE  FALSE
    OBVIOUS
  <2>1. s \cap T = {} /\ {} \in SUBSET S /\ {} \in SUBSET T
    OBVIOUS
  <2>2. sum[{}] = 0 /\ part_[{}] = 0
    BY <1>1, <1>2, <2>1 DEF Sums
  <2> QED
    BY <1>5, <2>1, <2>2
<1> DEFINE c == Chosen(s)
<1>7. c \in s /\ s \ {c} \in SUBSET S /\ s \ {c} \notin Wrong
  <2>1. /\ Chosen(s) \in s /\ s \ {Chosen(s)} \in SUBSET S
        /\ ~(Cardinality(s) <= Cardinality(s \ {Chosen(s)}))
    <3>1. /\ Chosen(s) \in s /\ s \ {Chosen(s)} \in SUBSET S /\ Cardinality(s) \in Nat
          /\ Cardinality(s \ {Chosen(s)}) = Cardinality(s) - 1
      BY <1>5, <1>6, SmallerWithout, Zenon
    <3> QED
      BY <3>1
  <2> HIDE DEF Wrong
  <2> QED
    BY <1>4, <2>1
<1>8. sum[s] = f[c] + sum[s \ {c}] /\ sum[s \ {c}] = part_[(s \ {c}) \cap T]
  BY <1>1, <1>5, <1>6, <1>7 DEF Sums
<1> HIDE DEF c
<1>9. sum[s \ {c}] \in Nat
  BY <1>7
<1>10. CASE c \in T
  <2>1. part_[s \cap T] = g[c] + part_[(s \cap T) \ {c}]
    <3>1. c \in s \cap T
      BY <1>7, <1>10
    <3> DEFINE both == s \cap T
    <3>2. both \in SUBSET T /\ c \in both
      BY <3>1
    <3> HIDE DEF both, Wrong
    <3>3. Summing(g, T, part_)
      BY <1>0, <1>2 DEF Summing
    <3>4. part_[both] = g[c] + part_[both \ {c}]
      <4> HIDE DEF c
      <4> QED
        BY <3>2, <3>3, SumFirst
    <3> QED
      BY <3>4 DEF both
  <2>2. (s \cap T) \ {c} = (s \ {c}) \cap T /\ f[c] = g[c]
    BY <1>7, <1>10
  <2> QED
    BY <1>5, <1>8, <2>1, <2>2
<1>11. CASE c \notin T
  <2>1. s \cap T = (s \ {c}) \cap T /\ f[c] = 0
    BY <1>5, <1>7, <1>11
  <2>2. sum[s] = sum[s \ {c}]
    BY <1>8, <1>9, <2>1
  <2> QED
    BY <1>5, <1>8, <2>1, <2>2
<1> QED
  BY <1>10, <1>11

-----------------------------------------------------------------------------
\* The aggregation map
LEMMA AgWords ==
  /\ \A S : Map!Cardinality(S) = Cardinality(S)
  /\ \A S : Map!IsFiniteSet(S) <=> IsFiniteSet(S)
BY DEF Map!Cardinality, Cardinality, Map!IsFiniteSet, IsFiniteSet

LEMMA AgAssumed ==
  /\ IsFiniteSet(AgCpus) /\ IsFiniteSet(AgKeys) /\ AgKeys \subseteq Nat
  /\ \A k \in AgKeys : AgPidOf[k] # AgNone
  /\ AgDelCap \in Nat /\ AgOps \in Nat
  /\ AgNone \notin AgKeys /\ AgNone \notin AgElems
BY CountingAssumption, AgWords DEF Map!AggMapAssumption

\* What is on a CPU, in an element, and how far a probe is
AgShape ==
  /\ agIndex \in [AgKeys -> AgElems \cup {AgNone}]
  /\ agContent \in [AgElems -> [key : AgKeys \cup {AgNone}, count : Nat]]
  /\ agCpu \in [AgCpus -> [pc : {"idle", "add", "insert"}, key : AgKeys \cup {AgNone},
                           elem : AgElems \cup {AgNone}]]
  /\ agOverflow \in [AgCpus -> Nat]
  /\ agIssued \in Nat /\ agIssued <= AgOps /\ agPrinted \in Nat /\ agWarned \in Nat
  /\ \A c \in AgCpus : agCpu[c].pc # "idle" => agCpu[c].key \in AgKeys
  /\ \A c \in AgCpus : agCpu[c].pc = "add" => agCpu[c].elem \in AgElems
  /\ \A k \in Map!InMap : agContent[agIndex[k]].key = k
  /\ \A c \in AgCpus : agOverflow[c] + (IF agCpu[c].pc = "idle" THEN 0 ELSE 1) <= agIssued

\* The main thread holds what is in the map alone, each key once, in the
\* order of the walk.
Held == {agUser.toDelete[i] : i \in 1 .. Len(agUser.toDelete)}

AgWalk ==
  /\ agUser = [pc |-> agUser.pc, cursor |-> agUser.cursor, pid |-> agUser.pid,
               toDelete |-> agUser.toDelete]
  /\ agUser.pc \in {"idle", "all", "delete", "pid", "deleting", "ended", "check", "reset"}
  /\ agUser.cursor \in AgKeys \cup {AgNone}
  /\ agUser.toDelete \in Seq(AgKeys) /\ Len(agUser.toDelete) <= AgDelCap
  /\ agUser.pc \notin {"pid", "deleting"} => agUser.toDelete = << >>
  /\ agUser.pc = "delete" => agUser.cursor \in Map!InMap
  /\ agUser.pc = "pid" =>
       /\ agUser.cursor \in Map!InMap \cup {AgNone}
       /\ \A k \in Held : agUser.cursor # AgNone /\ k <= agUser.cursor
  /\ agUser.pc \in {"pid", "deleting"} => agUser.pid # AgNone
  /\ agUser.pc \in {"all", "delete"} => agUser.pid = AgNone
  /\ \A k \in Held : k \in Map!InMap /\ AgPidOf[k] = agUser.pid
  /\ \A i, j \in 1 .. Len(agUser.toDelete) : agUser.toDelete[i] = agUser.toDelete[j] => i = j

\* What was counted, and is yet to be reported
Printed == IF agUser.pc = "delete" THEN {agUser.cursor} ELSE Held
Unprinted == Map!InMap \ Printed
Counts == [k \in AgKeys |-> IF k \in Unprinted THEN agContent[agIndex[k]].count ELSE 0]
Overflows == IF agUser.pc = "reset" THEN 0 ELSE Map!SumFunction(agOverflow)
Busy == {c \in AgCpus : agCpu[c].pc # "idle"}
Total == agPrinted + agWarned + Map!SumFunction(Counts) + Overflows + Cardinality(Busy)

\* Probes that have the map to themselves add to what they have looked up.
Alone ==
  /\ agUser.pc # "idle" => \A c \in AgCpus : agCpu[c].pc = "idle"
  /\ \A c \in AgCpus : agCpu[c].pc = "add" => agIndex[agCpu[c].key] = agCpu[c].elem

\* A flush that has the map to itself has been everywhere up to where it is.
Flushed ==
  /\ agUser.pc = "all" => agUser.cursor = AgNone \/ agIndex[agUser.cursor] = AgNone
  /\ agUser.pc = "pid" =>
       \A k \in Map!InMap : AgPidOf[k] = agUser.pid /\ agUser.cursor # AgNone /\ k <= agUser.cursor
         => k \in Held
  /\ agUser.pc = "deleting" => \A k \in Map!InMap : AgPidOf[k] = agUser.pid => k \in Held
  /\ agUser.pc = "ended" => \A k \in Map!InMap : agUser.pid # AgNone /\ AgPidOf[k] # agUser.pid

AgKept ==
  /\ AgShape /\ AgWalk
  /\ Map!PidsFit => Total <= agIssued
  /\ ~agOverlap => Alone
  /\ Map!PidsFit /\ ~agOverlap => Total = agIssued /\ Flushed

-----------------------------------------------------------------------------
\* The shape
LEMMA InMapIs == Map!InMap = {k \in AgKeys : agIndex[k] # AgNone}
BY DEF Map!InMap

LEMMA AgShapeByLookup ==
  ASSUME AgShape, NEW c \in AgCpus, NEW k \in AgKeys, Map!Lookup(c, k)
  PROVE  AgShape'
<1>1. /\ agIssued' = agIssued + 1 /\ agIssued < AgOps /\ agCpu[c].pc = "idle"
      /\ UNCHANGED <<agIndex, agContent, agOverflow, agPrinted, agWarned>>
      /\ agCpu' = [agCpu EXCEPT ![c] = [pc |-> IF agIndex[k] = AgNone THEN "insert" ELSE "add",
                                        key |-> k, elem |-> agIndex[k]]]
  BY DEF Map!Lookup
<1>2. agIndex[k] \in AgElems \cup {AgNone} /\ AgOps \in Nat /\ agIssued' \in Nat /\ agIssued' <= AgOps
  BY <1>1, AgAssumed DEF AgShape
<1>3. /\ agCpu' \in [AgCpus -> [pc : {"idle", "add", "insert"}, key : AgKeys \cup {AgNone},
                           elem : AgElems \cup {AgNone}]]
      /\ \A d \in AgCpus : agCpu'[d].pc # "idle" => agCpu'[d].key \in AgKeys
      /\ \A d \in AgCpus : agCpu'[d].pc = "add" => agCpu'[d].elem \in AgElems
  BY <1>1, <1>2 DEF AgShape
<1>4. \A d \in AgCpus : agOverflow'[d] + (IF agCpu'[d].pc = "idle" THEN 0 ELSE 1) <= agIssued'
  BY <1>1 DEF AgShape
<1> QED
  BY <1>1, <1>2, <1>3, <1>4 DEF AgShape, Map!InMap

LEMMA AgCpuFreed ==
  ASSUME AgShape, NEW c \in AgCpus, agCpu' = [agCpu EXCEPT ![c] = Map!Idle]
  PROVE  /\ agCpu' \in [AgCpus -> [pc : {"idle", "add", "insert"}, key : AgKeys \cup {AgNone},
                           elem : AgElems \cup {AgNone}]]
         /\ \A d \in AgCpus : agCpu'[d].pc # "idle" => agCpu'[d].key \in AgKeys
         /\ \A d \in AgCpus : agCpu'[d].pc = "add" => agCpu'[d].elem \in AgElems
         /\ agCpu'[c].pc = "idle" /\ \A d \in AgCpus \ {c} : agCpu'[d] = agCpu[d]
BY DEF AgShape, Map!Idle

LEMMA AgShapeByAdd ==
  ASSUME AgShape, NEW c \in AgCpus, Map!AddToElement(c)
  PROVE  AgShape'
<1> DEFINE e == agCpu[c].elem
<1>1. /\ agCpu' = [agCpu EXCEPT ![c] = Map!Idle] /\ agCpu[c].pc = "add"
      /\ UNCHANGED <<agIndex, agOverflow, agIssued, agPrinted, agWarned>>
      /\ agContent' = [agContent EXCEPT ![e].count = @ + 1]
  BY DEF Map!AddToElement
<1>2. e \in AgElems
  BY <1>1 DEF AgShape
<1> HIDE DEF e
<1>3. /\ agContent' \in [AgElems -> [key : AgKeys \cup {AgNone}, count : Nat]]
      /\ \A d \in AgElems : agContent'[d].key = agContent[d].key
  BY <1>1, <1>2 DEF AgShape
<1>4. \A k \in Map!InMap' : agContent'[agIndex'[k]].key = k
  BY <1>1, <1>3, AgAssumed DEF AgShape, Map!InMap
<1>5. \A d \in AgCpus : agOverflow'[d] + (IF agCpu'[d].pc = "idle" THEN 0 ELSE 1) <= agIssued'
  BY <1>1, AgCpuFreed DEF AgShape
<1> QED
  BY <1>1, <1>3, <1>4, <1>5, AgCpuFreed DEF AgShape

\* Inserting: into an element that no key has, or into none.
LEMMA AgInserted ==
  ASSUME AgShape, NEW c \in AgCpus, Map!Insert(c)
  PROVE  LET k == agCpu[c].key IN
         /\ k \in AgKeys /\ agCpu[c].pc = "insert"
         /\ agCpu' = [agCpu EXCEPT ![c] = Map!Idle]
         /\ agOverlap' = (agOverlap \/ agUser.pc # "idle")
         /\ UNCHANGED <<agIssued, agUser, agPrinted, agWarned>>
         /\ \/ /\ k \notin Map!InMap /\ agOverflow' = agOverflow
               /\ \E e \in AgElems :
                    /\ \A j \in Map!InMap : agIndex[j] # e
                    /\ agIndex' = [agIndex EXCEPT ![k] = e]
                    /\ agContent' = [agContent EXCEPT ![e] = [key |-> k, count |-> 1]]
            \/ /\ agOverflow' = [agOverflow EXCEPT ![c] = @ + 1]
               /\ UNCHANGED <<agIndex, agContent>>
BY DEF AgShape, Map!Insert, Map!FreeElems, Map!InMap, Map!ProbeStep

LEMMA AgShapeByInsert ==
  ASSUME AgShape, NEW c \in AgCpus, Map!Insert(c)
  PROVE  AgShape'
<1> DEFINE k == agCpu[c].key
<1>1. /\ k \in AgKeys /\ agCpu[c].pc = "insert" /\ agCpu' = [agCpu EXCEPT ![c] = Map!Idle]
      /\ UNCHANGED <<agIssued, agUser, agPrinted, agWarned>>
  BY AgInserted
<1>2. CASE /\ k \notin Map!InMap /\ agOverflow' = agOverflow
           /\ \E e \in AgElems :
                /\ \A j \in Map!InMap : agIndex[j] # e
                /\ agIndex' = [agIndex EXCEPT ![k] = e]
                /\ agContent' = [agContent EXCEPT ![e] = [key |-> k, count |-> 1]]
  <2>1. PICK e \in AgElems :
          /\ \A j \in Map!InMap : agIndex[j] # e
          /\ agIndex' = [agIndex EXCEPT ![k] = e]
          /\ agContent' = [agContent EXCEPT ![e] = [key |-> k, count |-> 1]]
    BY <1>2
  <2> HIDE DEF k
  <2>2. /\ agIndex' \in [AgKeys -> AgElems \cup {AgNone}]
        /\ agContent' \in [AgElems -> [key : AgKeys \cup {AgNone}, count : Nat]]
    BY <1>1, <2>1 DEF AgShape
  <2>3. ASSUME NEW j \in Map!InMap'
        PROVE  agContent'[agIndex'[j]].key = j
    <3>1. j \in AgKeys /\ agIndex'[j] # AgNone
      BY DEF Map!InMap
    <3>2. CASE j = k
      BY <1>1, <2>1, <3>2 DEF AgShape
    <3>3. CASE j # k
      <4>1. agIndex'[j] = agIndex[j] /\ j \in Map!InMap
        BY <1>1, <2>1, <3>1, <3>3 DEF AgShape, Map!InMap
      <4>2. agIndex[j] \in AgElems /\ agIndex[j] # e
        BY <2>1, <4>1 DEF AgShape, Map!InMap
      <4>3. agContent'[agIndex[j]] = agContent[agIndex[j]]
        BY <2>1, <4>2 DEF AgShape
      <4> QED
        BY <4>1, <4>3 DEF AgShape
    <3> QED
      BY <3>2, <3>3
  <2>4. \A d \in AgCpus : agOverflow'[d] + (IF agCpu'[d].pc = "idle" THEN 0 ELSE 1) <= agIssued'
    BY <1>1, <1>2, AgCpuFreed DEF AgShape
  <2> QED
    BY <1>1, <1>2, <2>2, <2>3, <2>4, AgCpuFreed DEF AgShape
<1>3. CASE agOverflow' = [agOverflow EXCEPT ![c] = @ + 1] /\ UNCHANGED <<agIndex, agContent>>
  <2>1. agOverflow' \in [AgCpus -> Nat] /\ Map!InMap' = Map!InMap
    BY <1>3 DEF AgShape, Map!InMap
  <2>2. \A d \in AgCpus : agOverflow'[d] + (IF agCpu'[d].pc = "idle" THEN 0 ELSE 1) <= agIssued'
    <3>1. agOverflow'[c] = agOverflow[c] + 1 /\ agOverflow[c] \in Nat /\ agOverflow[c] + 1 <= agIssued
      BY <1>1, <1>3 DEF AgShape
    <3>2. agCpu'[c].pc = "idle" /\ agOverflow'[c] + 0 <= agIssued'
      <4>1. agCpu'[c].pc = "idle"
        BY <1>1, AgCpuFreed
      <4> QED
        BY <1>1, <3>1, <4>1
    <3>3. ASSUME NEW d \in AgCpus \ {c}
          PROVE  agOverflow'[d] + (IF agCpu'[d].pc = "idle" THEN 0 ELSE 1) <= agIssued'
      <4>1. agOverflow'[d] = agOverflow[d] /\ agCpu'[d] = agCpu[d]
        BY <1>1, <1>3, AgCpuFreed DEF AgShape
      <4> QED
        BY <1>1, <4>1 DEF AgShape
    <3> QED
      BY <3>2, <3>3
  <2> QED
    BY <1>1, <1>3, <2>1, <2>2, AgCpuFreed DEF AgShape
<1> QED
  BY <1>2, <1>3, AgInserted

\* What the main thread does with the map: nothing, or one key less.
LEMMA AgShapeByUser ==
  ASSUME AgShape, UNCHANGED <<agContent, agCpu, agIssued>>,
         agIndex' = agIndex \/ \E k \in AgKeys : agIndex' = [agIndex EXCEPT ![k] = AgNone],
         agOverflow' = agOverflow \/ agOverflow' = [c \in AgCpus |-> 0],
         agPrinted' \in Nat, agWarned' \in Nat
  PROVE  AgShape'
<1>1. /\ agIndex' \in [AgKeys -> AgElems \cup {AgNone}]
      /\ \A k \in Map!InMap' : k \in Map!InMap /\ agIndex'[k] = agIndex[k]
  BY DEF AgShape, Map!InMap
<1>2. \A k \in Map!InMap' : agContent'[agIndex'[k]].key = k
  BY <1>1 DEF AgShape
<1>3. /\ agOverflow' \in [AgCpus -> Nat]
      /\ \A c \in AgCpus : agOverflow'[c] + (IF agCpu'[c].pc = "idle" THEN 0 ELSE 1) <= agIssued'
  BY DEF AgShape
<1> QED
  BY <1>1, <1>2, <1>3 DEF AgShape

-----------------------------------------------------------------------------
\* The walk
LEMMA AgNext ==
  ASSUME NEW k \in Map!NextKey(agUser.cursor)
  PROVE  /\ k \in Map!InMap
         /\ agUser.cursor \in Map!InMap => k > agUser.cursor
         /\ \A j \in Map!InMap :
              agUser.cursor = AgNone \/ agIndex[agUser.cursor] = AgNone \/ j > agUser.cursor
                => k <= j
BY AgAssumed DEF Map!NextKey, Map!InMap

\* The end of the walk
LEMMA AgLast ==
  ASSUME Map!NextKey(agUser.cursor) = {}, NEW j \in Map!InMap
  PROVE  /\ agUser.cursor # AgNone /\ agIndex[agUser.cursor] # AgNone
         /\ ~ (j > agUser.cursor)
<1> SUFFICES ASSUME agUser.cursor = AgNone \/ agIndex[agUser.cursor] = AgNone \/ j > agUser.cursor
             PROVE  FALSE
  OBVIOUS
<1> DEFINE after == {i \in Map!InMap : \/ agUser.cursor = AgNone \/ agIndex[agUser.cursor] = AgNone
                                       \/ i > agUser.cursor}
<1>1. after # {} /\ after \subseteq Nat
  BY AgAssumed DEF Map!InMap
<1>2. \E k \in after : \A i \in after : k <= i
  <2> HIDE DEF after
  <2> QED
    BY <1>1, LeastOf
<1> QED
  BY <1>2 DEF Map!NextKey

LEMMA AgWalkByProbe ==
  ASSUME AgWalk, agUser' = agUser, \A k \in Map!InMap : k \in Map!InMap'
  PROVE  AgWalk'
<1>1. Held' = Held
  BY DEF Held
<1> QED
  BY <1>1 DEF AgWalk

\* A record with nothing to delete
LEMMA AgWalkEmpty ==
  ASSUME NEW pc, NEW cursor, NEW pid,
         agUser' = [pc |-> pc, cursor |-> cursor, pid |-> pid, toDelete |-> << >>],
         pc \in {"idle", "all", "delete", "pid", "deleting", "ended", "check", "reset"},
         cursor \in AgKeys \cup {AgNone},
         pc = "delete" => cursor \in Map!InMap',
         pc = "pid" => cursor \in Map!InMap' \cup {AgNone},
         pc \in {"pid", "deleting"} => pid # AgNone,
         pc \in {"all", "delete"} => pid = AgNone
  PROVE  AgWalk' /\ Held' = {}
<1>1. Held' = {} /\ agUser'.toDelete = << >> /\ agUser'.pc = pc /\ agUser'.pid = pid
      /\ agUser'.cursor = cursor
  BY DEF Held
<1> QED
  BY <1>1, AgAssumed DEF AgWalk

-----------------------------------------------------------------------------
\* The total
LEMMA CountsType == AgShape => Counts \in [AgKeys -> Nat]
<1> SUFFICES ASSUME AgShape PROVE Counts \in [AgKeys -> Nat]
  OBVIOUS
<1>1. \A k \in Unprinted : agContent[agIndex[k]].count \in Nat
  BY DEF AgShape, Unprinted, Map!InMap
<1> QED
  BY <1>1 DEF Counts

LEMMA CountsTypeNext == (AgShape => Counts \in [AgKeys -> Nat])'
BY CountsType, PTL

LEMMA TotalTypes ==
  ASSUME AgShape
  PROVE  /\ Counts \in [AgKeys -> Nat] /\ Map!SumFunction(Counts) \in Nat
         /\ Map!SumFunction(agOverflow) \in Nat /\ Overflows \in Nat
         /\ IsFiniteSet(Busy) /\ Cardinality(Busy) \in Nat /\ Total \in Nat
<1>1. Counts \in [AgKeys -> Nat]
  BY CountsType
<1>2. Map!SumFunction(Counts) \in Nat
  BY <1>1, AgAssumed, SumType
<1>3. Map!SumFunction(agOverflow) \in Nat
  BY AgAssumed, SumType DEF AgShape
<1>4. IsFiniteSet(Busy) /\ Cardinality(Busy) \in Nat
  <2>1. Busy \in SUBSET AgCpus
    BY DEF Busy
  <2> QED
    BY <2>1, AgAssumed, FS_Subset, FS_CardinalityType
<1>5. Overflows \in Nat
  BY <1>3 DEF Overflows
<1>6. agPrinted \in Nat /\ agWarned \in Nat
  BY DEF AgShape
<1> QED
  BY <1>1, <1>2, <1>3, <1>4, <1>5, <1>6 DEF Total

LEMMA TotalIsNat == AgShape => Total \in Nat
BY TotalTypes

LEMMA TotalNext == (AgShape => Total \in Nat)'
BY TotalIsNat, PTL

LEMMA CountsStay ==
  ASSUME Unprinted' = Unprinted,
         \A k \in Unprinted : agContent'[agIndex'[k]].count = agContent[agIndex[k]].count
  PROVE  Counts' = Counts
BY DEF Counts

LEMMA CountsChange ==
  ASSUME AgShape, AgShape', NEW k \in AgKeys, \A j \in AgKeys \ {k} : Counts'[j] = Counts[j]
  PROVE  /\ Map!SumFunction(Counts)' + Counts[k] = Map!SumFunction(Counts) + Counts'[k]
         /\ Map!SumFunction(Counts)' \in Nat
<1>0. Counts' \in [AgKeys -> Nat]
  BY CountsTypeNext
<1>1. DifferAt(Counts', Counts, AgKeys, k)
  BY <1>0, CountsType, AgAssumed DEF DifferAt
<1>2. Map!SumFunction(Counts') + Counts[k] = Map!SumFunction(Counts) + Counts'[k]
  BY <1>1, SumChanges
<1>3. Map!SumFunction(Counts') \in Nat
  BY <1>0, AgAssumed, SumType
<1> QED
  BY <1>2, <1>3

\* A probe begins, or ends.
LEMMA BusyMore ==
  ASSUME AgShape, NEW c \in AgCpus, agCpu[c].pc = "idle", agCpu'[c].pc # "idle",
         \A d \in AgCpus \ {c} : agCpu'[d] = agCpu[d]
  PROVE  Cardinality(Busy)' = Cardinality(Busy) + 1
<1>1. Busy' = Busy \cup {c} /\ c \notin Busy
  BY DEF Busy
<1>2. Cardinality(Busy \cup {c}) = Cardinality(Busy) + 1
  BY <1>1, TotalTypes, FS_AddElement
<1> QED
  BY <1>1, <1>2

LEMMA BusyLess ==
  ASSUME AgShape, NEW c \in AgCpus, agCpu[c].pc # "idle", agCpu' = [agCpu EXCEPT ![c] = Map!Idle]
  PROVE  Cardinality(Busy)' = Cardinality(Busy) - 1
<1>1. Busy' = Busy \ {c} /\ c \in Busy
  BY AgCpuFreed DEF Busy
<1>2. Cardinality(Busy \ {c}) = Cardinality(Busy) - 1
  BY <1>1, TotalTypes, FS_RemoveElement
<1> QED
  BY <1>1, <1>2

LEMMA BusySame ==
  ASSUME agCpu' = agCpu
  PROVE  Cardinality(Busy)' = Cardinality(Busy)
<1>1. Busy' = Busy
  BY DEF Busy
<1> QED
  BY <1>1

-----------------------------------------------------------------------------
\* An operation is looked up,
LEMMA TotalByLookup ==
  ASSUME AgShape, NEW c \in AgCpus, NEW k \in AgKeys, Map!Lookup(c, k)
  PROVE  Total' = Total + 1 /\ agIssued' = agIssued + 1
<1>1. /\ agIssued' = agIssued + 1 /\ agCpu[c].pc = "idle" /\ agCpu'[c].pc # "idle"
      /\ \A d \in AgCpus \ {c} : agCpu'[d] = agCpu[d]
      /\ UNCHANGED <<agIndex, agContent, agOverflow, agUser, agPrinted, agWarned>>
  BY DEF Map!Lookup, AgShape
<1>2. Counts' = Counts /\ Overflows' = Overflows
  BY <1>1 DEF Counts, Unprinted, Map!InMap, Printed, Held, Overflows
<1>3. Cardinality(Busy)' = Cardinality(Busy) + 1
  BY <1>1, BusyMore
<1>4. Map!SumFunction(Counts)' = Map!SumFunction(Counts)
  BY <1>2
<1> QED
  BY <1>1, <1>2, <1>3, <1>4, TotalTypes DEF Total, AgShape

\* added to the element, which may be in the map no more,
LEMMA TotalByAdd ==
  ASSUME AgShape, AgShape', NEW c \in AgCpus, Map!AddToElement(c)
  PROVE  /\ Total' <= Total /\ agIssued' = agIssued
         /\ agUser.pc = "idle" /\ Alone /\ AgWalk => Total' = Total
<1> DEFINE e == agCpu[c].elem
<1>1. /\ agCpu' = [agCpu EXCEPT ![c] = Map!Idle] /\ agCpu[c].pc = "add"
      /\ UNCHANGED <<agIndex, agOverflow, agIssued, agUser, agPrinted, agWarned>>
      /\ agContent' = [agContent EXCEPT ![e].count = @ + 1]
  BY DEF Map!AddToElement
<1>2. e \in AgElems
  BY <1>1 DEF AgShape
<1>3. Unprinted' = Unprinted /\ Overflows' = Overflows
  BY <1>1 DEF Unprinted, Map!InMap, Printed, Held, Overflows
<1>4. Cardinality(Busy)' = Cardinality(Busy) - 1
  BY <1>1, BusyLess
<1>5. CASE \E k \in Unprinted : agIndex[k] = e
  <2>1. PICK k \in Unprinted : agIndex[k] = e
    BY <1>5
  <2>2. k \in AgKeys /\ k \in Map!InMap
    BY DEF Unprinted, Map!InMap
  <2>3. ASSUME NEW j \in AgKeys \ {k}
        PROVE  Counts'[j] = Counts[j]
    <3>1. CASE j \in Unprinted
      <4>1. agIndex[j] # e /\ agIndex[j] \in AgElems
        BY <2>1, <2>2, <3>1 DEF AgShape, Unprinted, Map!InMap
      <4>2. agContent'[agIndex'[j]].count = agContent[agIndex[j]].count
        BY <1>1, <4>1 DEF AgShape
      <4> QED
        BY <1>3, <3>1, <4>2 DEF Counts
    <3>2. CASE j \notin Unprinted
      BY <1>3, <3>2 DEF Counts
    <3> QED
      BY <3>1, <3>2
  <2>4. Counts[k] \in Nat /\ Counts'[k] = Counts[k] + 1
    <3>1. agContent'[e].count = agContent[e].count + 1
      BY <1>1, <1>2 DEF AgShape
    <3>2. Counts[k] = agContent[e].count /\ Counts'[k] = agContent'[e].count
      BY <1>1, <1>3, <2>1, <2>2 DEF Counts
    <3>3. agContent[e].count \in Nat
      BY <1>2 DEF AgShape
    <3> QED
      BY <3>1, <3>2, <3>3
  <2>5. /\ Map!SumFunction(Counts)' + Counts[k] = Map!SumFunction(Counts) + Counts'[k]
        /\ Map!SumFunction(Counts)' \in Nat
    BY <2>2, <2>3, CountsChange
  <2>6. Map!SumFunction(Counts)' = Map!SumFunction(Counts) + 1
    BY <2>4, <2>5, TotalTypes
  <2>7. Total' = Total
    BY <1>1, <1>3, <1>4, <2>6, TotalTypes DEF Total, AgShape
  <2> QED
    BY <1>1, <2>7, TotalTypes
<1>6. CASE \A k \in Unprinted : agIndex[k] # e
  <2>1. Counts' = Counts
    <3>1. \A k \in Unprinted : agContent'[agIndex'[k]].count = agContent[agIndex[k]].count
      BY <1>1, <1>6 DEF AgShape, Unprinted, Map!InMap
    <3> QED
      BY <1>3, <3>1, CountsStay
  <2>2. Map!SumFunction(Counts)' = Map!SumFunction(Counts)
    BY <2>1
  <2>3. Total' = Total - 1
    BY <1>1, <1>3, <1>4, <2>2, TotalTypes DEF Total, AgShape
  <2>4. ~(agUser.pc = "idle" /\ Alone /\ AgWalk)
    <3> SUFFICES ASSUME agUser.pc = "idle", Alone, AgWalk
                 PROVE  FALSE
      OBVIOUS
    <3>1. agCpu[c].key \in AgKeys /\ agIndex[agCpu[c].key] = e
      BY <1>1 DEF Alone, AgShape
    <3>2. agUser.toDelete = << >>
      BY DEF AgWalk
    <3>3. Printed = {}
      BY <3>2 DEF Printed, Held
    <3>4. agCpu[c].key \in Unprinted
      BY <1>2, <3>1, <3>3, AgAssumed DEF Unprinted, Map!InMap
    <3> QED
      BY <1>6, <3>1, <3>4
  <2> QED
    BY <1>1, <2>3, <2>4, TotalTypes
<1> QED
  BY <1>5, <1>6

\* or inserted, or counted as overflow.
LEMMA TotalByInsert ==
  ASSUME AgShape, AgShape', AgWalk, NEW c \in AgCpus, Map!Insert(c)
  PROVE  /\ Total' <= Total /\ agIssued' = agIssued
         /\ agUser.pc # "reset" => Total' = Total
<1> DEFINE k == agCpu[c].key
<1>1. /\ k \in AgKeys /\ agCpu[c].pc = "insert" /\ agCpu' = [agCpu EXCEPT ![c] = Map!Idle]
      /\ UNCHANGED <<agIssued, agUser, agPrinted, agWarned>>
  BY AgInserted
<1>2. Cardinality(Busy)' = Cardinality(Busy) - 1
  BY <1>1, BusyLess
<1>3. CASE /\ k \notin Map!InMap /\ agOverflow' = agOverflow
           /\ \E e \in AgElems :
                /\ \A j \in Map!InMap : agIndex[j] # e
                /\ agIndex' = [agIndex EXCEPT ![k] = e]
                /\ agContent' = [agContent EXCEPT ![e] = [key |-> k, count |-> 1]]
  <2>1. PICK e \in AgElems :
          /\ \A j \in Map!InMap : agIndex[j] # e
          /\ agIndex' = [agIndex EXCEPT ![k] = e]
          /\ agContent' = [agContent EXCEPT ![e] = [key |-> k, count |-> 1]]
    BY <1>3
  <2> HIDE DEF k
  <2>2. Map!InMap' = Map!InMap \cup {k} /\ agIndex'[k] = e /\ agContent'[e].count = 1
    BY <1>1, <2>1, AgAssumed DEF AgShape, Map!InMap
  <2>3. Printed' = Printed /\ k \notin Printed /\ Overflows' = Overflows
    <3>1. Printed' = Printed /\ Overflows' = Overflows
      BY <1>1, <1>3 DEF Printed, Held, Overflows
    <3>2. Printed \subseteq Map!InMap
      BY DEF Printed, AgWalk
    <3> QED
      BY <1>3, <3>1, <3>2
  <2>4. Unprinted' = Unprinted \cup {k} /\ k \notin Unprinted
    BY <1>3, <2>2, <2>3 DEF Unprinted
  <2>5. Counts[k] = 0 /\ Counts'[k] = 1
    BY <1>1, <2>2, <2>4 DEF Counts
  <2>6. ASSUME NEW j \in AgKeys \ {k}
        PROVE  Counts'[j] = Counts[j]
    <3>1. CASE j \in Unprinted
      <4>1. agIndex[j] # e /\ agIndex[j] \in AgElems /\ agIndex'[j] = agIndex[j]
        BY <1>1, <2>1, <3>1 DEF AgShape, Unprinted, Map!InMap
      <4>2. agContent'[agIndex'[j]].count = agContent[agIndex[j]].count
        BY <2>1, <4>1 DEF AgShape
      <4> QED
        BY <2>4, <3>1, <4>2 DEF Counts
    <3>2. CASE j \notin Unprinted
      BY <2>4, <3>2 DEF Counts
    <3> QED
      BY <3>1, <3>2
  <2>7. /\ Map!SumFunction(Counts)' + Counts[k] = Map!SumFunction(Counts) + Counts'[k]
        /\ Map!SumFunction(Counts)' \in Nat
    BY <1>1, <2>6, CountsChange
  <2>8. Map!SumFunction(Counts)' = Map!SumFunction(Counts) + 1
    BY <2>5, <2>7, TotalTypes
  <2>9. Total' = Total
    BY <1>1, <1>2, <2>3, <2>8, TotalTypes DEF Total, AgShape
  <2> QED
    BY <1>1, <2>9, TotalTypes
<1>4. CASE agOverflow' = [agOverflow EXCEPT ![c] = @ + 1] /\ UNCHANGED <<agIndex, agContent>>
  <2>1. Counts' = Counts
    BY <1>1, <1>4 DEF Counts, Unprinted, Map!InMap, Printed, Held
  <2>2. Map!SumFunction(Counts)' = Map!SumFunction(Counts)
    BY <2>1
  <2>3. Map!SumFunction(agOverflow') = Map!SumFunction(agOverflow) + 1
    <3>1. DifferAt(agOverflow', agOverflow, AgCpus, c)
      BY <1>4, AgAssumed DEF DifferAt, AgShape
    <3>2. Map!SumFunction(agOverflow') + agOverflow[c] = Map!SumFunction(agOverflow) + agOverflow'[c]
      BY <3>1, SumChanges
    <3>3. agOverflow'[c] = agOverflow[c] + 1 /\ agOverflow[c] \in Nat
      BY <1>4 DEF AgShape
    <3>4. Map!SumFunction(agOverflow') \in Nat
      BY <3>1, SumType DEF DifferAt
    <3> QED
      BY <3>2, <3>3, <3>4, TotalTypes
  <2>4. CASE agUser.pc = "reset"
    <3>1. Overflows' = 0 /\ Overflows = 0
      BY <1>1, <2>4 DEF Overflows
    <3>2. Total' = Total - 1
      BY <1>1, <1>2, <2>2, <3>1, TotalTypes DEF Total, AgShape
    <3> QED
      BY <1>1, <2>4, <3>2, TotalTypes
  <2>5. CASE agUser.pc # "reset"
    <3>1. Overflows' = Overflows + 1
      BY <1>1, <2>3, <2>5 DEF Overflows
    <3>2. Total' = Total
      BY <1>1, <1>2, <2>2, <3>1, TotalTypes DEF Total, AgShape
    <3> QED
      BY <1>1, <3>2, TotalTypes
  <2> QED
    BY <2>4, <2>5
<1> QED
  BY <1>3, <1>4, AgInserted

-----------------------------------------------------------------------------
\* What the main thread does leaves the total as it is.
UserKept ==
  /\ AgShape' /\ AgWalk' /\ agIssued' = agIssued
  /\ Map!PidsFit => Total' = Total
  /\ ~agOverlap' /\ (~agOverlap => Alone) => Alone'
  /\ Map!PidsFit /\ ~agOverlap' /\ (~agOverlap => Flushed) => Flushed'

\* It leaves it if what is to be printed stays.
LEMMA TotalSame ==
  ASSUME AgShape, UNCHANGED <<agContent, agCpu, agPrinted, agWarned>>, Overflows' = Overflows,
         Unprinted' = Unprinted, \A k \in Unprinted : agIndex'[k] = agIndex[k]
  PROVE  Total' = Total
<1>1. Counts' = Counts
  BY CountsStay
<1>2. Map!SumFunction(Counts)' = Map!SumFunction(Counts)
  BY <1>1
<1> QED
  BY <1>2, BusySame DEF Total

\* A flush or a check begins, or a flush returns.
LEMMA UserKeptByBegin ==
  ASSUME AgShape, AgWalk, NEW pc \in {"all", "pid", "check"}, NEW pid, Map!Begin(pc, pid),
         pc = "pid" => pid # AgNone, pc = "all" => pid = AgNone
  PROVE  UserKept
<1>1. /\ agUser.pc = "idle"
      /\ agUser' = [pc |-> pc, cursor |-> AgNone, pid |-> pid, toDelete |-> << >>]
      /\ agOverlap' = (agOverlap \/ \E c \in AgCpus : agCpu[c].pc # "idle")
      /\ UNCHANGED <<agIndex, agContent, agCpu, agOverflow, agIssued, agPrinted, agWarned>>
  BY DEF Map!Begin, Map!Rest, Map!probes
<1>2. AgWalk' /\ Held' = {}
  BY <1>1, AgWalkEmpty
<1>3. AgShape'
  BY <1>1, AgShapeByUser DEF AgShape
<1>4. Held = {}
  BY <1>1 DEF AgWalk, Held
<1>5. Unprinted' = Unprinted /\ Overflows' = Overflows
  BY <1>1, <1>2, <1>4 DEF Unprinted, Printed, Map!InMap, Overflows
<1>6. Total' = Total
  BY <1>1, <1>5, TotalSame
<1>7. ~agOverlap' /\ (~agOverlap => Alone) => Alone'
  BY <1>1 DEF Alone
<1>8. Flushed'
  BY <1>1 DEF Flushed
<1> QED
  BY <1>1, <1>2, <1>3, <1>6, <1>7, <1>8 DEF UserKept

\* An entry is printed, and deleted at once or when its PID's have been.
LEMMA UserKeptByVisitAll ==
  ASSUME AgShape, AgWalk, Map!VisitAll
  PROVE  UserKept
<1>1. PICK k \in Map!NextKey(agUser.cursor) :
        /\ agPrinted' = agPrinted + agContent[agIndex[k]].count
        /\ agUser' = [agUser EXCEPT !.pc = "delete", !.cursor = k]
  BY DEF Map!VisitAll
<1>2. /\ agUser.pc = "all"
      /\ UNCHANGED <<agIndex, agContent, agCpu, agOverflow, agIssued, agWarned, agOverlap>>
  BY DEF Map!VisitAll, Map!probes
<1>3. k \in Map!InMap /\ k \in AgKeys /\ agContent[agIndex[k]].count \in Nat
  BY AgNext DEF Map!InMap, AgShape
<1>4. /\ agUser' = [pc |-> "delete", cursor |-> k, pid |-> AgNone, toDelete |-> << >>]
      /\ Held = {} /\ Map!InMap' = Map!InMap
  <2>1. /\ agUser = [pc |-> agUser.pc, cursor |-> agUser.cursor, pid |-> agUser.pid,
                     toDelete |-> agUser.toDelete]
        /\ agUser.toDelete = << >> /\ agUser.pid = AgNone
    BY <1>2 DEF AgWalk
  <2>2. agUser' = [pc |-> "delete", cursor |-> k, pid |-> AgNone, toDelete |-> << >>]
    BY <1>1, <2>1
  <2> QED
    BY <1>2, <2>1, <2>2 DEF Held, Map!InMap
<1>5. AgWalk' /\ Held' = {}
  BY <1>3, <1>4, AgWalkEmpty
<1>6. AgShape'
  <2>1. agPrinted' \in Nat /\ agWarned' \in Nat
    BY <1>1, <1>2, <1>3 DEF AgShape
  <2> QED
    BY <1>2, <2>1, AgShapeByUser
<1>7. Unprinted = Map!InMap /\ Unprinted' = Map!InMap \ {k} /\ Overflows' = Overflows
  BY <1>2, <1>4 DEF Unprinted, Printed, Overflows
<1>8. Counts[k] = agContent[agIndex[k]].count /\ Counts'[k] = 0
      /\ \A j \in AgKeys \ {k} : Counts'[j] = Counts[j]
  BY <1>2, <1>3, <1>7 DEF Counts
<1>9. /\ Map!SumFunction(Counts)' + Counts[k] = Map!SumFunction(Counts) + Counts'[k]
      /\ Map!SumFunction(Counts)' \in Nat
  BY <1>3, <1>6, <1>8, CountsChange
<1>10. Total' = Total
  BY <1>1, <1>2, <1>3, <1>7, <1>8, <1>9, BusySame, TotalTypes DEF Total, AgShape
<1>11. (~agOverlap' /\ (~agOverlap => Alone) => Alone') /\ Flushed'
  BY <1>2, <1>4 DEF Alone, Flushed
<1> QED
  BY <1>2, <1>5, <1>6, <1>10, <1>11 DEF UserKept

LEMMA UserKeptByDelete ==
  ASSUME AgShape, AgWalk, Map!DeleteVisited
  PROVE  UserKept
<1> DEFINE k == agUser.cursor
<1>1. /\ agUser.pc = "delete" /\ k \in Map!InMap /\ k \in AgKeys
      /\ agIndex' = [agIndex EXCEPT ![k] = AgNone]
      /\ UNCHANGED <<agContent, agCpu, agOverflow, agIssued, agPrinted, agWarned, agOverlap>>
  BY DEF Map!DeleteVisited, Map!Unmap, AgWalk, Map!InMap
<1>2. /\ agUser = [pc |-> agUser.pc, cursor |-> agUser.cursor, pid |-> agUser.pid,
                   toDelete |-> agUser.toDelete]
      /\ agUser.toDelete = << >> /\ agUser.pid = AgNone
  BY <1>1 DEF AgWalk
<1>3. agUser' = [pc |-> "all", cursor |-> k, pid |-> AgNone, toDelete |-> << >>]
  BY <1>2 DEF Map!DeleteVisited
<1>4. AgWalk' /\ Held' = {}
  BY <1>1, <1>3, AgWalkEmpty
<1>5. AgShape'
  BY <1>1, AgShapeByUser DEF AgShape
<1>6. /\ Map!InMap' = Map!InMap \ {k} /\ agIndex'[k] = AgNone
      /\ \A j \in AgKeys \ {k} : agIndex'[j] = agIndex[j]
  BY <1>1 DEF AgShape, Map!InMap
<1>7. Unprinted' = Unprinted /\ Overflows' = Overflows
  BY <1>1, <1>3, <1>4, <1>6 DEF Unprinted, Printed, Overflows
<1>8. \A j \in Unprinted : agIndex'[j] = agIndex[j]
  BY <1>1, <1>6 DEF Unprinted, Printed, Map!InMap
<1>9. Total' = Total
  BY <1>1, <1>7, <1>8, TotalSame
<1>10. Flushed'
  BY <1>3, <1>6 DEF Flushed
<1>11. ~agOverlap' /\ (~agOverlap => Alone) => Alone'
  BY <1>1, <1>3 DEF Alone
<1> QED
  BY <1>1, <1>4, <1>5, <1>9, <1>10, <1>11 DEF UserKept

LEMMA UserKeptByEndAll ==
  ASSUME AgShape, AgWalk, Map!EndAll
  PROVE  UserKept
<1>1. /\ agUser.pc = "all" /\ Map!NextKey(agUser.cursor) = {}
      /\ agUser' = [pc |-> "ended", cursor |-> AgNone, pid |-> AgNone, toDelete |-> << >>]
      /\ UNCHANGED <<agIndex, agContent, agCpu, agOverflow, agIssued, agPrinted, agWarned, agOverlap>>
  BY DEF Map!EndAll, Map!probes, Map!Rest
<1>2. AgWalk' /\ Held' = {}
  BY <1>1, AgWalkEmpty
<1>3. AgShape'
  BY <1>1, AgShapeByUser DEF AgShape
<1>4. Unprinted' = Unprinted /\ Overflows' = Overflows /\ Map!InMap' = Map!InMap
  BY <1>1, <1>2 DEF AgWalk, Unprinted, Printed, Held, Overflows, Map!InMap
<1>5. Total' = Total
  BY <1>1, <1>4, TotalSame
<1>6. Flushed => Flushed'
  <2> SUFFICES ASSUME Flushed
               PROVE  Flushed'
    OBVIOUS
  <2>1. Map!InMap = {}
    BY <1>1, AgLast DEF Flushed
  <2> QED
    BY <1>1, <1>4, <2>1 DEF Flushed
<1>7. ~agOverlap' /\ (~agOverlap => Alone) => Alone'
  BY <1>1 DEF Alone
<1> QED
  BY <1>1, <1>2, <1>3, <1>5, <1>6, <1>7 DEF UserKept

\* The end of a flush for a PID, or of any call of the main thread
LEMMA UserKeptByEndPid ==
  ASSUME AgShape, AgWalk, Map!EndPid
  PROVE  UserKept
<1>1. /\ agUser.pc = "deleting" /\ agUser.toDelete = << >>
      /\ agUser' = [pc |-> "ended", cursor |-> AgNone, pid |-> agUser.pid, toDelete |-> << >>]
      /\ UNCHANGED <<agIndex, agContent, agCpu, agOverflow, agIssued, agPrinted, agWarned, agOverlap>>
  BY DEF Map!EndPid, Map!probes, Map!Rest
<1>2. AgWalk' /\ Held' = {} /\ Held = {}
  BY <1>1, AgWalkEmpty DEF Held
<1>3. AgShape'
  BY <1>1, AgShapeByUser DEF AgShape
<1>4. Unprinted' = Unprinted /\ Overflows' = Overflows /\ Map!InMap' = Map!InMap
  BY <1>1, <1>2 DEF Unprinted, Printed, Overflows, Map!InMap
<1>5. Total' = Total
  BY <1>1, <1>4, TotalSame
<1>6. Flushed => Flushed'
  BY <1>1, <1>2, <1>4 DEF Flushed, AgWalk
<1>7. ~agOverlap' /\ (~agOverlap => Alone) => Alone'
  BY <1>1 DEF Alone
<1> QED
  BY <1>1, <1>2, <1>3, <1>5, <1>6, <1>7 DEF UserKept

LEMMA UserKeptByReturn ==
  ASSUME AgShape, AgWalk, Map!Return
  PROVE  UserKept
<1>1. /\ agUser.pc = "ended"
      /\ agUser' = [pc |-> "idle", cursor |-> AgNone, pid |-> AgNone, toDelete |-> << >>]
      /\ UNCHANGED <<agIndex, agContent, agCpu, agOverflow, agIssued, agPrinted, agWarned, agOverlap>>
  BY DEF Map!Return, Map!probes, Map!Rest
<1>2. AgWalk' /\ Held' = {} /\ Held = {}
  BY <1>1, AgWalkEmpty DEF AgWalk, Held
<1>3. AgShape'
  BY <1>1, AgShapeByUser DEF AgShape
<1>4. Unprinted' = Unprinted /\ Overflows' = Overflows
  BY <1>1, <1>2 DEF Unprinted, Printed, Overflows, Map!InMap
<1>5. Total' = Total
  BY <1>1, <1>4, TotalSame
<1>6. Flushed'
  BY <1>1 DEF Flushed
<1>7. ~agOverlap' /\ (~agOverlap => Alone) => Alone'
  BY <1>1 DEF Alone
<1> QED
  BY <1>1, <1>2, <1>3, <1>5, <1>6, <1>7 DEF UserKept

\* The overflow counters are read, and what has been read is lost.
LEMMA UserKeptByReport ==
  ASSUME AgShape, AgWalk, Map!ReportOverflow
  PROVE  UserKept
<1> DEFINE total == Map!SumFunction(agOverflow)
<1>1. /\ agUser.pc = "check" /\ agWarned' = agWarned + total
      /\ agUser' = [agUser EXCEPT !.pc = IF total > 0 THEN "reset" ELSE "idle"]
      /\ UNCHANGED <<agIndex, agContent, agCpu, agOverflow, agIssued, agPrinted, agOverlap>>
  BY DEF Map!ReportOverflow, Map!probes
<1>2. total \in Nat
  BY TotalTypes
<1>3. /\ agUser = [pc |-> agUser.pc, cursor |-> agUser.cursor, pid |-> agUser.pid,
                   toDelete |-> agUser.toDelete]
      /\ agUser.toDelete = << >> /\ agUser.cursor \in AgKeys \cup {AgNone}
  BY <1>1 DEF AgWalk
<1>4. agUser' = [pc |-> IF total > 0 THEN "reset" ELSE "idle", cursor |-> agUser.cursor,
                 pid |-> agUser.pid, toDelete |-> << >>]
  <2> HIDE DEF total
  <2> QED
    BY <1>1, <1>3
<1>5. AgWalk' /\ Held' = {} /\ Held = {}
  <2> HIDE DEF total
  <2> QED
    BY <1>3, <1>4, AgWalkEmpty DEF Held
<1>6. AgShape'
  <2>1. agPrinted' \in Nat /\ agWarned' \in Nat
    BY <1>1, <1>2 DEF AgShape
  <2> QED
    BY <1>1, <2>1, AgShapeByUser
<1>7. Counts' = Counts
  BY <1>1, <1>4, <1>5 DEF Counts, Unprinted, Printed, Map!InMap
<1>8. Map!SumFunction(Counts)' = Map!SumFunction(Counts)
  BY <1>7
<1>9. Overflows = total /\ Overflows' = 0
  <2>1. Map!SumFunction(agOverflow') = total
    BY <1>1
  <2> HIDE DEF total
  <2>2. Overflows' = IF total > 0 THEN 0 ELSE total
    BY <1>4, <2>1 DEF Overflows
  <2>3. Overflows = total
    BY <1>1 DEF Overflows, total
  <2> QED
    BY <1>2, <2>2, <2>3
<1>10. Total' = Total
  <2> HIDE DEF total
  <2> QED
    BY <1>1, <1>2, <1>8, <1>9, BusySame, TotalTypes DEF Total, AgShape
<1>11. ~agOverlap' /\ (~agOverlap => Alone) => Alone'
  BY <1>1 DEF Alone
<1>12. Flushed'
  <2> HIDE DEF total
  <2> QED
    BY <1>4 DEF Flushed
<1> QED
  BY <1>1, <1>5, <1>6, <1>10, <1>11, <1>12 DEF UserKept

LEMMA UserKeptByReset ==
  ASSUME AgShape, AgWalk, Map!ResetOverflow
  PROVE  UserKept
<1>1. /\ agUser.pc = "reset" /\ agOverflow' = [c \in AgCpus |-> 0]
      /\ agUser' = [pc |-> "idle", cursor |-> AgNone, pid |-> AgNone, toDelete |-> << >>]
      /\ UNCHANGED <<agIndex, agContent, agCpu, agIssued, agPrinted, agWarned, agOverlap>>
  BY DEF Map!ResetOverflow, Map!Rest
<1>2. AgWalk' /\ Held' = {} /\ Held = {}
  BY <1>1, AgWalkEmpty DEF AgWalk, Held
<1>3. AgShape'
  BY <1>1, AgShapeByUser DEF AgShape
<1>4. Map!SumFunction(agOverflow') = 0
  <2>1. agOverflow' \in [AgCpus -> Nat] /\ \A c \in AgCpus : agOverflow'[c] = 0
    BY <1>1
  <2> QED
    BY <2>1, AgAssumed, SumOfZeros
<1>5. Unprinted' = Unprinted /\ Overflows' = Overflows
  BY <1>1, <1>2, <1>4 DEF Unprinted, Printed, Overflows, Map!InMap
<1>6. Total' = Total
  BY <1>1, <1>5, TotalSame
<1>7. Flushed'
  BY <1>1 DEF Flushed
<1>8. ~agOverlap' /\ (~agOverlap => Alone) => Alone'
  BY <1>1 DEF Alone
<1> QED
  BY <1>1, <1>2, <1>3, <1>6, <1>7, <1>8 DEF UserKept

\* If the array has room for every key of a PID, it has room for the next one.
LEMMA HeldFit ==
  ASSUME AgShape, AgWalk, Map!PidsFit, NEW k \in AgKeys, AgPidOf[k] = agUser.pid, k \notin Held
  PROVE  Len(agUser.toDelete) < AgDelCap
<1> DEFINE n == Len(agUser.toDelete)
           all == {j \in AgKeys : AgPidOf[j] = AgPidOf[k]}
<1>1. n \in Nat /\ agUser.toDelete \in [1 .. n -> AgKeys]
  BY DEF AgWalk
<1>2. ExistsBijection(1 .. n, Held)
  <2> DEFINE b == [i \in 1 .. n |-> agUser.toDelete[i]]
  <2>1. b \in Bijection(1 .. n, Held)
    BY <1>1 DEF Bijection, Injection, Surjection, IsInjective, Held, AgWalk
  <2> QED
    BY <2>1 DEF ExistsBijection
<1>3. IsFiniteSet(Held) /\ Cardinality(Held) = n
  BY <1>1, <1>2, FS_CountingElements, FS_NatBijection
<1>4. Held \cup {k} \subseteq all /\ all \subseteq AgKeys
  BY DEF AgWalk, Map!InMap
<1>5. IsFiniteSet(all) /\ Cardinality(all) <= AgDelCap
  BY <1>4, AgAssumed, AgWords, FS_Subset DEF Map!PidsFit
<1> HIDE DEF all, n
<1>6. Cardinality(Held \cup {k}) = n + 1
  BY <1>3, FS_AddElement
<1>7. Cardinality(Held \cup {k}) <= Cardinality(all) /\ Cardinality(all) \in Nat
  BY <1>4, <1>5, FS_Subset, FS_CardinalityType
<1> QED
  BY <1>1, <1>5, <1>6, <1>7, AgAssumed DEF n

LEMMA UserKeptByVisitForPid ==
  ASSUME AgShape, AgWalk, Map!VisitForPid
  PROVE  UserKept
<1> DEFINE q == agUser.toDelete
<1>1. PICK k \in Map!NextKey(agUser.cursor) :
        IF AgPidOf[k] = agUser.pid
          THEN /\ agPrinted' = agPrinted + agContent[agIndex[k]].count
               /\ agUser' = [agUser EXCEPT !.cursor = k,
                               !.toDelete = IF Len(@) < AgDelCap THEN Append(@, k) ELSE @]
          ELSE agUser' = [agUser EXCEPT !.cursor = k] /\ agPrinted' = agPrinted
  BY DEF Map!VisitForPid
<1>2. /\ agUser.pc = "pid"
      /\ UNCHANGED <<agIndex, agContent, agCpu, agOverflow, agIssued, agWarned, agOverlap>>
  BY DEF Map!VisitForPid, Map!probes
<1>3. /\ k \in Map!InMap /\ k \in AgKeys /\ agContent[agIndex[k]].count \in Nat
      /\ Map!InMap' = Map!InMap
  BY <1>2, AgNext DEF Map!InMap, AgShape
<1>4. /\ agUser = [pc |-> agUser.pc, cursor |-> agUser.cursor, pid |-> agUser.pid, toDelete |-> q]
      /\ q \in Seq(AgKeys) /\ Len(q) \in Nat /\ Len(q) <= AgDelCap
  BY DEF AgWalk
<1>5. \A j \in Held : j < k
  <2>1. \A j \in Held : j \in Nat /\ j <= agUser.cursor /\ agUser.cursor \in Map!InMap
    BY <1>2, AgAssumed DEF AgWalk, Map!InMap
  <2>2. agUser.cursor \in Map!InMap => agUser.cursor \in Nat /\ k > agUser.cursor
    BY AgNext, AgAssumed DEF Map!InMap
  <2> QED
    BY <1>3, <2>1, <2>2, AgAssumed
<1>6. k \notin Held /\ k \in Nat /\ Held \subseteq Nat
  BY <1>3, <1>5, AgAssumed DEF AgWalk, Map!InMap
<1> DEFINE adds == AgPidOf[k] = agUser.pid /\ Len(q) < AgDelCap
<1>7. /\ agUser' = [pc |-> "pid", cursor |-> k, pid |-> agUser.pid,
                    toDelete |-> IF adds THEN Append(q, k) ELSE q]
      /\ agPrinted' = agPrinted + (IF AgPidOf[k] = agUser.pid THEN agContent[agIndex[k]].count ELSE 0)
  <2>1. agPrinted \in Nat
    BY DEF AgShape
  <2>2. CASE AgPidOf[k] = agUser.pid
    <3>1. agUser' = [pc |-> "pid", cursor |-> k, pid |-> agUser.pid,
                     toDelete |-> IF Len(q) < AgDelCap THEN Append(q, k) ELSE q]
      <4> HIDE DEF q, adds
      <4>1. agUser' = [agUser EXCEPT !.cursor = k,
                         !.toDelete = IF Len(q) < AgDelCap THEN Append(q, k) ELSE q]
        BY <1>1, <2>2 DEF q
      <4> QED
        BY <1>2, <1>4, <4>1
    <3> HIDE DEF q
    <3> QED
      BY <1>1, <2>2, <3>1
  <2>3. CASE AgPidOf[k] # agUser.pid
    <3>1. agUser' = [pc |-> "pid", cursor |-> k, pid |-> agUser.pid, toDelete |-> q]
      <4> HIDE DEF q, adds
      <4> QED
        BY <1>1, <1>2, <1>4, <2>3
    <3> HIDE DEF q
    <3> QED
      BY <1>1, <2>1, <2>3, <3>1
  <2> QED
    BY <2>2, <2>3
<1> HIDE DEF adds
<1>8. Held' = IF adds THEN Held \cup {k} ELSE Held
  <2>1. CASE adds
    <3>1. /\ Len(Append(q, k)) = Len(q) + 1 /\ Append(q, k)[Len(q) + 1] = k
          /\ \A i \in 1 .. Len(q) : Append(q, k)[i] = q[i]
      BY <1>3, <1>4
    <3>2. agUser'.toDelete = Append(q, k)
      BY <1>7, <2>1
    <3>3. 1 .. (Len(q) + 1) = (1 .. Len(q)) \cup {Len(q) + 1}
      BY <1>4
    <3>4. Held' = {Append(q, k)[i] : i \in (1 .. Len(q)) \cup {Len(q) + 1}}
      BY <3>1, <3>2, <3>3 DEF Held
    <3> QED
      BY <2>1, <3>1, <3>4 DEF Held
  <2>2. CASE ~adds
    BY <1>7, <2>2 DEF Held
  <2> QED
    BY <2>1, <2>2
<1>9. AgWalk'
  <2>1. /\ agUser'.toDelete \in Seq(AgKeys) /\ Len(agUser'.toDelete) <= AgDelCap
        /\ \A i, j \in 1 .. Len(agUser'.toDelete) :
             agUser'.toDelete[i] = agUser'.toDelete[j] => i = j
    <3>1. CASE adds
      <4>1. /\ Len(Append(q, k)) = Len(q) + 1 /\ Append(q, k)[Len(q) + 1] = k
            /\ \A i \in 1 .. Len(q) : Append(q, k)[i] = q[i] /\ Append(q, k)[i] # k
            /\ Append(q, k) \in Seq(AgKeys)
        BY <1>3, <1>4, <1>6 DEF Held
      <4>2. agUser'.toDelete = Append(q, k) /\ Len(q) < AgDelCap
        BY <1>7, <3>1 DEF adds
      <4>3. \A i, j \in 1 .. Len(q) : q[i] = q[j] => i = j
        BY DEF AgWalk
      <4>4. ASSUME NEW i \in 1 .. Len(q) + 1, NEW j \in 1 .. Len(q) + 1,
                   Append(q, k)[i] = Append(q, k)[j]
            PROVE  i = j
        <5>1. (i \in 1 .. Len(q) \/ i = Len(q) + 1) /\ (j \in 1 .. Len(q) \/ j = Len(q) + 1)
          BY <1>4
        <5> QED
          BY <4>1, <4>3, <4>4, <5>1
      <4>5. Len(q) + 1 <= AgDelCap
        BY <1>4, <4>2, AgAssumed
      <4> HIDE DEF q
      <4> QED
        BY <4>1, <4>2, <4>4, <4>5
    <3>2. CASE ~adds
      BY <1>7, <3>2 DEF AgWalk
    <3> QED
      BY <3>1, <3>2
  <2>2. \A j \in Held' : j \in Map!InMap' /\ AgPidOf[j] = agUser'.pid /\ j <= agUser'.cursor
    <3>1. agUser'.pid = agUser.pid /\ agUser'.cursor = k
      BY <1>7
    <3>2. \A j \in Held : j \in Map!InMap' /\ AgPidOf[j] = agUser.pid /\ j <= k
      BY <1>3, <1>5, <1>6 DEF AgWalk
    <3>3. adds => k \in Map!InMap' /\ AgPidOf[k] = agUser.pid /\ k <= k
      BY <1>3, <1>6 DEF adds
    <3> QED
      BY <1>8, <3>1, <3>2, <3>3
  <2>3. /\ agUser' = [pc |-> agUser'.pc, cursor |-> agUser'.cursor, pid |-> agUser'.pid,
                      toDelete |-> agUser'.toDelete]
        /\ agUser'.pc = "pid" /\ agUser'.cursor = k /\ agUser'.pid # AgNone
    BY <1>2, <1>7 DEF AgWalk
  <2> QED
    BY <1>3, <2>1, <2>2, <2>3, AgAssumed DEF AgWalk
<1>10. AgShape'
  <2>1. agPrinted' \in Nat /\ agWarned' \in Nat
    BY <1>1, <1>2, <1>3 DEF AgShape
  <2> QED
    BY <1>2, <2>1, AgShapeByUser
<1>11. ASSUME Map!PidsFit
       PROVE  /\ Held' = IF AgPidOf[k] = agUser.pid THEN Held \cup {k} ELSE Held
              /\ Total' = Total
  <2>1. Held' = IF AgPidOf[k] = agUser.pid THEN Held \cup {k} ELSE Held
    <3>1. AgPidOf[k] = agUser.pid => adds
      BY <1>3, <1>6, <1>11, HeldFit DEF adds
    <3> QED
      BY <1>8, <3>1 DEF adds
  <2>2. /\ Unprinted = Map!InMap \ Held /\ Unprinted' = Map!InMap \ Held' /\ Overflows' = Overflows
    BY <1>2, <1>3, <1>7 DEF Unprinted, Printed, Overflows
  <2>3. CASE AgPidOf[k] = agUser.pid
    <3>1. Counts[k] = agContent[agIndex[k]].count /\ Counts'[k] = 0
          /\ \A j \in AgKeys \ {k} : Counts'[j] = Counts[j]
      BY <1>2, <1>3, <1>6, <2>1, <2>2, <2>3 DEF Counts
    <3>2. /\ Map!SumFunction(Counts)' + Counts[k] = Map!SumFunction(Counts) + Counts'[k]
          /\ Map!SumFunction(Counts)' \in Nat
      BY <1>3, <1>10, <3>1, CountsChange
    <3>3. Total' = Total
      <4>1. agPrinted' = agPrinted + Counts[k] /\ Counts[k] \in Nat /\ Counts'[k] = 0
        BY <1>1, <1>3, <2>3, <3>1
      <4>2. Map!SumFunction(Counts)' + Counts[k] = Map!SumFunction(Counts)
        BY <3>2, <4>1, TotalTypes
      <4> QED
        BY <1>2, <2>2, <3>2, <4>1, <4>2, BusySame, TotalTypes DEF Total, AgShape
    <3> QED
      BY <2>1, <3>3
  <2>4. CASE AgPidOf[k] # agUser.pid
    <3>1. agPrinted' = agPrinted
      BY <1>1, <2>4
    <3>2. Total' = Total
      BY <1>2, <2>1, <2>2, <2>4, <3>1, TotalSame
    <3> QED
      BY <2>1, <3>2
  <2> QED
    BY <2>3, <2>4
<1>12. ASSUME Map!PidsFit, Flushed
       PROVE  Flushed'
  <2>1. ASSUME NEW j \in Map!InMap', AgPidOf[j] = agUser'.pid, j <= agUser'.cursor
        PROVE  j \in Held'
    <3>1. j \in Map!InMap /\ j \in Nat /\ j <= k /\ AgPidOf[j] = agUser.pid
      BY <1>3, <1>7, <2>1, AgAssumed DEF Map!InMap
    <3>2. CASE j = k
      BY <1>11, <1>12, <3>1, <3>2
    <3>3. CASE j # k
      <4>1. ~ (k <= j)
        BY <1>6, <3>1, <3>3
      <4>2. agUser.cursor # AgNone /\ ~ (j > agUser.cursor)
        BY <3>1, <4>1, AgNext
      <4>3. agUser.cursor \in Nat
        BY <4>2, AgAssumed DEF AgWalk
      <4>4. j \in Held
        BY <1>2, <1>12, <3>1, <4>2, <4>3 DEF Flushed
      <4> QED
        BY <1>8, <4>4
    <3> QED
      BY <3>2, <3>3
  <2>2. agUser'.pc = "pid"
    BY <1>7
  <2> QED
    BY <2>1, <2>2 DEF Flushed
<1>13. ~agOverlap' /\ (~agOverlap => Alone) => Alone'
  BY <1>2 DEF Alone
<1> QED
  BY <1>2, <1>9, <1>10, <1>11, <1>12, <1>13 DEF UserKept

LEMMA UserKeptByEndWalk ==
  ASSUME AgShape, AgWalk, Map!EndWalk
  PROVE  UserKept
<1>1. /\ agUser.pc = "pid" /\ Map!NextKey(agUser.cursor) = {}
      /\ agUser' = [agUser EXCEPT !.pc = "deleting"]
      /\ UNCHANGED <<agIndex, agContent, agCpu, agOverflow, agIssued, agPrinted, agWarned, agOverlap>>
  BY DEF Map!EndWalk, Map!probes
<1>2. agUser' = [pc |-> "deleting", cursor |-> agUser.cursor, pid |-> agUser.pid,
                 toDelete |-> agUser.toDelete]
  BY <1>1 DEF AgWalk
<1>3. Held' = Held /\ Map!InMap' = Map!InMap
  BY <1>1, <1>2 DEF Held, Map!InMap
<1>4. AgWalk'
  BY <1>1, <1>2, <1>3 DEF AgWalk
<1>5. AgShape'
  BY <1>1, AgShapeByUser DEF AgShape
<1>6. Unprinted' = Unprinted /\ Overflows' = Overflows
  BY <1>1, <1>2, <1>3 DEF Unprinted, Printed, Overflows
<1>7. Total' = Total
  BY <1>1, <1>6, TotalSame
<1>8. Flushed => Flushed'
  <2> SUFFICES ASSUME Flushed, NEW j \in Map!InMap, AgPidOf[j] = agUser.pid
               PROVE  j \in Held
    BY <1>2, <1>3 DEF Flushed
  <2>1. agUser.cursor # AgNone /\ ~ (j > agUser.cursor)
    BY <1>1, AgLast
  <2>2. agUser.cursor \in Nat /\ j \in Nat
    BY <2>1, AgAssumed DEF AgWalk, Map!InMap
  <2> QED
    BY <1>1, <2>1, <2>2 DEF Flushed
<1>9. ~agOverlap' /\ (~agOverlap => Alone) => Alone'
  BY <1>1 DEF Alone
<1> QED
  BY <1>1, <1>4, <1>5, <1>7, <1>8, <1>9 DEF UserKept

LEMMA UserKeptByDeleteForPid ==
  ASSUME AgShape, AgWalk, Map!DeleteForPid
  PROVE  UserKept
<1> DEFINE q == agUser.toDelete
           k == Head(q)
<1>1. /\ agUser.pc = "deleting" /\ q # << >>
      /\ agIndex' = [agIndex EXCEPT ![k] = AgNone]
      /\ agUser' = [agUser EXCEPT !.toDelete = Tail(@)]
      /\ UNCHANGED <<agContent, agCpu, agOverflow, agIssued, agPrinted, agWarned, agOverlap>>
  BY DEF Map!DeleteForPid, Map!Unmap
<1>2. /\ agUser' = [pc |-> "deleting", cursor |-> agUser.cursor, pid |-> agUser.pid,
                    toDelete |-> Tail(q)]
      /\ q \in Seq(AgKeys) /\ Len(q) \in Nat \ {0} /\ Len(q) <= AgDelCap
      /\ \A i, j \in 1 .. Len(q) : q[i] = q[j] => i = j
  <2>1. /\ agUser = [pc |-> agUser.pc, cursor |-> agUser.cursor, pid |-> agUser.pid, toDelete |-> q]
        /\ q \in Seq(AgKeys) /\ Len(q) <= AgDelCap
        /\ \A i, j \in 1 .. Len(q) : q[i] = q[j] => i = j
    BY DEF AgWalk
  <2> HIDE DEF q, k
  <2>2. agUser' = [agUser EXCEPT !.toDelete = Tail(q)]
    BY <1>1 DEF q
  <2>3. agUser' = [pc |-> "deleting", cursor |-> agUser.cursor, pid |-> agUser.pid,
                   toDelete |-> Tail(q)]
    BY <1>1, <2>1, <2>2
  <2>4. q # << >>
    BY <1>1 DEF q
  <2>5. Len(q) \in Nat /\ Len(q) # 0
    BY <2>1, <2>4
  <2> QED
    BY <2>1, <2>3, <2>5
<1>3. /\ k = q[1] /\ Tail(q) \in Seq(AgKeys) /\ Len(Tail(q)) = Len(q) - 1
      /\ \A i \in 1 .. Len(q) - 1 : Tail(q)[i] = q[i + 1]
  BY <1>2
<1>4. Held' = Held \ {k} /\ k \in Held
  <2> HIDE DEF k, q
  <2>1. Held = {q[i] : i \in 1 .. Len(q)}
    BY DEF Held, q
  <2>2. Held' = {Tail(q)[i] : i \in 1 .. Len(q) - 1}
    BY <1>2, <1>3 DEF Held
  <2>3. k \in Held
    BY <1>2, <1>3, <2>1
  <2>4. ASSUME NEW j \in Held', TRUE
        PROVE  j \in Held \ {k}
    <3>1. PICK i \in 1 .. Len(q) - 1 : j = Tail(q)[i]
      BY <2>2
    <3>2. i + 1 \in 1 .. Len(q) /\ i + 1 # 1 /\ 1 \in 1 .. Len(q) /\ j = q[i + 1]
      BY <1>2, <1>3, <3>1
    <3> QED
      BY <1>2, <1>3, <2>1, <3>2
  <2>5. ASSUME NEW j \in Held \ {k}
        PROVE  j \in Held'
    <3>1. PICK i \in 1 .. Len(q) : j = q[i]
      BY <2>1
    <3>2. i # 1
      BY <1>3, <3>1
    <3>3. i - 1 \in 1 .. Len(q) - 1 /\ (i - 1) + 1 = i
      BY <1>2, <3>2
    <3>4. j = Tail(q)[i - 1]
      BY <1>3, <3>1, <3>3
    <3> QED
      BY <2>2, <3>3, <3>4
  <2> QED
    BY <2>3, <2>4, <2>5
<1>5. k \in Map!InMap /\ k \in AgKeys
  BY <1>4 DEF AgWalk, Map!InMap
<1> HIDE DEF k
<1>6. /\ Map!InMap' = Map!InMap \ {k}
      /\ \A j \in AgKeys \ {k} : agIndex'[j] = agIndex[j]
  BY <1>1, <1>5 DEF AgShape, Map!InMap
<1>7. AgWalk'
  <2>1. \A i, j \in 1 .. Len(Tail(q)) : Tail(q)[i] = Tail(q)[j] => i = j
    <3> SUFFICES ASSUME NEW i \in 1 .. Len(q) - 1, NEW j \in 1 .. Len(q) - 1, Tail(q)[i] = Tail(q)[j]
                 PROVE  i = j
      BY <1>3
    <3>1. i + 1 \in 1 .. Len(q) /\ j + 1 \in 1 .. Len(q) /\ q[i + 1] = q[j + 1]
      BY <1>2, <1>3
    <3>2. i + 1 = j + 1
      BY <1>2, <3>1
    <3> QED
      BY <3>2
  <2>2. Len(Tail(q)) <= AgDelCap
    BY <1>2, <1>3, AgAssumed
  <2>3. \A j \in Held' : j \in Map!InMap' /\ AgPidOf[j] = agUser.pid
    BY <1>4, <1>6 DEF AgWalk
  <2>4. /\ agUser'.pc = "deleting" /\ agUser'.cursor = agUser.cursor /\ agUser'.pid = agUser.pid
        /\ agUser'.toDelete = Tail(q)
    BY <1>2
  <2>5. agUser.cursor \in AgKeys \cup {AgNone} /\ agUser.pid # AgNone
    BY <1>1 DEF AgWalk
  <2> HIDE DEF q
  <2> QED
    BY <1>2, <1>3, <2>1, <2>2, <2>3, <2>4, <2>5 DEF AgWalk
<1>8. AgShape'
  <2>1. agPrinted' \in Nat /\ agWarned' \in Nat
    BY <1>1 DEF AgShape
  <2> HIDE DEF q
  <2> QED
    BY <1>1, <1>5, <2>1, AgShapeByUser
<1>9. Unprinted' = Unprinted /\ Overflows' = Overflows
  <2>1. agUser'.pc = "deleting"
    BY <1>2
  <2> QED
    BY <1>1, <1>4, <1>6, <2>1 DEF Unprinted, Printed, Overflows
<1>10. \A j \in Unprinted : agIndex'[j] = agIndex[j]
  BY <1>1, <1>4, <1>6 DEF Unprinted, Printed, Map!InMap
<1>11. Total' = Total
  BY <1>1, <1>9, <1>10, TotalSame
<1>12. Flushed => Flushed'
  <2>1. agUser'.pc = "deleting" /\ agUser'.pid = agUser.pid
    BY <1>2
  <2> QED
    BY <1>1, <1>4, <1>6, <2>1 DEF Flushed
<1>13. ~agOverlap' /\ (~agOverlap => Alone) => Alone'
  BY <1>1 DEF Alone
<1> QED
  BY <1>1, <1>7, <1>8, <1>11, <1>12, <1>13 DEF UserKept

-----------------------------------------------------------------------------
\* What the probes do
LEMMA AgKeptByLookup ==
  ASSUME AgKept, NEW c \in AgCpus, NEW k \in AgKeys, Map!Lookup(c, k)
  PROVE  AgKept'
<1>1. /\ agUser' = agUser /\ agIndex' = agIndex
      /\ agOverlap' = (agOverlap \/ agUser.pc # "idle")
      /\ agCpu' = [agCpu EXCEPT ![c] = [pc |-> IF agIndex[k] = AgNone THEN "insert" ELSE "add",
                                        key |-> k, elem |-> agIndex[k]]]
  BY DEF Map!Lookup, Map!ProbeStep
<1>2. AgShape' /\ Total' = Total + 1 /\ agIssued' = agIssued + 1
  BY AgShapeByLookup, TotalByLookup DEF AgKept
<1>3. AgWalk' /\ Held' = Held /\ Map!InMap' = Map!InMap
  BY <1>1, AgWalkByProbe DEF AgKept, Held, Map!InMap
<1>4. ~agOverlap' => Alone'
  BY <1>1 DEF AgKept, Alone, AgShape
<1>5. Flushed => Flushed'
  BY <1>1, <1>3 DEF Flushed
<1>6. ~agOverlap' => ~agOverlap /\ agUser.pc = "idle"
  BY <1>1
<1>7. Map!PidsFit => Total' <= agIssued'
  <2>1. Total \in Nat /\ agIssued \in Nat
    BY TotalTypes DEF AgKept, AgShape
  <2> QED
    BY <1>2, <2>1 DEF AgKept
<1>8. Map!PidsFit /\ ~agOverlap' => Total' = agIssued' /\ Flushed'
  BY <1>2, <1>5, <1>6 DEF AgKept
<1> QED
  BY <1>2, <1>3, <1>4, <1>7, <1>8 DEF AgKept

LEMMA AgKeptByAdd ==
  ASSUME AgKept, NEW c \in AgCpus, Map!AddToElement(c)
  PROVE  AgKept'
<1>1. /\ agUser' = agUser /\ agIndex' = agIndex /\ agCpu' = [agCpu EXCEPT ![c] = Map!Idle]
      /\ agOverlap' = (agOverlap \/ agUser.pc # "idle")
  BY DEF Map!AddToElement, Map!ProbeStep
<1>2. AgShape'
  BY AgShapeByAdd DEF AgKept
<1>3. AgWalk' /\ Held' = Held /\ Map!InMap' = Map!InMap
  BY <1>1, AgWalkByProbe DEF AgKept, Held, Map!InMap
<1>4. /\ Total' <= Total /\ agIssued' = agIssued /\ Total \in Nat /\ agIssued \in Nat
      /\ agUser.pc = "idle" /\ Alone => Total' = Total
  BY <1>2, TotalByAdd, TotalTypes DEF AgKept, AgShape
<1>5. ~agOverlap' => Alone'
  <2>1. /\ agCpu'[c].pc = "idle" /\ \A d \in AgCpus \ {c} : agCpu'[d] = agCpu[d]
    BY <1>1, AgCpuFreed DEF AgKept
  <2> QED
    BY <1>1, <2>1 DEF AgKept, Alone
<1>6. Flushed => Flushed'
  BY <1>1, <1>3 DEF Flushed
<1>7. Total' \in Int
  BY <1>2, TotalNext
<1>8. ~agOverlap' => ~agOverlap /\ agUser.pc = "idle"
  BY <1>1
<1>9. Map!PidsFit => Total' <= agIssued'
  BY <1>4, <1>7 DEF AgKept
<1>10. Map!PidsFit /\ ~agOverlap' => Total' = agIssued' /\ Flushed'
  BY <1>4, <1>6, <1>8 DEF AgKept
<1> QED
  BY <1>2, <1>3, <1>5, <1>9, <1>10 DEF AgKept

LEMMA AgKeptByInsert ==
  ASSUME AgKept, NEW c \in AgCpus, Map!Insert(c)
  PROVE  AgKept'
<1> DEFINE k == agCpu[c].key
<1>1. /\ k \in AgKeys /\ agUser' = agUser /\ agCpu[c].pc = "insert"
      /\ agCpu' = [agCpu EXCEPT ![c] = Map!Idle]
      /\ agOverlap' = (agOverlap \/ agUser.pc # "idle")
      /\ \/ k \notin Map!InMap /\ \E e \in AgElems : agIndex' = [agIndex EXCEPT ![k] = e]
         \/ agIndex' = agIndex
  BY AgInserted DEF AgKept
<1> HIDE DEF k
<1>2. AgShape'
  BY AgShapeByInsert DEF AgKept
<1>3. \A j \in Map!InMap : j \in Map!InMap' /\ agIndex'[j] = agIndex[j]
  BY <1>1 DEF Map!InMap, AgKept, AgShape
<1>4. AgWalk'
  BY <1>1, <1>3, AgWalkByProbe DEF AgKept
<1>5. /\ Total' <= Total /\ agIssued' = agIssued /\ Total \in Nat /\ agIssued \in Nat
      /\ agUser.pc # "reset" => Total' = Total
  BY <1>2, TotalByInsert, TotalTypes DEF AgKept, AgShape
<1>6. ~agOverlap' => Alone'
  <2>1. /\ agCpu'[c].pc = "idle" /\ \A d \in AgCpus \ {c} : agCpu'[d] = agCpu[d]
    BY <1>1, AgCpuFreed DEF AgKept
  <2>2. ASSUME ~agOverlap', NEW d \in AgCpus, agCpu'[d].pc = "add"
        PROVE  agIndex'[agCpu'[d].key] = agCpu'[d].elem
    <3>1. d # c /\ agCpu'[d] = agCpu[d] /\ ~agOverlap
      BY <1>1, <2>1, <2>2
    <3>2. agIndex[agCpu[d].key] = agCpu[d].elem /\ agCpu[d].key \in AgKeys
          /\ agCpu[d].elem \in AgElems
      BY <2>2, <3>1 DEF AgKept, Alone, AgShape
    <3>3. agCpu[d].key \in Map!InMap
      BY <3>2, AgAssumed DEF Map!InMap
    <3> QED
      BY <1>3, <3>1, <3>2, <3>3
  <2>3. ~agOverlap' => agUser'.pc = "idle"
    BY <1>1
  <2> QED
    BY <2>2, <2>3 DEF Alone
<1>7. ~agOverlap' => Flushed'
  BY <1>1 DEF Flushed
<1>8. Total' \in Int
  BY <1>2, TotalNext
<1>9. ~agOverlap' => ~agOverlap /\ agUser.pc = "idle"
  BY <1>1
<1>10. Map!PidsFit => Total' <= agIssued'
  BY <1>5, <1>8 DEF AgKept
<1>11. Map!PidsFit /\ ~agOverlap' => Total' = agIssued' /\ Flushed'
  BY <1>5, <1>7, <1>9 DEF AgKept
<1> QED
  BY <1>2, <1>4, <1>6, <1>10, <1>11 DEF AgKept

-----------------------------------------------------------------------------
LEMMA AgKeptByUser ==
  ASSUME AgKept, UserKept, ~agOverlap' => ~agOverlap
  PROVE  AgKept'
BY DEF AgKept, UserKept

LEMMA AgKeptByNext ==
  ASSUME AgKept, [Map!Next]_(Map!vars)
  PROVE  AgKept'
<1>0. AgShape /\ AgWalk
  BY DEF AgKept
<1>1. ASSUME NEW c \in AgCpus,
             (\E k \in AgKeys : Map!Lookup(c, k)) \/ Map!AddToElement(c) \/ Map!Insert(c)
      PROVE  AgKept'
  BY <1>1, AgKeptByLookup, AgKeptByAdd, AgKeptByInsert
<1>2. CASE Map!FlushAll
  <2>1. UserKept
    BY <1>0, <1>2, UserKeptByBegin DEF Map!FlushAll
  <2>2. ~agOverlap' => ~agOverlap
    BY <1>2 DEF Map!FlushAll, Map!Begin
  <2> QED
    BY <2>1, <2>2, AgKeptByUser
<1>3. ASSUME NEW k \in AgKeys, Map!FlushPid(AgPidOf[k])
      PROVE  AgKept'
  <2>1. UserKept
    BY <1>0, <1>3, UserKeptByBegin, AgAssumed DEF Map!FlushPid
  <2>2. ~agOverlap' => ~agOverlap
    BY <1>3 DEF Map!FlushPid, Map!Begin
  <2> QED
    BY <2>1, <2>2, AgKeptByUser
<1>4. CASE Map!CheckOverflow
  <2>1. UserKept
    BY <1>0, <1>4, UserKeptByBegin DEF Map!CheckOverflow
  <2>2. ~agOverlap' => ~agOverlap
    BY <1>4 DEF Map!CheckOverflow, Map!Begin
  <2> QED
    BY <2>1, <2>2, AgKeptByUser
<1>5. CASE \/ Map!VisitAll \/ Map!DeleteVisited \/ Map!EndAll
           \/ Map!VisitForPid \/ Map!EndWalk \/ Map!DeleteForPid \/ Map!EndPid
           \/ Map!ReportOverflow \/ Map!ResetOverflow \/ Map!Return
  <2>1. UserKept
    BY <1>0, <1>5, UserKeptByVisitAll, UserKeptByDelete, UserKeptByEndAll, UserKeptByVisitForPid,
       UserKeptByEndWalk, UserKeptByDeleteForPid, UserKeptByEndPid, UserKeptByReport,
       UserKeptByReset, UserKeptByReturn
  <2>2. agOverlap' = agOverlap
    BY <1>5 DEF Map!VisitAll, Map!DeleteVisited, Map!EndAll, Map!VisitForPid, Map!EndWalk,
                Map!DeleteForPid, Map!EndPid, Map!ReportOverflow, Map!ResetOverflow, Map!Return
  <2> QED
    BY <2>1, <2>2, AgKeptByUser
<1>6. CASE UNCHANGED Map!vars
  BY <1>6 DEF Map!vars, Map!probes, AgKept, AgShape, AgWalk, Held, Map!InMap, Printed, Unprinted,
              Counts, Overflows, Busy, Total, Alone, Flushed
<1> QED
  BY <1>1, <1>2, <1>3, <1>4, <1>5, <1>6 DEF Map!Next

LEMMA AgAtFirst ==
  ASSUME Map!Init
  PROVE  AgKept
<1>1. /\ agIndex = [k \in AgKeys |-> AgNone]
      /\ agContent = [e \in AgElems |-> [key |-> AgNone, count |-> 0]]
      /\ agCpu = [c \in AgCpus |-> [pc |-> "idle", key |-> AgNone, elem |-> AgNone]]
      /\ agOverflow = [c \in AgCpus |-> 0]
      /\ agUser = [pc |-> "idle", cursor |-> AgNone, pid |-> AgNone, toDelete |-> << >>]
      /\ agIssued = 0 /\ agPrinted = 0 /\ agWarned = 0
  BY DEF Map!Init, Map!Idle, Map!Rest
<1>2. Map!InMap = {} /\ Held = {} /\ Busy = {} /\ Unprinted = {}
  BY <1>1 DEF Map!InMap, Held, Busy, Unprinted
<1>3. AgShape
  BY <1>1, <1>2, AgAssumed DEF AgShape
<1>4. AgWalk
  BY <1>1, <1>2, AgAssumed DEF AgWalk
<1>5. Total = 0
  <2>1. Counts \in [AgKeys -> Nat] /\ \A k \in AgKeys : Counts[k] = 0
    BY <1>2 DEF Counts
  <2>2. Map!SumFunction(Counts) = 0
    BY <2>1, AgAssumed, SumOfZeros
  <2>3. agOverflow \in [AgCpus -> Nat] /\ \A c \in AgCpus : agOverflow[c] = 0
    BY <1>1
  <2>4. Overflows = 0
    BY <1>1, <2>3, AgAssumed, SumOfZeros DEF Overflows
  <2>5. Cardinality(Busy) = 0
    BY <1>2, FS_EmptySet
  <2> QED
    BY <1>1, <2>2, <2>4, <2>5 DEF Total
<1>6. Alone /\ Flushed
  BY <1>1 DEF Alone, Flushed
<1> QED
  BY <1>1, <1>3, <1>4, <1>5, <1>6 DEF AgKept

LEMMA MapPart == CountingSpec => Map!Spec
<1>1. CountingInit => Map!Init
  BY DEF CountingInit
<1>2. [CountingNext]_<<part, vars, agVars, opVars>> => [Map!Next]_(Map!vars)
  BY DEF CountingNext, agVars, Map!vars, Map!probes
<1> QED
  BY <1>1, <1>2, PTL DEF CountingSpec, Map!Spec

LEMMA AgAlwaysKept == CountingSpec => []AgKept
<1>1. Map!Init => AgKept
  BY AgAtFirst
<1>2. AgKept /\ [Map!Next]_(Map!vars) => AgKept'
  BY AgKeptByNext
<1> QED
  BY <1>1, <1>2, MapPart, PTL DEF Map!Spec

\* update_agg_map, flush_agg_map, flush_pid_from_agg_map and check_overflow, on any number
\* of CPUs and entries: the map keeps its shape, and what is printed and warned of never
\* exceeds what happened, however they interleave.
THEOREM CountsAreReal == CountingSpec => []NeverOverReported
<1>1. AgKept => NeverOverReported
  <2> SUFFICES ASSUME AgKept
               PROVE  Map!TypeOK /\ (Map!PidsFit => agPrinted + agWarned <= agIssued)
    BY DEF NeverOverReported, Map!NeverOverReported
  <2>1. Map!TypeOK
    <3>1. \A k \in Map!InMap : agIndex[k] \in AgElems /\ agContent[agIndex[k]].key = k
      BY DEF AgKept, AgShape, Map!InMap
    <3>2. \A c \in AgCpus : agOverflow[c] \in 0 .. AgOps
      <4> TAKE c \in AgCpus
      <4>1. /\ agOverflow[c] \in Nat /\ agIssued <= AgOps /\ agIssued \in Nat /\ AgOps \in Nat
            /\ agOverflow[c] + (IF agCpu[c].pc = "idle" THEN 0 ELSE 1) <= agIssued
        BY AgAssumed DEF AgKept, AgShape
      <4> QED
        BY <4>1
    <3>3. \A c \in AgCpus : agCpu[c].pc = "add" => agCpu[c].elem \in AgElems
      BY DEF AgKept, AgShape
    <3>4. /\ Len(agUser.toDelete) <= AgDelCap
          /\ \A i \in DOMAIN agUser.toDelete : AgPidOf[agUser.toDelete[i]] = agUser.pid
      BY DEF AgKept, AgWalk, Held
    <3> QED
      BY <3>1, <3>2, <3>3, <3>4 DEF Map!TypeOK
  <2>2. /\ agPrinted \in Nat /\ agWarned \in Nat /\ Map!SumFunction(Counts) \in Nat
        /\ Overflows \in Nat /\ Cardinality(Busy) \in Nat /\ agIssued \in Nat
    BY TotalTypes DEF AgKept, AgShape
  <2>3. Map!PidsFit => Total <= agIssued
    BY DEF AgKept
  <2> QED
    BY <2>1, <2>2, <2>3 DEF Total
<1> QED
  BY <1>1, AgAlwaysKept, PTL

\* If flushes and checks have had the map to themselves, every operation is printed, in the
\* map, under way, or an overflow that is warned of: none is counted twice and none is lost.
THEOREM CountsAreExact == CountingSpec => []ExactWithoutOverlap
<1>1. AgKept => ExactWithoutOverlap
  <2> DEFINE inMap == [k \in Map!InMap |-> agContent[agIndex[k]].count]
  <2> SUFFICES ASSUME AgKept, Map!PidsFit, ~agOverlap, agUser.pc \in {"idle", "ended"}
               PROVE  agIssued = agPrinted + agWarned + Map!Running
                                 + Map!SumFunction(agOverflow) + Map!SumFunction(inMap)
    BY DEF ExactWithoutOverlap, Map!ExactWithoutOverlap
  <2>1. Unprinted = Map!InMap /\ Overflows = Map!SumFunction(agOverflow)
    BY DEF AgKept, AgWalk, Unprinted, Printed, Held, Overflows
  <2>2. Map!Running = Cardinality(Busy)
    BY AgWords DEF Map!Running, Busy
  <2>3. Map!SumFunction(Counts) = Map!SumFunction(inMap)
    <3>1. Map!InMap \in SUBSET AgKeys /\ inMap \in [Map!InMap -> Nat]
      BY DEF AgKept, AgShape, Map!InMap
    <3>2. \A k \in AgKeys : Counts[k] = IF k \in Map!InMap THEN inMap[k] ELSE 0
      BY <2>1 DEF Counts
    <3>3. Counts \in [AgKeys -> Nat]
      BY CountsType DEF AgKept
    <3>4. Extends(Counts, AgKeys, inMap, Map!InMap)
      BY <3>1, <3>2, <3>3, AgAssumed DEF Extends
    <3> QED
      BY <3>4, SumOfPart
  <2>4. Total = agIssued
    BY DEF AgKept
  <2>5. /\ agPrinted \in Nat /\ agWarned \in Nat /\ Map!SumFunction(Counts) \in Nat
        /\ Overflows \in Nat /\ Cardinality(Busy) \in Nat
    BY TotalTypes DEF AgKept, AgShape
  <2> HIDE DEF inMap
  <2> QED
    BY <2>1, <2>2, <2>3, <2>4, <2>5 DEF Total
<1> QED
  BY <1>1, AgAlwaysKept, PTL

\* flush_agg_map and flush_pid_from_agg_map: a flush that no probe ran beside has left no
\* entry of what it was for.
THEOREM FlushesAreComplete == CountingSpec => []FlushIsComplete
<1>1. AgKept => FlushIsComplete
  BY DEF AgKept, Flushed, FlushIsComplete, Map!FlushIsComplete
<1> QED
  BY <1>1, AgAlwaysKept, PTL

-----------------------------------------------------------------------------
\* The aggregation of opens
LEMMA OpWords ==
  /\ \A f : Opens!SumFunction(f) = Map!SumFunction(f)
  /\ \A s : Opens!ToSet(s) = {s[i] : i \in DOMAIN s}
BY DEF Opens!SumFunction, Opens!SumFunctionOnSet, Opens!FoldFunctionOnSet, Opens!MapThenFoldSet,
       Map!SumFunction, Map!SumFunctionOnSet, Map!FoldFunctionOnSet, Map!MapThenFoldSet,
       Opens!ToSet

LEMMA OpAssumed ==
  /\ DOMAIN OpHash = OpPids \X OpPaths
  /\ OpMaxHashes \in Nat \ {0} /\ OpMaxLimits \in Nat \ {0} /\ OpPerSecond \in Nat \ {0}
  /\ OpSecond \in Nat \ {0} /\ OpWindow \in Nat /\ OpSkew \in Nat /\ OpMaxTime \in Nat
  /\ OpWide \in Nat /\ OpWide > OpMaxTime + OpWindow /\ OpNone \notin Nat
BY CountingAssumption DEF Opens!FileOpenAssumption, Opens!Files

OpEntry == [hash : Opens!Hashes, pid : OpPids, ts : Nat, count : Nat \ {0}]

In(table) == {table[i] : i \in 1 .. Len(table)}

\* A table of opens: no two entries with one hash
OpTable(table) ==
  /\ table \in Seq(OpEntry)
  /\ \A i, j \in 1 .. Len(table) : table[i].hash = table[j].hash => i = j

LEMMA OpTableFacts ==
  ASSUME NEW table, OpTable(table)
  PROVE  /\ Len(table) \in Nat /\ DOMAIN table = 1 .. Len(table)
         /\ \A i \in 1 .. Len(table) : table[i] \in OpEntry /\ table[i] \in In(table)
         /\ In(table) \subseteq OpEntry
         /\ \A d, e \in In(table) : d.hash = e.hash => d = e
BY DEF OpTable, In

\* What an entry with a hash has yet to add,
LEMMA LaterOfEntry ==
  ASSUME NEW table, OpTable(table), NEW e \in In(table), NEW of
  PROVE  Opens!Later(table, e.hash, of) = IF e.pid \in of THEN e.count - 1 ELSE 0
<1>1. PICK k \in 1 .. Len(table) : e = table[k]
  BY DEF In
<1> DEFINE f == [i \in DOMAIN table |->
              IF table[i].hash = e.hash /\ table[i].pid \in of THEN table[i].count - 1 ELSE 0]
           zero == [i \in DOMAIN table |-> 0]
<1>2. \A i \in 1 .. Len(table) : table[i].count - 1 \in Nat
  BY OpTableFacts DEF OpEntry
<1>3. IsFiniteSet(1 .. Len(table)) /\ DOMAIN table = 1 .. Len(table)
  BY OpTableFacts, FS_Interval
<1>4. f \in [1 .. Len(table) -> Nat] /\ zero \in [1 .. Len(table) -> Nat]
  BY <1>2, <1>3
<1>5. \A i \in (1 .. Len(table)) \ {k} : f[i] = zero[i]
  BY <1>1, <1>3 DEF OpTable
<1>6. f[k] = (IF e.pid \in of THEN e.count - 1 ELSE 0) /\ zero[k] = 0
  BY <1>1, <1>3
<1>7. \A i \in 1 .. Len(table) : zero[i] = 0
  BY <1>3
<1>8. Opens!Later(table, e.hash, of) = Map!SumFunction(f)
  BY OpWords DEF Opens!Later
<1> HIDE DEF f, zero
<1>9. DifferAt(f, zero, 1 .. Len(table), k)
  BY <1>3, <1>4, <1>5 DEF DifferAt
<1>10. Map!SumFunction(f) + zero[k] = Map!SumFunction(zero) + f[k]
  BY <1>9, SumChanges
<1>11. Map!SumFunction(zero) = 0
  BY <1>3, <1>4, <1>7, SumOfZeros
<1>12. Map!SumFunction(f) \in Nat /\ f[k] \in Nat
  BY <1>3, <1>4, SumType
<1> QED
  BY <1>6, <1>8, <1>10, <1>11, <1>12

\* and what nothing has.
LEMMA LaterOfNone ==
  ASSUME NEW table, OpTable(table), NEW h, \A e \in In(table) : e.hash # h, NEW of
  PROVE  Opens!Later(table, h, of) = 0
<1> DEFINE f == [i \in DOMAIN table |->
              IF table[i].hash = h /\ table[i].pid \in of THEN table[i].count - 1 ELSE 0]
<1>1. IsFiniteSet(1 .. Len(table)) /\ DOMAIN table = 1 .. Len(table)
  BY OpTableFacts, FS_Interval
<1>2. f \in [1 .. Len(table) -> Nat] /\ \A i \in 1 .. Len(table) : f[i] = 0
  BY <1>1, OpTableFacts
<1>3. Opens!Later(table, h, of) = Map!SumFunction(f)
  BY OpWords DEF Opens!Later
<1> HIDE DEF f
<1> QED
  BY <1>1, <1>2, <1>3, SumOfZeros

-----------------------------------------------------------------------------
\* Moving the last entry into a place
LEMMA MoveLastIs ==
  ASSUME NEW E, NEW s, s \in Seq(E), NEW i, i \in 1 .. Len(s)
  PROVE  /\ Opens!MoveLast(s, i) \in Seq(E) /\ Len(Opens!MoveLast(s, i)) = Len(s) - 1
         /\ \A j \in 1 .. Len(s) - 1 :
              Opens!MoveLast(s, i)[j] = IF j = i THEN s[Len(s)] ELSE s[j]
<1> DEFINE t == [s EXCEPT ![i] = s[Len(s)]]
<1>1. /\ t \in Seq(E) /\ Len(t) = Len(s) /\ Len(s) \in Nat \ {0}
      /\ \A j \in 1 .. Len(s) : t[j] = IF j = i THEN s[Len(s)] ELSE s[j]
  OBVIOUS
<1>2. Opens!MoveLast(s, i) = SubSeq(t, 1, Len(s) - 1)
  BY <1>1 DEF Opens!MoveLast, Opens!Front, Opens!Last
<1> HIDE DEF t
<1>3. /\ SubSeq(t, 1, Len(s) - 1) \in Seq(E) /\ Len(SubSeq(t, 1, Len(s) - 1)) = Len(s) - 1
      /\ \A j \in 1 .. Len(s) - 1 : SubSeq(t, 1, Len(s) - 1)[j] = t[j]
  BY <1>1, SubSeqProperties
<1> QED
  BY <1>1, <1>2, <1>3

\* removes the entry that was there, from a table of opens.
LEMMA EntryMoved ==
  ASSUME NEW s, OpTable(s), NEW i, i \in 1 .. Len(s)
  PROVE  /\ OpTable(Opens!MoveLast(s, i)) /\ Len(Opens!MoveLast(s, i)) = Len(s) - 1
         /\ In(Opens!MoveLast(s, i)) = In(s) \ {s[i]}
         /\ \A j \in 1 .. i - 1 : j \in 1 .. Len(s) - 1 /\ Opens!MoveLast(s, i)[j] = s[j]
<1> DEFINE r == Opens!MoveLast(s, i)
           n == Len(s)
<1>1. /\ s \in Seq(OpEntry) /\ n \in Nat \ {0}
      /\ \A j, k \in 1 .. n : s[j].hash = s[k].hash => j = k
  BY DEF OpTable
<1>2. /\ r \in Seq(OpEntry) /\ Len(r) = n - 1
      /\ \A j \in 1 .. n - 1 : r[j] = IF j = i THEN s[n] ELSE s[j]
  <2>1. s \in Seq(OpEntry) /\ i \in 1 .. Len(s)
    BY <1>1
  <2> QED
    BY <2>1, MoveLastIs
<1> HIDE DEF r
<1>3. OpTable(r)
  <2> SUFFICES ASSUME NEW j \in 1 .. n - 1, NEW k \in 1 .. n - 1, r[j].hash = r[k].hash
               PROVE  j = k
    BY <1>2 DEF OpTable
  <2> DEFINE at(m) == IF m = i THEN n ELSE m
  <2>1. at(j) \in 1 .. n /\ at(k) \in 1 .. n /\ r[j] = s[at(j)] /\ r[k] = s[at(k)]
    BY <1>1, <1>2
  <2>2. at(j) = at(k)
    <3> HIDE DEF at
    <3> QED
      BY <1>1, <2>1
  <2> QED
    BY <1>1, <2>2
<1>4. In(r) = In(s) \ {s[i]}
  <2>1. ASSUME NEW e \in In(r)
        PROVE  e \in In(s) \ {s[i]}
    <3>1. PICK j \in 1 .. n - 1 : e = r[j]
      BY <1>2 DEF In
    <3>2. PICK m \in 1 .. n : e = s[m] /\ m # i
      BY <1>1, <1>2, <3>1
    <3> QED
      BY <1>1, <3>2 DEF In
  <2>2. ASSUME NEW e \in In(s) \ {s[i]}
        PROVE  e \in In(r)
    <3>1. PICK m \in 1 .. n : e = s[m] /\ m # i
      BY DEF In
    <3>2. CASE m = n
      <4>1. i \in 1 .. n - 1 /\ r[i] = e
        BY <1>1, <1>2, <3>1, <3>2
      <4> QED
        BY <1>2, <4>1 DEF In
    <3>3. CASE m # n
      <4>1. m \in 1 .. n - 1 /\ r[m] = e
        BY <1>1, <1>2, <3>1, <3>3
      <4> QED
        BY <1>2, <4>1 DEF In
    <3> QED
      BY <3>2, <3>3
  <2> QED
    BY <2>1, <2>2
<1>5. \A j \in 1 .. i - 1 : j \in 1 .. n - 1 /\ r[j] = s[j]
  BY <1>1, <1>2
<1> QED
  BY <1>2, <1>3, <1>4, <1>5 DEF r

-----------------------------------------------------------------------------
\* The removal loop, and its runs
OpStart(s) == [i |-> 1, s |-> s, out |-> [h \in Opens!Hashes |-> 0]]

Runs(run, s, gone, n) ==
  run = [m \in 0 .. n |-> IF m = 0 THEN OpStart(s) ELSE Opens!Look(run[m - 1], gone)]

LEMMA RunsExist ==
  ASSUME NEW s, NEW gone, NEW n \in Nat
  PROVE  \E run : Runs(run, s, gone, n)
<1> DEFINE Bad == {m \in Nat : ~ \E run : Runs(run, s, gone, m)}
<1>1. SUFFICES ASSUME Bad # {}
               PROVE  FALSE
  OBVIOUS
<1>2. PICK m \in Bad : \A k \in Bad : m <= k
  <2>1. Bad \subseteq Nat
    OBVIOUS
  <2> HIDE DEF Bad
  <2> QED
    BY <1>1, <2>1, LeastOf
<1>3. m \in Nat /\ ~ \E run : Runs(run, s, gone, m)
  OBVIOUS
<1>4. m # 0
  <2> DEFINE run == [j \in 0 .. 0 |-> OpStart(s)]
  <2>1. Runs(run, s, gone, 0)
    <3>1. \A j \in 0 .. 0 : j = 0
      OBVIOUS
    <3> QED
      BY <3>1, Zenon DEF Runs
  <2> QED
    BY <1>3, <2>1
<1>5. m - 1 \in Nat /\ m - 1 \notin Bad
  <2>1. m - 1 \in Nat /\ ~(m <= m - 1)
    BY <1>3, <1>4
  <2> HIDE DEF Bad
  <2> QED
    BY <1>2, <2>1
<1>6. PICK r : Runs(r, s, gone, m - 1)
  BY <1>5
<1> DEFINE run == [j \in 0 .. m |-> IF j = 0 THEN OpStart(s) ELSE Opens!Look(r[j - 1], gone)]
<1>7. ASSUME NEW j \in 0 .. m - 1
      PROVE  run[j] = r[j]
  <2>1. r[j] = IF j = 0 THEN OpStart(s) ELSE Opens!Look(r[j - 1], gone)
    BY <1>6 DEF Runs
  <2>2. j \in 0 .. m
    BY <1>3, <1>5
  <2> QED
    BY <2>1, <2>2
<1>8. \A j \in 0 .. m : j # 0 => j - 1 \in 0 .. m - 1
  BY <1>3, <1>5
<1>9. run = [j \in 0 .. m |-> IF j = 0 THEN OpStart(s) ELSE Opens!Look(run[j - 1], gone)]
  <2>1. \A j \in 0 .. m : (IF j = 0 THEN OpStart(s) ELSE Opens!Look(r[j - 1], gone))
                        = (IF j = 0 THEN OpStart(s) ELSE Opens!Look(run[j - 1], gone))
    <3> HIDE DEF run
    <3> QED
      BY <1>7, <1>8
  <2> QED
    BY <2>1, Zenon
<1> QED
  <2> HIDE DEF run
  <2> QED
    BY <1>3, <1>9 DEF Runs

LEMMA SweepRuns ==
  ASSUME NEW s, NEW gone, Len(s) \in Nat
  PROVE  \E run : /\ run[0] = OpStart(s) /\ Opens!Sweep(s, gone) = run[Len(s)]
                  /\ \A n \in 1 .. Len(s) : run[n] = Opens!Look(run[n - 1], gone)
<1> DEFINE it == CHOOSE run : Runs(run, s, gone, Len(s))
<1>1. \E run : Runs(run, s, gone, Len(s))
  BY RunsExist
<1>2. Runs(it, s, gone, Len(s))
  BY <1>1
<1>3. Opens!Sweep(s, gone) = it[Len(s)]
  BY DEF Opens!Sweep, Runs, OpStart
<1> HIDE DEF it
<1>4. \A n \in 0 .. Len(s) : it[n] = IF n = 0 THEN OpStart(s) ELSE Opens!Look(it[n - 1], gone)
  BY <1>2 DEF Runs
<1>5. it[0] = OpStart(s)
  BY <1>4
<1>6. \A n \in 1 .. Len(s) : it[n] = Opens!Look(it[n - 1], gone)
  BY <1>4
<1> QED
  BY <1>3, <1>5, <1>6

\* After n iterations, what is before the index stays, and what is not in the table
\* any more has been printed.
Swept(st, s, gone, n) ==
  /\ st = [i |-> st.i, s |-> st.s, out |-> st.out]
  /\ st.i \in 1 .. n + 1 /\ OpTable(st.s) /\ Len(st.s) = Len(s) - n + st.i - 1
  /\ \A j \in 1 .. st.i - 1 : st.s[j] \notin gone
  /\ In(st.s) \subseteq In(s) /\ \A e \in In(s) : e \notin gone => e \in In(st.s)
  /\ st.out \in [Opens!Hashes -> Nat]
  /\ \A e \in In(s) : st.out[e.hash] = IF e \in In(st.s) THEN 0 ELSE e.count - 1
  /\ \A h \in Opens!Hashes : (\A e \in In(s) : e.hash # h) => st.out[h] = 0

LEMMA SweptAtFirst ==
  ASSUME NEW s, OpTable(s), NEW gone
  PROVE  Swept(OpStart(s), s, gone, 0)
BY OpTableFacts DEF Swept, OpStart, OpEntry

LEMMA IndexOfNext ==
  ASSUME NEW i \in Nat, NEW n \in Nat, NEW l \in Nat, i >= 1, i <= n + 1
  PROVE  /\ i \in 1 .. (n + 1) + 1 /\ i + 1 \in 1 .. (n + 1) + 1
         /\ (l - n + i - 1) - 1 = l - (n + 1) + i - 1
         /\ l - n + i - 1 = l - (n + 1) + (i + 1) - 1
OBVIOUS

LEMMA SweptNext ==
  ASSUME NEW s, OpTable(s), NEW gone, NEW n \in Nat, n < Len(s), NEW st, Swept(st, s, gone, n)
  PROVE  Swept(Opens!Look(st, gone), s, gone, n + 1)
<1> DEFINE e == st.s[st.i]
<1>1. /\ st.i \in 1 .. n + 1 /\ OpTable(st.s) /\ Len(st.s) = Len(s) - n + st.i - 1
      /\ Len(s) \in Nat /\ Len(st.s) \in Nat /\ st.i \in 1 .. Len(st.s) /\ e \in In(st.s)
      /\ \A j \in 1 .. st.i - 1 : st.s[j] \notin gone
  <2>1. Len(s) \in Nat /\ Len(st.s) \in Nat
    BY OpTableFacts DEF Swept
  <2>2. st.i \in 1 .. Len(st.s)
    BY <2>1 DEF Swept
  <2> QED
    BY <2>1, <2>2 DEF Swept, In
<1>2. e \in In(s) /\ e \in OpEntry /\ e.hash \in Opens!Hashes /\ e.count - 1 \in Nat
  <2>1. e \in In(s) /\ e \in OpEntry
    <3>1. OpTable(st.s) /\ In(st.s) \subseteq In(s)
      BY DEF Swept
    <3> HIDE DEF e
    <3> QED
      BY <1>1, <3>1, OpTableFacts
  <2> HIDE DEF e
  <2>2. e.hash \in Opens!Hashes /\ e.count \in Nat \ {0}
    BY <2>1 DEF OpEntry
  <2> QED
    BY <2>1, <2>2
<1> DEFINE new == Opens!Look(st, gone)
<1>3. CASE e \in gone
  <2>1. new = [i |-> st.i, s |-> Opens!MoveLast(st.s, st.i),
               out |-> [st.out EXCEPT ![e.hash] = @ + e.count - 1]]
    BY <1>3 DEF Opens!Look
  <2> HIDE DEF new
  <2>0. new.i = st.i /\ new.s = Opens!MoveLast(st.s, st.i)
    BY <2>1
  <2>2. /\ OpTable(new.s) /\ Len(new.s) = Len(st.s) - 1 /\ In(new.s) = In(st.s) \ {e}
        /\ \A j \in 1 .. st.i - 1 : new.s[j] = st.s[j]
    <3>1. st.i \in 1 .. Len(st.s) /\ OpTable(st.s)
      BY <1>1
    <3> QED
      BY <3>1, <2>0, EntryMoved
  <2>3. /\ new.i = st.i /\ new.i \in 1 .. (n + 1) + 1
        /\ Len(new.s) = Len(s) - (n + 1) + new.i - 1
    <3>1. st.i \in Nat /\ st.i <= n + 1 /\ st.i >= 1
      BY <1>1
    <3>2. Len(new.s) = Len(st.s) - 1 /\ Len(st.s) = Len(s) - n + st.i - 1 /\ Len(s) \in Nat
      BY <1>1, <2>2
    <3> QED
      <4>1. /\ st.i \in 1 .. (n + 1) + 1
            /\ (Len(s) - n + st.i - 1) - 1 = Len(s) - (n + 1) + st.i - 1
        BY <3>1, <3>2, IndexOfNext
      <4>2. Len(new.s) = (Len(s) - n + st.i - 1) - 1
        BY <3>2
      <4> QED
        BY <2>0, <4>1, <4>2
  <2>4. \A j \in 1 .. new.i - 1 : new.s[j] \notin gone
    BY <1>1, <2>2, <2>3
  <2>5. In(new.s) \subseteq In(s) /\ \A d \in In(s) : d \notin gone => d \in In(new.s)
    BY <1>3, <2>2 DEF Swept
  <2>6. /\ new.out = [st.out EXCEPT ![e.hash] = @ + e.count - 1] /\ st.out[e.hash] = 0
        /\ st.out \in [Opens!Hashes -> Nat]
    BY <1>1, <1>2, <2>1 DEF Swept
  <2> HIDE DEF e
  <2>7. /\ new.out \in [Opens!Hashes -> Nat] /\ new.out[e.hash] = e.count - 1
        /\ \A h \in Opens!Hashes \ {e.hash} : new.out[h] = st.out[h]
    <3>1. e.count \in Nat /\ 0 + e.count - 1 = e.count - 1
      BY <1>2 DEF OpEntry
    <3> QED
      BY <1>2, <2>6, <3>1
  <2>8. ASSUME NEW d \in In(s)
        PROVE  new.out[d.hash] = IF d \in In(new.s) THEN 0 ELSE d.count - 1
    <3>1. CASE d = e
      BY <2>2, <2>7, <3>1
    <3>2. CASE d # e
      <4>1. d.hash # e.hash /\ d.hash \in Opens!Hashes
        BY <1>2, <3>2, OpTableFacts DEF OpEntry
      <4> QED
        BY <2>2, <2>7, <3>2, <4>1 DEF Swept
    <3> QED
      BY <3>1, <3>2
  <2>9. \A h \in Opens!Hashes : (\A d \in In(s) : d.hash # h) => new.out[h] = 0
    BY <1>2, <2>7 DEF Swept
  <2>10. new = [i |-> new.i, s |-> new.s, out |-> new.out]
    BY <2>1
  <2> QED
    BY <2>2, <2>3, <2>4, <2>5, <2>7, <2>8, <2>9, <2>10 DEF Swept, new
<1>4. CASE e \notin gone
  <2>1. new = [i |-> st.i + 1, s |-> st.s, out |-> st.out]
    <3>1. new = [st EXCEPT !.i = @ + 1]
      BY <1>4 DEF Opens!Look
    <3> HIDE DEF new
    <3> QED
      BY <3>1 DEF Swept
  <2> HIDE DEF new
  <2>2. /\ new.i = st.i + 1 /\ new.s = st.s /\ new.out = st.out
        /\ new = [i |-> new.i, s |-> new.s, out |-> new.out]
    BY <2>1
  <2>3. /\ new.i \in 1 .. (n + 1) + 1 /\ Len(new.s) = Len(s) - (n + 1) + new.i - 1
    <3>1. st.i \in Nat /\ st.i <= n + 1 /\ st.i >= 1
      BY <1>1
    <3>2. Len(new.s) = Len(st.s) /\ Len(st.s) = Len(s) - n + st.i - 1 /\ Len(s) \in Nat
      BY <1>1, <2>2
    <3> QED
      <4>1. /\ st.i + 1 \in 1 .. (n + 1) + 1
            /\ Len(s) - n + st.i - 1 = Len(s) - (n + 1) + (st.i + 1) - 1
        BY <3>1, <3>2, IndexOfNext
      <4>2. Len(new.s) = Len(s) - n + st.i - 1
        BY <3>2
      <4> QED
        BY <2>2, <4>1, <4>2
  <2>4. \A j \in 1 .. new.i - 1 : new.s[j] \notin gone
    <3>1. \A j \in 1 .. st.i : j \in 1 .. st.i - 1 \/ j = st.i
      BY <1>1
    <3>2. 1 .. new.i - 1 = 1 .. st.i
      BY <1>1, <2>2
    <3> QED
      BY <1>1, <1>4, <2>2, <3>1, <3>2
  <2> HIDE DEF e
  <2> QED
    BY <2>2, <2>3, <2>4 DEF Swept, new
<1> QED
  BY <1>3, <1>4

\* The loop removes exactly what it is to remove, and prints it.
LEMMA SweepIs ==
  ASSUME NEW s, OpTable(s), NEW gone
  PROVE  LET swept == Opens!Sweep(s, gone) IN
         /\ OpTable(swept.s) /\ Len(swept.s) <= Len(s) /\ In(swept.s) = In(s) \ gone
         /\ swept.out \in [Opens!Hashes -> Nat]
         /\ \A e \in In(s) : swept.out[e.hash] = IF e \in gone THEN e.count - 1 ELSE 0
         /\ \A h \in Opens!Hashes : (\A e \in In(s) : e.hash # h) => swept.out[h] = 0
<1>0. Len(s) \in Nat
  BY OpTableFacts
<1>1. PICK run : /\ run[0] = OpStart(s) /\ Opens!Sweep(s, gone) = run[Len(s)]
                 /\ \A n \in 1 .. Len(s) : run[n] = Opens!Look(run[n - 1], gone)
  BY <1>0, SweepRuns
<1> DEFINE Bad == {n \in 0 .. Len(s) : ~ Swept(run[n], s, gone, n)}
<1>2. Bad = {}
  <2> SUFFICES ASSUME Bad # {}
               PROVE  FALSE
    OBVIOUS
  <2>1. PICK m \in Bad : \A k \in Bad : m <= k
    <3>1. Bad \subseteq Nat
      OBVIOUS
    <3> HIDE DEF Bad
    <3> QED
      BY <3>1, LeastOf
  <2>2. m \in 0 .. Len(s) /\ ~ Swept(run[m], s, gone, m)
    OBVIOUS
  <2>3. m # 0
    BY <1>1, <2>2, SweptAtFirst
  <2>4. m \in 1 .. Len(s) /\ m - 1 \in 0 .. Len(s) /\ m - 1 \in Nat /\ m - 1 < Len(s)
        /\ ~(m <= m - 1) /\ (m - 1) + 1 = m
    BY <1>0, <2>2, <2>3
  <2>5. Swept(run[m - 1], s, gone, m - 1)
    BY <2>1, <2>4
  <2>6. Swept(Opens!Look(run[m - 1], gone), s, gone, (m - 1) + 1)
    BY <2>4, <2>5, SweptNext
  <2> QED
    BY <1>1, <2>2, <2>4, <2>6
<1> DEFINE st == Opens!Sweep(s, gone)
<1>3. Swept(st, s, gone, Len(s))
  BY <1>0, <1>1, <1>2
<1> HIDE DEF st
<1>4. st.i \in Nat /\ Len(st.s) = st.i - 1 /\ Len(st.s) <= Len(s)
  BY <1>0, <1>3 DEF Swept
<1>5. \A e \in In(st.s) : e \notin gone
  BY <1>3, <1>4 DEF Swept, In
<1>6. In(st.s) = In(s) \ gone
  BY <1>3, <1>5 DEF Swept
<1>7. \A e \in In(s) : st.out[e.hash] = IF e \in gone THEN e.count - 1 ELSE 0
  BY <1>3, <1>6 DEF Swept
<1> QED
  BY <1>3, <1>4, <1>6, <1>7 DEF Swept, st

-----------------------------------------------------------------------------
\* What SelectInSeq finds
LEMMA LeastChosen ==
  ASSUME NEW I, I \subseteq Nat, I # {}
  PROVE  (CHOOSE x \in I : \A y \in I : x =< y) \in I
<1>1. \E x \in I : \A y \in I : x =< y
  BY LeastOf
<1> QED
  BY <1>1

EntryAt(s, h) == Opens!At(s, LAMBDA e : e.hash = h)

LEMMA FoundEntry ==
  ASSUME NEW s, OpTable(s), NEW h
  PROVE  LET i == EntryAt(s, h) IN
         IF \E e \in In(s) : e.hash = h THEN i \in 1 .. Len(s) /\ s[i].hash = h ELSE i = 0
<1> DEFINE I == {i \in 1 .. Len(s) : s[i].hash = h}
           i == EntryAt(s, h)
<1>1. i = IF I # {} THEN CHOOSE x \in I : \A y \in I : x =< y ELSE 0
  BY DEF EntryAt, Opens!At, Opens!SelectInSeq, Opens!Min
<1>2. I # {} <=> \E e \in In(s) : e.hash = h
  BY DEF In
<1>3. I \subseteq Nat /\ \A k \in I : k \in 1 .. Len(s) /\ s[k].hash = h
  OBVIOUS
<1> HIDE DEF I, i
<1>4. I # {} => i \in I
  BY <1>1, <1>3, LeastChosen
<1> QED
  BY <1>1, <1>2, <1>3, <1>4 DEF i

OpLimit == [pid : OpPids, second : Int, count : Nat, warn : BOOLEAN]

\* A table of limits: no two entries of one process, and a warning is only due to
\* those that are owed one
OpLimited(table, owed) ==
  /\ table \in Seq(OpLimit) /\ Len(table) <= OpMaxLimits
  /\ \A i, j \in 1 .. Len(table) : table[i].pid = table[j].pid => i = j
  /\ \A i \in 1 .. Len(table) : table[i].warn => owed[table[i].pid]

LEMMA FoundLimit ==
  ASSUME NEW s, NEW owed, OpLimited(s, owed), NEW p
  PROVE  LET i == Opens!At(s, LAMBDA l : l.pid = p) IN
         /\ i \in Nat /\ i <= Len(s)
         /\ IF i = 0 THEN \A k \in 1 .. Len(s) : s[k].pid # p
                     ELSE i \in 1 .. Len(s) /\ s[i].pid = p
<1> DEFINE I == {i \in 1 .. Len(s) : s[i].pid = p}
           i == Opens!At(s, LAMBDA l : l.pid = p)
<1>0. Len(s) \in Nat
  BY DEF OpLimited
<1>1. i = IF I # {} THEN CHOOSE x \in I : \A y \in I : x =< y ELSE 0
  BY DEF Opens!At, Opens!SelectInSeq, Opens!Min
<1>2. I # {} <=> \E k \in 1 .. Len(s) : s[k].pid = p
  OBVIOUS
<1>3. I \subseteq Nat /\ \A k \in I : k \in 1 .. Len(s) /\ s[k].pid = p /\ k # 0 /\ k <= Len(s)
  BY <1>0
<1> HIDE DEF I, i
<1>4. I # {} => i \in I
  BY <1>1, <1>3, LeastChosen
<1> QED
  BY <1>0, <1>1, <1>2, <1>3, <1>4 DEF i

WarningAt(s, p) == Opens!At(s, LAMBDA l : l.pid = p /\ l.warn)

LEMMA FoundWarning ==
  ASSUME NEW s, NEW owed, OpLimited(s, owed), NEW p
  PROVE  LET i == WarningAt(s, p) IN
         IF i = 0 THEN \A k \in 1 .. Len(s) : ~(s[k].pid = p /\ s[k].warn)
                  ELSE i \in 1 .. Len(s) /\ s[i].pid = p /\ s[i].warn
<1> DEFINE I == {i \in 1 .. Len(s) : s[i].pid = p /\ s[i].warn}
           i == WarningAt(s, p)
<1>0. Len(s) \in Nat
  BY DEF OpLimited
<1>1. i = IF I # {} THEN CHOOSE x \in I : \A y \in I : x =< y ELSE 0
  BY DEF WarningAt, Opens!At, Opens!SelectInSeq, Opens!Min
<1>2. I # {} <=> \E k \in 1 .. Len(s) : s[k].pid = p /\ s[k].warn
  OBVIOUS
<1>3. I \subseteq Nat /\ \A k \in I : k \in 1 .. Len(s) /\ s[k].pid = p /\ s[k].warn /\ k # 0
  BY <1>0
<1> HIDE DEF I, i
<1>4. I # {} => i \in I
  BY <1>1, <1>3, LeastChosen
<1> QED
  BY <1>1, <1>2, <1>3, <1>4 DEF i

-----------------------------------------------------------------------------
\* What is to be added is a matter of the entries with the hash.
LEMMA LaterNat ==
  ASSUME NEW s, OpTable(s), NEW h, NEW of
  PROVE  Opens!Later(s, h, of) \in Nat
<1>1. CASE \E e \in In(s) : e.hash = h
  <2>1. PICK e \in In(s) : e.hash = h
    BY <1>1
  <2>2. e.count - 1 \in Nat
    BY OpTableFacts DEF OpEntry
  <2> QED
    BY <2>1, <2>2, LaterOfEntry
<1>2. CASE \A e \in In(s) : e.hash # h
  BY <1>2, LaterOfNone
<1> QED
  BY <1>1, <1>2

LEMMA LaterSame ==
  ASSUME NEW s, OpTable(s), NEW t, OpTable(t), NEW h, NEW of,
         \A e : e.hash = h => (e \in In(s) <=> e \in In(t))
  PROVE  Opens!Later(s, h, of) = Opens!Later(t, h, of)
<1>1. CASE \E e \in In(s) : e.hash = h
  <2>1. PICK e \in In(s) : e.hash = h
    BY <1>1
  <2>2. e \in In(t)
    BY <2>1
  <2> QED
    BY <2>1, <2>2, LaterOfEntry
<1>2. CASE \A e \in In(s) : e.hash # h
  BY <1>2, LaterOfNone
<1> QED
  BY <1>1, <1>2

\* What expires is printed, the rest stays to be added.
LEMMA LaterSwept ==
  ASSUME NEW s, OpTable(s), NEW gone, NEW h \in Opens!Hashes, \A e \in In(s) : e.pid \in OpPids
  PROVE  Opens!Sweep(s, gone).out[h] + Opens!Later(Opens!Sweep(s, gone).s, h, OpPids)
           = Opens!Later(s, h, OpPids)
<1> DEFINE st == Opens!Sweep(s, gone)
<1>1. /\ OpTable(st.s) /\ In(st.s) = In(s) \ gone
      /\ \A e \in In(s) : st.out[e.hash] = IF e \in gone THEN e.count - 1 ELSE 0
      /\ (\A e \in In(s) : e.hash # h) => st.out[h] = 0
  BY SweepIs
<1> HIDE DEF st
<1>2. CASE \E e \in In(s) : e.hash = h
  <2>1. PICK e \in In(s) : e.hash = h
    BY <1>2
  <2>2. Opens!Later(s, h, OpPids) = e.count - 1 /\ e.count - 1 \in Nat
    BY <2>1, LaterOfEntry, OpTableFacts DEF OpEntry
  <2>3. CASE e \in gone
    <3>1. \A d \in In(st.s) : d.hash # h
      BY <1>1, <2>1, <2>3, OpTableFacts
    <3>2. Opens!Later(st.s, h, OpPids) = 0
      BY <1>1, <3>1, LaterOfNone
    <3> QED
      BY <1>1, <2>1, <2>2, <2>3, <3>2 DEF st
  <2>4. CASE e \notin gone
    <3>1. e \in In(st.s)
      BY <1>1, <2>4
    <3>2. Opens!Later(st.s, h, OpPids) = e.count - 1
      BY <1>1, <2>1, <3>1, LaterOfEntry
    <3> QED
      BY <1>1, <2>1, <2>2, <2>4, <3>2 DEF st
  <2> QED
    BY <2>3, <2>4
<1>3. CASE \A e \in In(s) : e.hash # h
  <2>1. Opens!Later(s, h, OpPids) = 0
    BY <1>3, LaterOfNone
  <2>2. \A e \in In(st.s) : e.hash # h
    BY <1>1, <1>3
  <2>3. Opens!Later(st.s, h, OpPids) = 0
    BY <1>1, <2>2, LaterOfNone
  <2> QED
    BY <1>1, <1>3, <2>1, <2>3 DEF st
<1> QED
  BY <1>2, <1>3

-----------------------------------------------------------------------------
LEMMA LimitFacts ==
  ASSUME NEW s, NEW owed, OpLimited(s, owed)
  PROVE  /\ s \in Seq(OpLimit) /\ Len(s) \in Nat /\ Len(s) <= OpMaxLimits
         /\ OpMaxLimits \in Nat
         /\ \A k, l \in 1 .. Len(s) : s[k].pid = s[l].pid => k = l
         /\ \A k \in 1 .. Len(s) : /\ s[k] \in OpLimit /\ s[k].pid \in OpPids
                                   /\ s[k].warn => owed[s[k].pid]
<1>1. s \in Seq(OpLimit)
  BY DEF OpLimited
<1>2. \A k \in 1 .. Len(s) : s[k] \in OpLimit
  BY <1>1
<1>3. \A l \in OpLimit : l.pid \in OpPids
  BY DEF OpLimit
<1> QED
  BY <1>1, <1>2, <1>3, OpAssumed DEF OpLimited

\* should_rate_limit_file keeps the table, and takes a warning back when it is
\* printed.  What it leaves owed depends on what becomes of the open.
LEMMA LimitKept ==
  ASSUME OpLimited(opLimits, opOwed), opOwed \in [OpPids -> BOOLEAN],
         NEW p \in OpPids, NEW ts \in Int, NEW owed, owed \in [OpPids -> BOOLEAN],
         \A q \in OpPids \ {p} : owed[q] = opOwed[q],
         LET limit == Opens!Limit(p, ts) IN
           IF limit.drop THEN owed[p] ELSE opOwed[p] /\ ~limit.warn => owed[p]
  PROVE  OpLimited(Opens!Limit(p, ts).limits, owed)
<1> DEFINE i     == Opens!At(opLimits, LAMBDA l : l.pid = p)
           new   == [pid |-> p, second |-> ts \div OpSecond, count |-> 0, warn |-> FALSE]
           table == IF i = 0 /\ Len(opLimits) < OpMaxLimits THEN Append(opLimits, new)
                    ELSE opLimits
           j     == IF i = 0 THEN Len(opLimits) + 1 ELSE i
           entry == Opens!Limited(ts, table[j])
           limit == Opens!Limit(p, ts)
<1>1. /\ i \in Nat /\ i <= Len(opLimits)
      /\ IF i = 0 THEN \A k \in 1 .. Len(opLimits) : opLimits[k].pid # p
                  ELSE i \in 1 .. Len(opLimits) /\ opLimits[i].pid = p
  BY FoundLimit
<1>2. limit = IF j > Len(table) THEN [limits |-> table, drop |-> FALSE, warn |-> FALSE]
              ELSE [limits |-> [table EXCEPT ![j] = entry], drop |-> entry.count > OpPerSecond,
                    warn |-> table[j].warn /\ entry.second # table[j].second]
  BY DEF Opens!Limit
<1>3. opLimits \in Seq(OpLimit) /\ Len(opLimits) \in Nat /\ Len(opLimits) <= OpMaxLimits
  BY DEF OpLimited
<1>4. ts \div OpSecond \in Int /\ OpMaxLimits \in Nat
  BY OpAssumed
<1> HIDE DEF i, limit
<1>5. CASE j > Len(table)
  <2>1. i = 0 /\ table = opLimits
    BY <1>1, <1>3, <1>4, <1>5
  <2>2. limit.limits = opLimits
    BY <1>2, <1>5, <2>1
  <2>3. \A k \in 1 .. Len(opLimits) : opLimits[k].pid \in OpPids \ {p}
    <3>1. \A k \in 1 .. Len(opLimits) : opLimits[k].pid \in OpPids
      BY LimitFacts
    <3> QED
      BY <1>1, <2>1, <3>1
  <2>4. \A k \in 1 .. Len(opLimits) : opLimits[k].warn => owed[opLimits[k].pid]
    BY <2>3 DEF OpLimited
  <2> HIDE DEF table, j, entry, new
  <2> QED
    BY <2>2, <2>4 DEF OpLimited, limit
<1>6. CASE ~(j > Len(table))
  <2>1. /\ table \in Seq(OpLimit) /\ Len(table) \in Nat /\ Len(table) <= OpMaxLimits
        /\ j \in 1 .. Len(table) /\ table[j].pid = p
        /\ \A k, l \in 1 .. Len(table) : table[k].pid = table[l].pid => k = l
        /\ \A k \in 1 .. Len(table) : table[k].warn => opOwed[table[k].pid]
    <3>1. CASE i = 0
      <4>1. Len(opLimits) < OpMaxLimits
        BY <1>1, <1>3, <1>4, <1>6, <3>1
      <4>2. table = Append(opLimits, new) /\ j = Len(opLimits) + 1
        BY <3>1, <4>1
      <4>3. new \in OpLimit /\ new.pid = p /\ ~new.warn
        BY <1>4 DEF OpLimit
      <4> HIDE DEF table, j, entry, new
      <4>4. /\ table \in Seq(OpLimit) /\ Len(table) = Len(opLimits) + 1
            /\ \A k \in 1 .. Len(opLimits) : table[k] = opLimits[k]
            /\ table[Len(opLimits) + 1] = new
        BY <1>3, <4>2, <4>3
      <4>5. \A k \in 1 .. Len(table) : k \in 1 .. Len(opLimits) \/ k = Len(opLimits) + 1
        BY <1>3, <4>4
      <4>6. j \in 1 .. Len(table) /\ table[j].pid = p /\ Len(table) <= OpMaxLimits
            /\ Len(table) \in Nat
        BY <1>3, <1>4, <4>1, <4>2, <4>3, <4>4
      <4>7. \A k \in 1 .. Len(table) : table[k].warn => opOwed[table[k].pid]
        BY <4>3, <4>4, <4>5 DEF OpLimited
      <4>8. \A k, l \in 1 .. Len(table) : table[k].pid = table[l].pid => k = l
        BY <1>1, <3>1, <4>3, <4>4, <4>5 DEF OpLimited
      <4> QED
        BY <4>4, <4>6, <4>7, <4>8
    <3>2. CASE i # 0
      <4>1. table = opLimits /\ j = i
        BY <3>2
      <4> HIDE DEF table, j, entry, new
      <4> QED
        BY <1>1, <1>3, <3>2, <4>1 DEF OpLimited
    <3> QED
      BY <3>1, <3>2
  <2>2. /\ entry \in OpLimit /\ entry.pid = p
        /\ entry.warn <=> \/ entry.count > OpPerSecond
                          \/ entry.second = table[j].second /\ table[j].warn
    <3> DEFINE old == table[j]
               second == ts \div OpSecond
               count == IF old.second # second THEN 1 ELSE old.count + 1
               warn == count > OpPerSecond \/ (~(old.second # second) /\ old.warn)
    <3>1. entry = [pid |-> old.pid, second |-> second, count |-> count, warn |-> warn]
      BY DEF Opens!Limited
    <3> HIDE DEF table, j, entry, new
    <3>2. old \in OpLimit
      BY <2>1
    <3>3. old.pid = p /\ old.count \in Nat /\ old.second \in Int /\ old.warn \in BOOLEAN
      BY <2>1, <3>2 DEF OpLimit
    <3>4. second \in Int
      BY <1>4
    <3> HIDE DEF old, second
    <3>5. count \in Nat
      BY <3>3
    <3> HIDE DEF count
    <3>6. warn \in BOOLEAN /\ (warn <=> count > OpPerSecond \/ (second = old.second /\ old.warn))
      BY Zenon
    <3> HIDE DEF warn
    <3>7. entry \in OpLimit
      BY <3>1, <3>3, <3>4, <3>5, <3>6 DEF OpLimit
    <3>8. entry.pid = p /\ entry.warn = warn /\ entry.second = second /\ entry.count = count
      BY <3>1, <3>3
    <3> QED
      BY <3>6, <3>7, <3>8, Zenon DEF old
  <2>3. /\ limit.limits = [table EXCEPT ![j] = entry]
        /\ limit.drop = (entry.count > OpPerSecond)
        /\ limit.warn = (table[j].warn /\ entry.second # table[j].second)
    <3> HIDE DEF table, j, entry, new
    <3> QED
      BY <1>2, <1>6
  <2> DEFINE out == [table EXCEPT ![j] = entry]
  <2> HIDE DEF table, j, entry, new
  <2>4. /\ out \in Seq(OpLimit) /\ Len(out) = Len(table)
        /\ \A k \in 1 .. Len(table) : out[k] = IF k = j THEN entry ELSE table[k]
    BY <2>1, <2>2
  <2> HIDE DEF out
  <2>5. \A k, l \in 1 .. Len(out) : out[k].pid = out[l].pid => k = l
    BY <2>1, <2>2, <2>4
  <2>6. entry.warn => owed[p]
    <3>1. CASE entry.count > OpPerSecond
      BY <2>3, <3>1 DEF limit
    <3>2. CASE ~(entry.count > OpPerSecond)
      <4>1. SUFFICES ASSUME entry.warn
                     PROVE  owed[p]
        OBVIOUS
      <4>2. entry.second = table[j].second /\ table[j].warn
        BY <2>2, <3>2, <4>1
      <4>3. opOwed[p] /\ ~limit.warn /\ ~limit.drop
        BY <2>1, <2>3, <3>2, <4>2
      <4> QED
        BY <4>3 DEF limit
    <3> QED
      BY <3>1, <3>2
  <2>7. ASSUME NEW k \in 1 .. Len(out), out[k].warn
        PROVE  owed[out[k].pid]
    <3>1. CASE k = j
      BY <2>1, <2>2, <2>4, <2>6, <2>7, <3>1
    <3>2. CASE k # j
      <4>1. out[k] = table[k] /\ table[k].pid \in OpPids \ {p} /\ opOwed[table[k].pid]
        <5>1. k \in 1 .. Len(table) /\ out[k] = table[k]
          BY <2>4, <3>2
        <5>2. table[k].pid # p
          BY <2>1, <3>2, <5>1
        <5>3. table[k] \in OpLimit
          BY <2>1, <5>1
        <5>4. table[k].pid \in OpPids
          BY <5>3 DEF OpLimit
        <5>5. table[k].warn
          BY <2>7, <5>1
        <5> QED
          BY <2>1, <5>1, <5>2, <5>4, <5>5
      <4> QED
        BY <4>1
    <3> QED
      BY <3>1, <3>2
  <2>8. Len(out) <= OpMaxLimits
    BY <2>1, <2>4
  <2> QED
    BY <2>3, <2>4, <2>5, <2>7, <2>8 DEF OpLimited, out, limit
<1> QED
  BY <1>5, <1>6

\* An exit takes the warning of the process away.
LEMMA LimitsLeft ==
  ASSUME OpLimited(opLimits, opOwed), opOwed \in [OpPids -> BOOLEAN], NEW p \in OpPids
  PROVE  LET i == WarningAt(opLimits, p) IN
         OpLimited(IF i = 0 THEN opLimits ELSE Opens!MoveLast(opLimits, i),
                   [opOwed EXCEPT ![p] = FALSE])
<1> DEFINE i == WarningAt(opLimits, p)
           owed == [opOwed EXCEPT ![p] = FALSE]
           n == Len(opLimits)
           r == Opens!MoveLast(opLimits, i)
<1>1. IF i = 0 THEN \A k \in 1 .. n : ~(opLimits[k].pid = p /\ opLimits[k].warn)
               ELSE i \in 1 .. n /\ opLimits[i].pid = p /\ opLimits[i].warn
  BY FoundWarning
<1>2. /\ opLimits \in Seq(OpLimit) /\ n \in Nat /\ n <= OpMaxLimits /\ OpMaxLimits \in Nat
      /\ \A k, l \in 1 .. n : opLimits[k].pid = opLimits[l].pid => k = l
      /\ \A k \in 1 .. n : opLimits[k].pid \in OpPids
      /\ \A k \in 1 .. n : opLimits[k].warn => opOwed[opLimits[k].pid]
  BY LimitFacts
<1>3. \A q \in OpPids : owed[q] = IF q = p THEN FALSE ELSE opOwed[q]
  OBVIOUS
<1> HIDE DEF i, owed, r
<1>4. CASE i = 0
  <2>1. \A k \in 1 .. n : opLimits[k].warn => owed[opLimits[k].pid]
    BY <1>1, <1>2, <1>3, <1>4
  <2> QED
    BY <1>2, <1>4, <2>1 DEF OpLimited, i, owed
<1>5. CASE i # 0
  <2>0. i \in 1 .. n
    BY <1>1, <1>5
  <2>1. /\ r \in Seq(OpLimit) /\ Len(r) = n - 1
        /\ \A j \in 1 .. n - 1 : r[j] = IF j = i THEN opLimits[n] ELSE opLimits[j]
    BY <1>2, <2>0, MoveLastIs DEF r
  <2> DEFINE at(m) == IF m = i THEN n ELSE m
  <2>2. \A j \in 1 .. n - 1 : at(j) \in 1 .. n /\ at(j) # i /\ r[j] = opLimits[at(j)]
    BY <1>2, <2>0, <2>1
  <2>3. \A j, k \in 1 .. n - 1 : at(j) = at(k) => j = k
    BY <1>2, <2>0
  <2> HIDE DEF at
  <2>4. \A j, k \in 1 .. n - 1 : r[j].pid = r[k].pid => j = k
    BY <1>2, <2>2, <2>3
  <2>5. \A j \in 1 .. n - 1 : r[j].warn => owed[r[j].pid]
    <3> SUFFICES ASSUME NEW j \in 1 .. n - 1, r[j].warn
                 PROVE  owed[r[j].pid]
      OBVIOUS
    <3>1. PICK m \in 1 .. n : m # i /\ r[j] = opLimits[m]
      BY <2>2
    <3>2. opLimits[m].pid # opLimits[i].pid /\ opLimits[m].pid \in OpPids
      BY <1>2, <2>0, <3>1
    <3>3. opOwed[opLimits[m].pid] /\ opLimits[i].pid = p
      BY <1>1, <1>2, <1>5, <3>1
    <3> QED
      BY <1>3, <3>1, <3>2, <3>3
  <2>6. Len(r) <= OpMaxLimits
    BY <1>2, <2>1
  <2> QED
    BY <1>5, <2>1, <2>4, <2>5, <2>6 DEF OpLimited, i, owed, r
<1> QED
  BY <1>4, <1>5

-----------------------------------------------------------------------------
\* One more open of an entry
Newer(e, ts) == [hash |-> e.hash, pid |-> e.pid, ts |-> ts, count |-> e.count + 1]

Bump(s, i, ts) == [s EXCEPT ![i] = Opens!Again(s[i], ts)]

LEMMA Bumped ==
  ASSUME NEW s, OpTable(s), NEW i, i \in 1 .. Len(s), NEW ts, ts \in Nat
  PROVE  /\ OpTable(Bump(s, i, ts)) /\ Len(Bump(s, i, ts)) = Len(s)
         /\ In(Bump(s, i, ts)) = (In(s) \ {s[i]}) \cup {Newer(s[i], ts)}
         /\ Opens!Later(Bump(s, i, ts), s[i].hash, OpPids)
              = Opens!Later(s, s[i].hash, OpPids) + 1
         /\ \A g : g # s[i].hash =>
              Opens!Later(Bump(s, i, ts), g, OpPids) = Opens!Later(s, g, OpPids)
<1> DEFINE old == s[i]
           new == [hash |-> old.hash, pid |-> old.pid, ts |-> ts, count |-> old.count + 1]
           r   == [s EXCEPT ![i] = Opens!Again(s[i], ts)]
           n   == Len(s)
<1>1. /\ s \in Seq(OpEntry) /\ n \in Nat /\ i \in 1 .. n /\ old \in OpEntry /\ old \in In(s)
      /\ \A j, k \in 1 .. n : s[j].hash = s[k].hash => j = k
  BY OpTableFacts DEF OpTable
<1>2. /\ old.hash \in Opens!Hashes /\ old.pid \in OpPids /\ old.count \in Nat \ {0}
      /\ old = [hash |-> old.hash, pid |-> old.pid, ts |-> old.ts, count |-> old.count]
  BY <1>1 DEF OpEntry
<1>3. [old EXCEPT !.ts = ts, !.count = @ + 1] = new
  <2> HIDE DEF old
  <2>1. DOMAIN old = {"hash", "pid", "ts", "count"}
    BY <1>1 DEF OpEntry
  <2> DEFINE up == [old EXCEPT !.ts = ts, !.count = @ + 1]
  <2>2. up = [x \in {"hash", "pid", "ts", "count"} |->
               IF x = "count" THEN old.count + 1 ELSE IF x = "ts" THEN ts ELSE old[x]]
    BY <2>1
  <2> QED
    BY <2>2
<1>4. r = [s EXCEPT ![i] = new]
  BY <1>3, Zenon DEF Opens!Again
<1>5. new \in OpEntry /\ new.hash = old.hash /\ new.pid = old.pid /\ new.count = old.count + 1
  <2>1. old.count + 1 \in Nat \ {0}
    BY <1>2
  <2> HIDE DEF old
  <2> QED
    BY <1>2, <2>1 DEF OpEntry
<1> HIDE DEF r, new, old
<1>6. /\ r \in Seq(OpEntry) /\ Len(r) = n
      /\ \A j \in 1 .. n : r[j] = IF j = i THEN new ELSE s[j]
  BY <1>1, <1>4, <1>5
<1>7. OpTable(r)
  <2>1. \A j \in 1 .. n : r[j].hash = s[j].hash
    BY <1>5, <1>6 DEF old
  <2> QED
    BY <1>1, <1>6, <2>1 DEF OpTable
<1>8. In(r) = (In(s) \ {old}) \cup {new}
  <2>1. ASSUME NEW e \in In(r)
        PROVE  e \in (In(s) \ {old}) \cup {new}
    <3>1. PICK j \in 1 .. n : e = r[j]
      BY <1>6 DEF In
    <3>2. CASE j = i
      BY <1>6, <3>1, <3>2
    <3>3. CASE j # i
      <4>1. e = s[j] /\ s[j] \in In(s) /\ s[j] # old
        BY <1>1, <1>6, <3>1, <3>3 DEF In, old
      <4> QED
        BY <4>1
    <3> QED
      BY <3>2, <3>3
  <2>2. ASSUME NEW e \in In(s) \ {old}
        PROVE  e \in In(r)
    <3>1. PICK j \in 1 .. n : e = s[j]
      BY DEF In
    <3>2. j # i /\ r[j] = e
      BY <1>6, <3>1 DEF old
    <3> QED
      BY <1>6, <3>2 DEF In
  <2>3. new \in In(r)
    <3>1. r[i] = new
      BY <1>1, <1>6
    <3> QED
      BY <1>1, <1>6, <3>1 DEF In
  <2> QED
    BY <2>1, <2>2, <2>3
<1>9. Opens!Later(r, old.hash, OpPids) = Opens!Later(s, old.hash, OpPids) + 1
  <2>1. Opens!Later(s, old.hash, OpPids) = old.count - 1
    BY <1>1, <1>2, LaterOfEntry
  <2>2. new \in In(r)
    BY <1>8
  <2>3. Opens!Later(r, new.hash, OpPids) = new.count - 1
    BY <1>2, <1>5, <1>7, <2>2, LaterOfEntry
  <2> QED
    BY <1>2, <1>5, <2>1, <2>3
<1>10. ASSUME NEW g, g # old.hash
       PROVE  Opens!Later(r, g, OpPids) = Opens!Later(s, g, OpPids)
  <2>1. \A e : e.hash = g => (e \in In(s) <=> e \in In(r))
    BY <1>5, <1>8, <1>10
  <2> QED
    BY <1>7, <2>1, LaterSame
<1>11. Bump(s, i, ts) = r /\ Newer(s[i], ts) = new /\ s[i] = old
  BY DEF r, new, old, Bump, Newer
<1> QED
  BY <1>6, <1>7, <1>8, <1>9, <1>10, <1>11

\* A new entry, for a first open
LEMMA FirstAdded ==
  ASSUME NEW s, OpTable(s), NEW first, first \in OpEntry, first.count = 1,
         \A e \in In(s) : e.hash # first.hash
  PROVE  /\ OpTable(Append(s, first)) /\ Len(Append(s, first)) = Len(s) + 1
         /\ In(Append(s, first)) = In(s) \cup {first}
         /\ \A g : Opens!Later(Append(s, first), g, OpPids) = Opens!Later(s, g, OpPids)
<1> DEFINE r == Append(s, first)
           n == Len(s)
<1>1. /\ s \in Seq(OpEntry) /\ n \in Nat
      /\ \A j, k \in 1 .. n : s[j].hash = s[k].hash => j = k
      /\ \A j \in 1 .. n : s[j] \in In(s)
  BY OpTableFacts DEF OpTable
<1>2. /\ r \in Seq(OpEntry) /\ Len(r) = n + 1 /\ r[n + 1] = first
      /\ \A j \in 1 .. n : r[j] = s[j]
  BY <1>1
<1> HIDE DEF r
<1>3. \A j \in 1 .. n + 1 : j \in 1 .. n \/ j = n + 1
  BY <1>1
<1>4. OpTable(r)
  <2>1. \A j \in 1 .. n : s[j].hash # first.hash
    BY <1>1
  <2>2. \A j, k \in 1 .. n + 1 : r[j].hash = r[k].hash => j = k
    BY <1>1, <1>2, <1>3, <2>1
  <2> QED
    BY <1>2, <2>2 DEF OpTable
<1>5. In(r) = In(s) \cup {first}
  <2>1. \A j \in 1 .. n : j \in 1 .. n + 1
    BY <1>1
  <2>2. n + 1 \in 1 .. n + 1
    BY <1>1
  <2>3. ASSUME NEW e \in In(s)
        PROVE  e \in In(r)
    <3>1. PICK j \in 1 .. n : e = s[j]
      BY DEF In
    <3> QED
      BY <1>2, <2>1, <3>1 DEF In
  <2>4. first \in In(r)
    BY <1>2, <2>2 DEF In
  <2>5. ASSUME NEW e \in In(r)
        PROVE  e \in In(s) \cup {first}
    <3>1. PICK j \in 1 .. n + 1 : e = r[j]
      BY <1>2 DEF In
    <3> QED
      BY <1>1, <1>2, <1>3, <3>1
  <2> QED
    BY <2>3, <2>4, <2>5
<1>6. ASSUME NEW g
      PROVE  Opens!Later(r, g, OpPids) = Opens!Later(s, g, OpPids)
  <2>1. CASE g = first.hash
    <3>1. Opens!Later(s, g, OpPids) = 0
      BY <2>1, LaterOfNone
    <3>2. first \in In(r) /\ first.pid \in OpPids /\ first.count - 1 = 0
      BY <1>5 DEF OpEntry
    <3>3. Opens!Later(r, first.hash, OpPids) = 0
      BY <1>4, <3>2, LaterOfEntry
    <3> QED
      BY <2>1, <3>1, <3>3
  <2>2. CASE g # first.hash
    <3>1. \A e : e.hash = g => (e \in In(s) <=> e \in In(r))
      BY <1>5, <2>2
    <3> QED
      BY <1>4, <3>1, LaterSame
  <2> QED
    BY <2>1, <2>2
<1> QED
  BY <1>2, <1>4, <1>5, <1>6 DEF r

-----------------------------------------------------------------------------
\* The invariant: the tables keep their shape, and every accepted open is in a line
\* or in an entry.
OpShape ==
  /\ OpTable(opHashes) /\ Len(opHashes) <= OpMaxHashes
  /\ opOwed \in [OpPids -> BOOLEAN] /\ OpLimited(opLimits, opOwed)
  /\ opAccepted \in [Opens!Hashes -> Nat]
  /\ opFirsts \in [Opens!Hashes -> Nat] /\ opLater \in [Opens!Hashes -> Nat]

OpTold == \A h \in Opens!Hashes :
  opAccepted[h] = opFirsts[h] + opLater[h] + Opens!Later(opHashes, h, OpPids)

\* As long as timestamps are in order, a file whose hash is its own has the entry of
\* its last open, until the window ends.
OpTimes ==
  /\ opClock \in Nat /\ opSeen \in [Opens!Files -> Nat \cup {OpNone}] /\ opLate \in BOOLEAN

OpRecent == ~opLate => \A f \in Opens!Unshared :
  /\ opSeen[f] # OpNone =>
       /\ opSeen[f] <= opClock
       /\ opClock <= opSeen[f] + OpWindow =>
            \E e \in In(opHashes) : e.hash = OpHash[f] /\ e.ts = opSeen[f]
  /\ \A e \in In(opHashes) : e.hash = OpHash[f] => e.pid = f[1] /\ e.ts = opSeen[f]

LEMMA FilesAre ==
  /\ \A p \in OpPids, f \in OpPaths : /\ <<p, f>> \in Opens!Files /\ <<p, f>>[1] = p
                                      /\ OpHash[<<p, f>>] \in Opens!Hashes
  /\ \A g \in Opens!Files : OpHash[g] \in Opens!Hashes /\ g[1] \in OpPids
  /\ Opens!Unshared \subseteq Opens!Files
  /\ \A g \in Opens!Unshared, f \in Opens!Files : OpHash[f] = OpHash[g] => f = g
<1>1. \A p \in OpPids, f \in OpPaths : <<p, f>> \in Opens!Files /\ <<p, f>>[1] = p
  BY DEF Opens!Files
<1>2. \A g \in Opens!Files : OpHash[g] \in Opens!Hashes
  BY DEF Opens!Hashes
<1>3. \A g \in Opens!Files : g[1] \in OpPids
  BY DEF Opens!Files
<1> QED
  BY <1>1, <1>2, <1>3 DEF Opens!Unshared

LEMMA OpAtFirst == Opens!Init => OpShape /\ OpTold /\ OpTimes /\ OpRecent
<1> SUFFICES ASSUME Opens!Init
             PROVE  OpShape /\ OpTold /\ OpTimes /\ OpRecent
  OBVIOUS
<1>1. OpTable(opHashes) /\ opHashes = << >> /\ In(opHashes) = {} /\ Len(opHashes) = 0
  BY DEF OpTable, In, Opens!Init
<1>2. OpShape
  <2>1. OpMaxHashes \in Nat /\ OpMaxLimits \in Nat
    BY OpAssumed
  <2>2. OpLimited(opLimits, opOwed)
    <3>1. opLimits = << >> /\ Len(opLimits) = 0 /\ opLimits \in Seq(OpLimit)
      BY DEF Opens!Init
    <3> QED
      BY <2>1, <3>1 DEF OpLimited
  <2> QED
    BY <1>1, <2>1, <2>2 DEF OpShape, Opens!Init
<1>3. OpTold
  <2>1. \A h : Opens!Later(opHashes, h, OpPids) = 0
    BY <1>1, LaterOfNone
  <2> QED
    BY <2>1 DEF OpTold, Opens!Init
<1>4. OpTimes
  BY DEF OpTimes, Opens!Init
<1>5. OpRecent
  BY <1>1, FilesAre DEF OpRecent, Opens!Init
<1> QED
  BY <1>2, <1>3, <1>4, <1>5

-----------------------------------------------------------------------------
\* The entries that stay, at a time that is in range
LEMMA LiveIs ==
  ASSUME OpShape, NEW ts
  PROVE  /\ OpTable(Opens!Live(ts).s) /\ Len(Opens!Live(ts).s) <= OpMaxHashes
         /\ In(Opens!Live(ts).s) = {e \in In(opHashes) : ~ Opens!Expired(e, ts)}
         /\ Opens!Live(ts).out \in [Opens!Hashes -> Nat]
         /\ \A h \in Opens!Hashes : Opens!Live(ts).out[h] + Opens!Later(Opens!Live(ts).s, h, OpPids)
                                      = Opens!Later(opHashes, h, OpPids)
<1> DEFINE gone == {e \in Opens!ToSet(opHashes) : Opens!Expired(e, ts)}
<1>1. OpTable(opHashes) /\ Len(opHashes) <= OpMaxHashes /\ OpMaxHashes \in Nat
  BY OpAssumed DEF OpShape
<1>2. Opens!ToSet(opHashes) = In(opHashes) /\ Len(opHashes) \in Nat
  BY <1>1, OpWords, OpTableFacts DEF In
<1>3. In(opHashes) \ gone = {e \in In(opHashes) : ~ Opens!Expired(e, ts)}
  BY <1>2
<1>4. Opens!Live(ts) = Opens!Sweep(opHashes, gone)
  BY DEF Opens!Live
<1>5. \A e \in In(opHashes) : e.pid \in OpPids
  BY <1>1, OpTableFacts DEF OpEntry
<1> HIDE DEF gone
<1> DEFINE st == Opens!Sweep(opHashes, gone)
<1>6. /\ OpTable(st.s) /\ Len(st.s) <= Len(opHashes) /\ In(st.s) = In(opHashes) \ gone
      /\ st.out \in [Opens!Hashes -> Nat]
  BY <1>1, SweepIs
<1>7. \A h \in Opens!Hashes : st.out[h] + Opens!Later(st.s, h, OpPids)
                                = Opens!Later(opHashes, h, OpPids)
  BY <1>1, <1>5, LaterSwept
<1>8. Len(st.s) <= OpMaxHashes
  <2>1. Len(st.s) \in Nat
    BY <1>6, OpTableFacts
  <2> HIDE DEF st
  <2> QED
    BY <1>1, <1>2, <1>6, <2>1
<1> HIDE DEF st
<1> QED
  BY <1>3, <1>4, <1>6, <1>7, <1>8 DEF st

\* The unsigned subtraction is the signed one for the opens of the past.
LEMMA ExpiredIs ==
  ASSUME NEW ts \in 0 .. OpMaxTime, NEW e, e.ts \in Nat, e.ts <= ts
  PROVE  Opens!Expired(e, ts) <=> ts - e.ts > OpWindow
<1>1. /\ OpWide \in Nat /\ OpWindow \in Nat /\ OpMaxTime \in Nat
      /\ OpWide > OpMaxTime + OpWindow
  BY OpAssumed
<1>2. ts - e.ts \in Nat /\ ts - e.ts < OpWide
  BY <1>1
<1>3. (ts - e.ts) % OpWide = ts - e.ts
  BY <1>1, <1>2
<1> QED
  BY <1>3 DEF Opens!Expired

\* The rest of get_file_open_count: an entry is found, or added, or there is no room.
Found(p, f, ts, warn) ==
  LET h == OpHash[<<p, f>>]
      s == Opens!Live(ts).s
      i == EntryAt(s, h)
  IN  /\ i # 0
      /\ opHashes' = [s EXCEPT ![i] = Opens!Again(s[i], ts)]
      /\ opFirsts' = opFirsts /\ opOwed' = opOwed
      /\ opSeen' = [opSeen EXCEPT ![<<p, f>>] = ts]

First(p, f, ts, warn) ==
  LET h == OpHash[<<p, f>>]
      s == Opens!Live(ts).s
      i == EntryAt(s, h)
  IN  /\ i = 0
      /\ \/ /\ Len(s) < OpMaxHashes
            /\ opHashes' = Append(s, [hash |-> h, pid |-> p, ts |-> ts, count |-> 1])
            /\ opSeen' = [opSeen EXCEPT ![<<p, f>>] = ts]
         \/ /\ opHashes' = s
            /\ opSeen' = [opSeen EXCEPT ![<<p, f>>] = OpNone]
      /\ opFirsts' = [opFirsts EXCEPT ![h] = @ + 1]
      /\ opOwed' = [opOwed EXCEPT ![p] = @ /\ ~warn]

LEMMA Aggregation ==
  ASSUME OpShape, NEW p \in OpPids, NEW f \in OpPaths, NEW ts, NEW warn,
         Opens!Aggregate(p, f, ts, warn)
  PROVE  /\ opAccepted' = [opAccepted EXCEPT ![OpHash[<<p, f>>]] = @ + 1]
         /\ opLater' = [g \in Opens!Hashes |-> opLater[g] + Opens!Live(ts).out[g]]
         /\ Found(p, f, ts, warn) \/ First(p, f, ts, warn)
<1> DEFINE h == OpHash[<<p, f>>]
           s == Opens!Live(ts).s
           i == EntryAt(s, h)
<1>1. Len(s) \in Nat /\ OpMaxHashes \in Nat
  BY LiveIs, OpTableFacts, OpAssumed
<1>2. Opens!IsFull(s) <=> ~(Len(s) < OpMaxHashes)
  BY <1>1 DEF Opens!IsFull
<1>3. Opens!At(s, LAMBDA e : e.hash = h) = i
  BY DEF EntryAt
<1> HIDE DEF i
<1>4. /\ opAccepted' = [opAccepted EXCEPT ![h] = @ + 1]
      /\ opSeen' = [opSeen EXCEPT ![<<p, f>>] =
                      IF i = 0 /\ Opens!IsFull(s) THEN OpNone ELSE ts]
      /\ opLater' = [g \in Opens!Hashes |-> opLater[g] + Opens!Live(ts).out[g]]
      /\ \/ /\ i # 0 /\ opHashes' = [s EXCEPT ![i] = Opens!Again(s[i], ts)]
            /\ opFirsts' = opFirsts /\ opOwed' = opOwed
         \/ /\ i = 0
            /\ opHashes' = IF Opens!IsFull(s) THEN s
                           ELSE Append(s, [hash |-> h, pid |-> p, ts |-> ts, count |-> 1])
            /\ opFirsts' = [opFirsts EXCEPT ![h] = @ + 1]
            /\ opOwed' = [opOwed EXCEPT ![p] = @ /\ ~warn]
  BY <1>3 DEF Opens!Aggregate
<1>5. CASE i # 0
  BY <1>4, <1>5 DEF Found, i
<1>6. CASE i = 0
  <2>1. CASE Opens!IsFull(s)
    BY <1>4, <1>6, <2>1 DEF First, i
  <2>2. CASE ~ Opens!IsFull(s)
    BY <1>2, <1>4, <1>6, <2>2 DEF First, i
  <2> QED
    BY <2>1, <2>2
<1> QED
  BY <1>5, <1>6

LEMMA FoundTable ==
  ASSUME OpShape, NEW p \in OpPids, NEW f \in OpPaths, NEW ts \in Nat, NEW warn,
         Found(p, f, ts, warn)
  PROVE  LET h == OpHash[<<p, f>>]
             s == Opens!Live(ts).s
         IN  /\ OpTable(opHashes') /\ Len(opHashes') <= OpMaxHashes
             /\ Opens!Later(opHashes', h, OpPids) = Opens!Later(s, h, OpPids) + 1
             /\ \A g : g # h => Opens!Later(opHashes', g, OpPids) = Opens!Later(s, g, OpPids)
             /\ \E e \in In(s) :
                  /\ e.hash = h
                  /\ In(opHashes') = (In(s) \ {e}) \cup {Newer(e, ts)}
<1> DEFINE h == OpHash[<<p, f>>]
           s == Opens!Live(ts).s
           i == EntryAt(s, h)
<1>1. OpTable(s) /\ Len(s) <= OpMaxHashes
  BY LiveIs
<1>2. i # 0 /\ opHashes' = [s EXCEPT ![i] = Opens!Again(s[i], ts)]
  BY DEF Found
<1> HIDE DEF s
<1>3. i \in 1 .. Len(s) /\ s[i].hash = h
  BY <1>1, <1>2, FoundEntry
<1> HIDE DEF i, h
<1>4. s[i] \in In(s)
  BY <1>3 DEF In
<1> DEFINE r == Bump(s, i, ts)
<1>5. /\ OpTable(r) /\ Len(r) = Len(s)
      /\ In(r) = (In(s) \ {s[i]}) \cup {Newer(s[i], ts)}
      /\ Opens!Later(r, s[i].hash, OpPids) = Opens!Later(s, s[i].hash, OpPids) + 1
      /\ \A g : g # s[i].hash => Opens!Later(r, g, OpPids) = Opens!Later(s, g, OpPids)
  BY <1>1, <1>3, Bumped
<1>6. opHashes' = r
  BY <1>2 DEF Bump
<1> HIDE DEF r
<1>7. Len(r) <= OpMaxHashes
  BY <1>1, <1>5
<1>8. Opens!Later(r, h, OpPids) = Opens!Later(s, h, OpPids) + 1
  BY <1>3, <1>5
<1>9. \A g : g # h => Opens!Later(r, g, OpPids) = Opens!Later(s, g, OpPids)
  BY <1>3, <1>5
<1> QED
  BY <1>3, <1>4, <1>5, <1>6, <1>7, <1>8, <1>9 DEF h, s

LEMMA FirstTable ==
  ASSUME OpShape, NEW p \in OpPids, NEW f \in OpPaths, NEW ts \in Nat, NEW warn,
         First(p, f, ts, warn)
  PROVE  LET h == OpHash[<<p, f>>]
             s == Opens!Live(ts).s
         IN  /\ OpTable(opHashes') /\ Len(opHashes') <= OpMaxHashes
             /\ \A g : Opens!Later(opHashes', g, OpPids) = Opens!Later(s, g, OpPids)
             /\ \A e \in In(s) : e.hash # h
             /\ \/ /\ In(opHashes') = In(s) \cup
                        {[hash |-> h, pid |-> p, ts |-> ts, count |-> 1]}
                   /\ opSeen' = [opSeen EXCEPT ![<<p, f>>] = ts]
                \/ In(opHashes') = In(s) /\ opSeen' = [opSeen EXCEPT ![<<p, f>>] = OpNone]
<1> DEFINE h == OpHash[<<p, f>>]
           s == Opens!Live(ts).s
           i == EntryAt(s, h)
           new == [hash |-> h, pid |-> p, ts |-> ts, count |-> 1]
<1>1. OpTable(s) /\ Len(s) <= OpMaxHashes
  BY LiveIs
<1>2. /\ i = 0
      /\ \/ /\ Len(s) < OpMaxHashes /\ opHashes' = Append(s, new)
            /\ opSeen' = [opSeen EXCEPT ![<<p, f>>] = ts]
         \/ opHashes' = s /\ opSeen' = [opSeen EXCEPT ![<<p, f>>] = OpNone]
  BY DEF First
<1> HIDE DEF s
<1>3. \A e \in In(s) : e.hash # h
  <2>1. IF \E e \in In(s) : e.hash = h THEN i \in 1 .. Len(s) /\ s[i].hash = h ELSE i = 0
    BY <1>1, FoundEntry
  <2>2. Len(s) \in Nat
    BY <1>1, OpTableFacts
  <2> QED
    BY <1>2, <2>1, <2>2
<1> HIDE DEF i
<1>4. CASE Len(s) < OpMaxHashes /\ opHashes' = Append(s, new)
           /\ opSeen' = [opSeen EXCEPT ![<<p, f>>] = ts]
  <2>1. new \in OpEntry /\ new.count = 1 /\ new.hash = h
    BY FilesAre DEF OpEntry
  <2>2. Len(s) \in Nat /\ OpMaxHashes \in Nat
    BY <1>1, OpTableFacts, OpAssumed
  <2> HIDE DEF new, h
  <2>3. /\ OpTable(Append(s, new)) /\ Len(Append(s, new)) = Len(s) + 1
        /\ In(Append(s, new)) = In(s) \cup {new}
        /\ \A g : Opens!Later(Append(s, new), g, OpPids) = Opens!Later(s, g, OpPids)
    BY <1>1, <1>3, <2>1, FirstAdded
  <2>4. Len(opHashes') <= OpMaxHashes
    BY <1>4, <2>2, <2>3
  <2> QED
    BY <1>3, <1>4, <2>3, <2>4 DEF s, h, new
<1>5. CASE opHashes' = s /\ opSeen' = [opSeen EXCEPT ![<<p, f>>] = OpNone]
  <2> HIDE DEF new, h
  <2> QED
    BY <1>1, <1>3, <1>5 DEF s, h
<1> QED
  BY <1>2, <1>4, <1>5

\* Every accepted open is in a line or in an entry.
LEMMA ToldByAggregation ==
  ASSUME OpShape, OpTold, NEW p \in OpPids, NEW f \in OpPaths, NEW ts \in Nat, NEW warn,
         Opens!Aggregate(p, f, ts, warn)
  PROVE  /\ OpTable(opHashes') /\ Len(opHashes') <= OpMaxHashes
         /\ opAccepted' \in [Opens!Hashes -> Nat] /\ opFirsts' \in [Opens!Hashes -> Nat]
         /\ opLater' \in [Opens!Hashes -> Nat]
         /\ \A g \in Opens!Hashes :
              opAccepted'[g] = opFirsts'[g] + opLater'[g] + Opens!Later(opHashes', g, OpPids)
<1> DEFINE h == OpHash[<<p, f>>]
           s == Opens!Live(ts).s
           out == Opens!Live(ts).out
<1>1. /\ h \in Opens!Hashes /\ opAccepted \in [Opens!Hashes -> Nat]
      /\ opFirsts \in [Opens!Hashes -> Nat] /\ opLater \in [Opens!Hashes -> Nat]
  BY FilesAre DEF OpShape
<1>2. /\ opAccepted' = [opAccepted EXCEPT ![h] = @ + 1]
      /\ opLater' = [g \in Opens!Hashes |-> opLater[g] + out[g]]
      /\ Found(p, f, ts, warn) \/ First(p, f, ts, warn)
  BY Aggregation
<1>3. /\ OpTable(s) /\ out \in [Opens!Hashes -> Nat]
      /\ \A g \in Opens!Hashes : out[g] + Opens!Later(s, g, OpPids)
                                   = Opens!Later(opHashes, g, OpPids)
  BY LiveIs
<1>4. \A g : Opens!Later(s, g, OpPids) \in Nat
  BY <1>3, LaterNat
<1>5. CASE Found(p, f, ts, warn)
  <2>1. /\ OpTable(opHashes') /\ Len(opHashes') <= OpMaxHashes
        /\ Opens!Later(opHashes', h, OpPids) = Opens!Later(s, h, OpPids) + 1
        /\ \A g : g # h => Opens!Later(opHashes', g, OpPids) = Opens!Later(s, g, OpPids)
    BY <1>5, FoundTable
  <2>2. opFirsts' = opFirsts
    BY <1>5 DEF Found
  <2> HIDE DEF s, out, h
  <2>3. /\ opAccepted' \in [Opens!Hashes -> Nat] /\ opFirsts' \in [Opens!Hashes -> Nat]
        /\ opLater' \in [Opens!Hashes -> Nat]
    <3>1. \A g \in Opens!Hashes : opLater[g] + out[g] \in Nat
      BY <1>1, <1>3
    <3>2. opLater' \in [Opens!Hashes -> Nat]
      BY <1>2, <3>1
    <3>3. opAccepted' \in [Opens!Hashes -> Nat]
      BY <1>1, <1>2
    <3>4. opFirsts' \in [Opens!Hashes -> Nat]
      BY <1>1, <2>2
    <3> QED
      BY <3>2, <3>3, <3>4
  <2>4. ASSUME NEW g \in Opens!Hashes
        PROVE  opAccepted'[g] = opFirsts'[g] + opLater'[g] + Opens!Later(opHashes', g, OpPids)
    <3>1. /\ opAccepted[g] = opFirsts[g] + opLater[g] + (out[g] + Opens!Later(s, g, OpPids))
          /\ opAccepted[g] \in Nat /\ opFirsts[g] \in Nat /\ opLater[g] \in Nat
          /\ out[g] \in Nat /\ Opens!Later(s, g, OpPids) \in Nat
      BY <1>1, <1>3, <1>4 DEF OpTold
    <3>2. opLater'[g] = opLater[g] + out[g] /\ opFirsts'[g] = opFirsts[g]
      BY <1>2, <2>2
    <3>3. CASE g = h
      <4>1. opAccepted'[g] = opAccepted[g] + 1
        BY <1>1, <1>2, <3>3
      <4>2. Opens!Later(opHashes', g, OpPids) = Opens!Later(s, g, OpPids) + 1
        BY <2>1, <3>3
      <4> QED
        BY <3>1, <3>2, <4>1, <4>2
    <3>4. CASE g # h
      <4>1. opAccepted'[g] = opAccepted[g]
        BY <1>1, <1>2, <3>4
      <4>2. Opens!Later(opHashes', g, OpPids) = Opens!Later(s, g, OpPids)
        BY <2>1, <3>4
      <4> QED
        BY <3>1, <3>2, <4>1, <4>2
    <3> QED
      BY <3>3, <3>4
  <2> QED
    BY <2>1, <2>3, <2>4
<1>6. CASE First(p, f, ts, warn)
  <2>1. /\ OpTable(opHashes') /\ Len(opHashes') <= OpMaxHashes
        /\ \A g : Opens!Later(opHashes', g, OpPids) = Opens!Later(s, g, OpPids)
    BY <1>6, FirstTable
  <2>2. opFirsts' = [opFirsts EXCEPT ![h] = @ + 1]
    BY <1>6 DEF First
  <2> HIDE DEF s, out, h
  <2>3. /\ opAccepted' \in [Opens!Hashes -> Nat] /\ opFirsts' \in [Opens!Hashes -> Nat]
        /\ opLater' \in [Opens!Hashes -> Nat]
    <3>1. \A g \in Opens!Hashes : opLater[g] + out[g] \in Nat
      BY <1>1, <1>3
    <3>2. opLater' \in [Opens!Hashes -> Nat]
      BY <1>2, <3>1
    <3>3. opAccepted' \in [Opens!Hashes -> Nat]
      BY <1>1, <1>2
    <3>4. opFirsts' \in [Opens!Hashes -> Nat]
      BY <1>1, <2>2
    <3> QED
      BY <3>2, <3>3, <3>4
  <2>4. ASSUME NEW g \in Opens!Hashes
        PROVE  opAccepted'[g] = opFirsts'[g] + opLater'[g] + Opens!Later(opHashes', g, OpPids)
    <3>1. /\ opAccepted[g] = opFirsts[g] + opLater[g] + (out[g] + Opens!Later(s, g, OpPids))
          /\ opAccepted[g] \in Nat /\ opFirsts[g] \in Nat /\ opLater[g] \in Nat
          /\ out[g] \in Nat /\ Opens!Later(s, g, OpPids) \in Nat
      BY <1>1, <1>3, <1>4 DEF OpTold
    <3>2. /\ opLater'[g] = opLater[g] + out[g]
          /\ Opens!Later(opHashes', g, OpPids) = Opens!Later(s, g, OpPids)
      BY <1>2, <2>1
    <3>3. CASE g = h
      <4>1. opAccepted'[g] = opAccepted[g] + 1 /\ opFirsts'[g] = opFirsts[g] + 1
        BY <1>1, <1>2, <2>2, <3>3
      <4> QED
        BY <3>1, <3>2, <4>1
    <3>4. CASE g # h
      <4>1. opAccepted'[g] = opAccepted[g] /\ opFirsts'[g] = opFirsts[g]
        BY <1>1, <1>2, <2>2, <3>4
      <4> QED
        BY <3>1, <3>2, <4>1
    <3> QED
      BY <3>3, <3>4
  <2> QED
    BY <2>1, <2>3, <2>4
<1> QED
  BY <1>2, <1>5, <1>6

-----------------------------------------------------------------------------
\* The entry of a file whose hash is its own, among those that stay
LEMMA RecentEntries ==
  ASSUME OpShape, OpTimes, OpRecent, ~opLate, NEW ts \in 0 .. OpMaxTime, opClock <= ts,
         NEW g \in Opens!Unshared
  PROVE  /\ opSeen[g] # OpNone => opSeen[g] \in Nat /\ opSeen[g] <= ts
         /\ \A e \in In(Opens!Live(ts).s) : e.hash = OpHash[g] =>
              /\ e.pid = g[1] /\ e.ts = opSeen[g] /\ opSeen[g] # OpNone
              /\ ts <= opSeen[g] + OpWindow
         /\ opSeen[g] # OpNone /\ ts <= opSeen[g] + OpWindow =>
              \E e \in In(Opens!Live(ts).s) : e.hash = OpHash[g] /\ e.ts = opSeen[g]
<1>1. /\ opSeen[g] \in Nat \cup {OpNone} /\ opClock \in Nat /\ OpNone \notin Nat
      /\ OpWindow \in Nat /\ OpMaxTime \in Nat /\ ts \in Nat
  BY FilesAre, OpAssumed DEF OpTimes
<1>2. /\ opSeen[g] # OpNone =>
           /\ opSeen[g] <= opClock
           /\ opClock <= opSeen[g] + OpWindow =>
                \E e \in In(opHashes) : e.hash = OpHash[g] /\ e.ts = opSeen[g]
      /\ \A e \in In(opHashes) : e.hash = OpHash[g] => e.pid = g[1] /\ e.ts = opSeen[g]
  BY DEF OpRecent
<1>3. opSeen[g] # OpNone => opSeen[g] \in Nat /\ opSeen[g] <= ts
  BY <1>1, <1>2
<1>4. \A e \in In(opHashes) : e.ts \in Nat
  BY OpTableFacts DEF OpShape, OpEntry
<1>5. In(Opens!Live(ts).s) = {e \in In(opHashes) : ~ Opens!Expired(e, ts)}
  BY LiveIs
<1>6. ASSUME NEW e \in In(opHashes), e.hash = OpHash[g]
      PROVE  /\ e.ts = opSeen[g] /\ opSeen[g] \in Nat /\ opSeen[g] # OpNone
             /\ Opens!Expired(e, ts) <=> ~(ts <= opSeen[g] + OpWindow)
  <2>1. e.ts = opSeen[g] /\ opSeen[g] \in Nat /\ opSeen[g] # OpNone
    BY <1>1, <1>2, <1>4, <1>6
  <2>2. e.ts \in Nat /\ e.ts <= ts
    BY <1>3, <2>1
  <2>3. Opens!Expired(e, ts) <=> ts - e.ts > OpWindow
    BY <2>2, ExpiredIs
  <2> QED
    BY <1>1, <2>1, <2>3
<1>7. ASSUME NEW e \in In(Opens!Live(ts).s), e.hash = OpHash[g]
      PROVE  /\ e.pid = g[1] /\ e.ts = opSeen[g] /\ opSeen[g] # OpNone
             /\ ts <= opSeen[g] + OpWindow
  BY <1>2, <1>5, <1>6, <1>7
<1>8. ASSUME opSeen[g] # OpNone, ts <= opSeen[g] + OpWindow
      PROVE  \E e \in In(Opens!Live(ts).s) : e.hash = OpHash[g] /\ e.ts = opSeen[g]
  <2>1. opClock <= opSeen[g] + OpWindow
    BY <1>1, <1>8
  <2>2. PICK e \in In(opHashes) : e.hash = OpHash[g] /\ e.ts = opSeen[g]
    BY <1>2, <1>8, <2>1
  <2> QED
    BY <1>5, <1>6, <1>8, <2>2
<1> QED
  BY <1>3, <1>7, <1>8

\* What an open leaves for its own file and for another
LEMMA AfterAggregation ==
  ASSUME OpShape, OpTimes, NEW p \in OpPids, NEW f \in OpPaths, NEW ts \in Nat, NEW warn,
         Opens!Aggregate(p, f, ts, warn)
  PROVE  /\ opSeen' \in [Opens!Files -> Nat \cup {OpNone}]
         /\ \A g \in Opens!Files : OpHash[g] # OpHash[<<p, f>>] =>
              /\ opSeen'[g] = opSeen[g]
              /\ \A e : e.hash = OpHash[g] =>
                   (e \in In(opHashes') <=> e \in In(Opens!Live(ts).s))
         /\ \/ /\ \A e \in In(opHashes') : e.hash # OpHash[<<p, f>>]
               /\ opSeen'[<<p, f>>] = OpNone
            \/ /\ opSeen'[<<p, f>>] = ts
               /\ \E e \in In(opHashes') : e.hash = OpHash[<<p, f>>]
               /\ \A e \in In(opHashes') : e.hash = OpHash[<<p, f>>] =>
                    /\ e.ts = ts
                    /\ \/ e.pid = p
                       \/ \E d \in In(Opens!Live(ts).s) :
                            d.hash = OpHash[<<p, f>>] /\ e.pid = d.pid
<1> DEFINE h == OpHash[<<p, f>>]
           s == Opens!Live(ts).s
<1>1. <<p, f>> \in Opens!Files /\ opSeen \in [Opens!Files -> Nat \cup {OpNone}]
  BY FilesAre DEF OpTimes
<1>2. OpTable(s)
  BY LiveIs
<1>3. Found(p, f, ts, warn) \/ First(p, f, ts, warn)
  BY Aggregation
<1>4. CASE Found(p, f, ts, warn)
  <2>1. PICK d \in In(s) : d.hash = h /\ In(opHashes') = (In(s) \ {d}) \cup {Newer(d, ts)}
    BY <1>4, FoundTable
  <2>2. opSeen' = [opSeen EXCEPT ![<<p, f>>] = ts]
    BY <1>4 DEF Found
  <2>3. Newer(d, ts).hash = d.hash /\ Newer(d, ts).pid = d.pid /\ Newer(d, ts).ts = ts
    BY DEF Newer
  <2>4. \A e \in In(s) : e.hash = h => e = d
    BY <1>2, <2>1, OpTableFacts
  <2> HIDE DEF h, s
  <2>5. \A e \in In(opHashes') : e.hash = h => e.ts = ts /\ e.pid = d.pid
    BY <2>1, <2>3, <2>4
  <2>6. \E e \in In(opHashes') : e.hash = h
    BY <2>1, <2>3
  <2>7. \A g \in Opens!Files : OpHash[g] # h => opSeen'[g] = opSeen[g]
    BY <1>1, <2>2 DEF h
  <2>8. \A e : e.hash # h => (e \in In(opHashes') <=> e \in In(s))
    BY <2>1, <2>3
  <2>9. /\ opSeen' \in [Opens!Files -> Nat \cup {OpNone}] /\ opSeen'[<<p, f>>] = ts
    BY <1>1, <2>2
  <2> QED
    BY <2>1, <2>5, <2>6, <2>7, <2>8, <2>9 DEF h, s
<1>5. CASE First(p, f, ts, warn)
  <2> DEFINE new == [hash |-> h, pid |-> p, ts |-> ts, count |-> 1]
  <2>1. /\ \A e \in In(s) : e.hash # h
        /\ \/ /\ In(opHashes') = In(s) \cup {new}
              /\ opSeen' = [opSeen EXCEPT ![<<p, f>>] = ts]
           \/ In(opHashes') = In(s) /\ opSeen' = [opSeen EXCEPT ![<<p, f>>] = OpNone]
    BY <1>5, FirstTable
  <2>2. new.hash = h /\ new.pid = p /\ new.ts = ts
    OBVIOUS
  <2> HIDE DEF h, s, new
  <2>3. opSeen' \in [Opens!Files -> Nat \cup {OpNone}]
    BY <1>1, <2>1
  <2>4. \A g \in Opens!Files : OpHash[g] # h => opSeen'[g] = opSeen[g]
    BY <1>1, <2>1 DEF h
  <2>5. \A e : e.hash # h => (e \in In(opHashes') <=> e \in In(s))
    BY <2>1, <2>2
  <2>6. \/ (\A e \in In(opHashes') : e.hash # h) /\ opSeen'[<<p, f>>] = OpNone
        \/ /\ opSeen'[<<p, f>>] = ts
           /\ \E e \in In(opHashes') : e.hash = h
           /\ \A e \in In(opHashes') : e.hash = h => e.ts = ts /\ e.pid = p
    BY <1>1, <2>1, <2>2
  <2> QED
    BY <2>3, <2>4, <2>5, <2>6 DEF h, s
<1> QED
  BY <1>3, <1>4, <1>5

LEMMA RecentByAggregation ==
  ASSUME OpShape, OpTimes, OpRecent, NEW p \in OpPids, NEW f \in OpPaths,
         NEW ts \in 0 .. OpMaxTime, NEW warn, Opens!Aggregate(p, f, ts, warn),
         opClock' = IF ts > opClock THEN ts ELSE opClock,
         opLate' = (opLate \/ ts < opClock)
  PROVE  OpRecent'
<1> SUFFICES ASSUME ~opLate', NEW g \in Opens!Unshared
             PROVE  /\ opSeen'[g] # OpNone =>
                         /\ opSeen'[g] <= opClock'
                         /\ opClock' <= opSeen'[g] + OpWindow =>
                              \E e \in In(opHashes') : e.hash = OpHash[g] /\ e.ts = opSeen'[g]
                    /\ \A e \in In(opHashes') : e.hash = OpHash[g] =>
                         e.pid = g[1] /\ e.ts = opSeen'[g]
  BY DEF OpRecent
<1>1. ~opLate /\ opClock <= ts /\ opClock' = ts /\ ts \in Nat
  <2>1. opLate' <=> (opLate \/ ts < opClock)
    BY Zenon
  <2>2. ~opLate /\ ~(ts < opClock)
    BY <2>1
  <2>3. opClock \in Nat /\ ts \in Nat
    BY OpAssumed DEF OpTimes
  <2> QED
    BY <2>2, <2>3
<1> DEFINE s == Opens!Live(ts).s
           h == OpHash[<<p, f>>]
<1>2. /\ opSeen[g] # OpNone => opSeen[g] \in Nat /\ opSeen[g] <= ts
      /\ \A e \in In(s) : e.hash = OpHash[g] =>
           /\ e.pid = g[1] /\ e.ts = opSeen[g] /\ opSeen[g] # OpNone
           /\ ts <= opSeen[g] + OpWindow
      /\ opSeen[g] # OpNone /\ ts <= opSeen[g] + OpWindow =>
           \E e \in In(s) : e.hash = OpHash[g] /\ e.ts = opSeen[g]
  BY <1>1, RecentEntries
<1>3. /\ \A k \in Opens!Files : OpHash[k] # h =>
           /\ opSeen'[k] = opSeen[k]
           /\ \A e : e.hash = OpHash[k] => (e \in In(opHashes') <=> e \in In(s))
      /\ \/ (\A e \in In(opHashes') : e.hash # h) /\ opSeen'[<<p, f>>] = OpNone
         \/ /\ opSeen'[<<p, f>>] = ts
            /\ \E e \in In(opHashes') : e.hash = h
            /\ \A e \in In(opHashes') : e.hash = h =>
                 /\ e.ts = ts
                 /\ e.pid = p \/ \E d \in In(s) : d.hash = h /\ e.pid = d.pid
  BY <1>1, AfterAggregation
<1>4. g \in Opens!Files /\ <<p, f>> \in Opens!Files /\ <<p, f>>[1] = p
      /\ (OpHash[g] = h => g = <<p, f>>)
  BY FilesAre
<1> HIDE DEF s, h
<1>5. CASE OpHash[g] # h
  <2>1. opSeen'[g] = opSeen[g]
    BY <1>3, <1>4, <1>5
  <2>2. \A e : e.hash = OpHash[g] => (e \in In(opHashes') <=> e \in In(s))
    BY <1>3, <1>4, <1>5
  <2> QED
    BY <1>1, <1>2, <2>1, <2>2
<1>6. CASE OpHash[g] = h
  <2>1. g = <<p, f>> /\ g[1] = p
    BY <1>4, <1>6
  <2>2. \A d \in In(s) : d.hash = h => d.pid = p
    BY <1>2, <1>6, <2>1
  <2> QED
    BY <1>1, <1>3, <1>6, <2>1, <2>2
<1> QED
  BY <1>5, <1>6

\* The window decides what an aggregation prints.
LEMMA WindowByAggregation ==
  ASSUME OpShape, OpTimes, OpRecent, NEW p \in OpPids, NEW f \in OpPaths,
         NEW ts \in 0 .. OpMaxTime, NEW warn, Opens!Aggregate(p, f, ts, warn),
         ~opLate, opClock <= ts, NEW g \in Opens!Unshared
  PROVE  LET printed == opFirsts'[OpHash[g]] > opFirsts[OpHash[g]]
             silent  == opAccepted'[OpHash[g]] > opAccepted[OpHash[g]] /\ ~printed
             recent  == opSeen[g] # OpNone /\ ts <= opSeen[g] + OpWindow
         IN  (printed => ~recent) /\ (silent => recent)
<1> DEFINE s == Opens!Live(ts).s
           h == OpHash[<<p, f>>]
           k == OpHash[g]
           recent == opSeen[g] # OpNone /\ ts <= opSeen[g] + OpWindow
<1>1. /\ \A e \in In(s) : e.hash = k => recent
      /\ recent => \E e \in In(s) : e.hash = k
  BY RecentEntries
<1>2. /\ opAccepted' = [opAccepted EXCEPT ![h] = @ + 1]
      /\ Found(p, f, ts, warn) \/ First(p, f, ts, warn)
  BY Aggregation
<1>3. /\ k \in Opens!Hashes /\ h \in Opens!Hashes
      /\ opAccepted \in [Opens!Hashes -> Nat] /\ opFirsts \in [Opens!Hashes -> Nat]
  BY FilesAre DEF OpShape
<1>4. k # h => opAccepted'[k] = opAccepted[k] /\ opAccepted[k] \in Nat
  BY <1>2, <1>3
<1>5. ts \in Nat
  BY OpAssumed
<1>6. CASE Found(p, f, ts, warn)
  <2>1. \E e \in In(s) : e.hash = h
    BY <1>5, <1>6, FoundTable
  <2>2. opFirsts'[k] = opFirsts[k] /\ opFirsts[k] \in Nat
    BY <1>3, <1>6 DEF Found
  <2> HIDE DEF s, h, k
  <2>3. ~(opFirsts'[k] > opFirsts[k])
    BY <2>2
  <2>4. opAccepted'[k] > opAccepted[k] => recent
    <3>1. CASE k = h
      BY <1>1, <2>1, <3>1
    <3>2. CASE k # h
      BY <1>4, <3>2
    <3> QED
      BY <3>1, <3>2
  <2> QED
    BY <2>3, <2>4 DEF k
<1>7. CASE First(p, f, ts, warn)
  <2>1. \A e \in In(s) : e.hash # h
    BY <1>5, <1>7, FirstTable
  <2>2. opFirsts' = [opFirsts EXCEPT ![h] = @ + 1]
    BY <1>7 DEF First
  <2>3. opFirsts[k] \in Nat /\ opFirsts'[k] = IF k = h THEN opFirsts[k] + 1 ELSE opFirsts[k]
    BY <1>3, <2>2
  <2> HIDE DEF s, h, k
  <2>4. CASE k = h
    <3>1. ~recent /\ opFirsts'[k] > opFirsts[k]
      BY <1>1, <2>1, <2>3, <2>4
    <3> QED
      BY <3>1 DEF k
  <2>5. CASE k # h
    <3>1. ~(opFirsts'[k] > opFirsts[k]) /\ ~(opAccepted'[k] > opAccepted[k])
      BY <1>4, <2>3, <2>5
    <3> QED
      BY <3>1 DEF k
  <2> QED
    BY <2>4, <2>5
<1> QED
  BY <1>2, <1>6, <1>7

-----------------------------------------------------------------------------
\* An exit prints what is pending for the process, and removes it.
LEMMA LaterLeft ==
  ASSUME NEW s, OpTable(s), NEW t, OpTable(t), NEW p \in OpPids,
         In(t) = {e \in In(s) : e.pid # p}, NEW h
  PROVE  Opens!Later(s, h, OpPids) = Opens!Later(s, h, {p}) + Opens!Later(t, h, OpPids)
<1>0. \A e \in In(s) : e.pid \in OpPids /\ e.count - 1 \in Nat
  BY OpTableFacts DEF OpEntry
<1>1. CASE \E e \in In(s) : e.hash = h
  <2>1. PICK e \in In(s) : e.hash = h
    BY <1>1
  <2>2. /\ Opens!Later(s, h, OpPids) = e.count - 1
        /\ Opens!Later(s, h, {p}) = IF e.pid = p THEN e.count - 1 ELSE 0
    BY <1>0, <2>1, LaterOfEntry
  <2>3. CASE e.pid = p
    <3>1. \A d \in In(t) : d.hash # h
      BY <2>1, <2>3, OpTableFacts
    <3>2. Opens!Later(t, h, OpPids) = 0
      BY <3>1, LaterOfNone
    <3> QED
      BY <1>0, <2>1, <2>2, <2>3, <3>2
  <2>4. CASE e.pid # p
    <3>1. e \in In(t)
      BY <2>4
    <3>2. Opens!Later(t, h, OpPids) = e.count - 1
      BY <1>0, <2>1, <3>1, LaterOfEntry
    <3> QED
      BY <1>0, <2>1, <2>2, <2>4, <3>2
  <2> QED
    BY <2>3, <2>4
<1>2. CASE \A e \in In(s) : e.hash # h
  <2>1. \A e \in In(t) : e.hash # h
    BY <1>2
  <2>2. /\ Opens!Later(s, h, OpPids) = 0 /\ Opens!Later(s, h, {p}) = 0
        /\ Opens!Later(t, h, OpPids) = 0
    BY <1>2, <2>1, LaterOfNone
  <2> QED
    BY <2>2
<1> QED
  BY <1>1, <1>2

LEMMA OthersAre ==
  ASSUME OpShape, NEW p \in OpPids
  PROVE  /\ OpTable(Opens!Others(p)) /\ Len(Opens!Others(p)) <= OpMaxHashes
         /\ In(Opens!Others(p)) = {e \in In(opHashes) : e.pid # p}
<1> DEFINE gone == {e \in Opens!ToSet(opHashes) : e.pid = p}
<1>1. OpTable(opHashes) /\ Len(opHashes) <= OpMaxHashes /\ OpMaxHashes \in Nat
  BY OpAssumed DEF OpShape
<1>2. Opens!ToSet(opHashes) = In(opHashes) /\ Len(opHashes) \in Nat
  BY <1>1, OpWords, OpTableFacts DEF In
<1>3. In(opHashes) \ gone = {e \in In(opHashes) : e.pid # p}
  BY <1>2
<1>4. Opens!Others(p) = Opens!Sweep(opHashes, gone).s
  BY DEF Opens!Others
<1> HIDE DEF gone
<1> DEFINE s == Opens!Sweep(opHashes, gone).s
<1>5. OpTable(s) /\ Len(s) <= Len(opHashes) /\ In(s) = In(opHashes) \ gone
  BY <1>1, SweepIs
<1>6. Len(s) \in Nat
  BY <1>5, OpTableFacts
<1> HIDE DEF s
<1>7. Len(s) <= OpMaxHashes
  BY <1>1, <1>2, <1>5, <1>6
<1> QED
  BY <1>3, <1>4, <1>5, <1>7 DEF s

LEMMA KeptByExit ==
  ASSUME OpShape, OpTold, OpTimes, OpRecent, NEW p \in OpPids, NEW ts \in 0 .. OpMaxTime,
         Opens!Exit(p, ts)
  PROVE  OpShape' /\ OpTold' /\ OpTimes' /\ OpRecent'
<1>1. /\ opClock' = IF ts > opClock THEN ts ELSE opClock
      /\ opLate' = (opLate \/ ts < opClock)
      /\ opHashes' = Opens!Others(p)
      /\ opLater' = [h \in Opens!Hashes |-> opLater[h] + Opens!Later(opHashes, h, {p})]
      /\ opSeen' = [f \in Opens!Files |-> IF f[1] = p THEN OpNone ELSE opSeen[f]]
      /\ opOwed' = [opOwed EXCEPT ![p] = FALSE]
      /\ opAccepted' = opAccepted /\ opFirsts' = opFirsts
  BY DEF Opens!Exit, Opens!Handle
<1>2. opLimits' = IF WarningAt(opLimits, p) = 0 THEN opLimits
                  ELSE Opens!MoveLast(opLimits, WarningAt(opLimits, p))
  BY DEF Opens!Exit, WarningAt
<1>3. /\ OpTable(opHashes') /\ Len(opHashes') <= OpMaxHashes
      /\ In(opHashes') = {e \in In(opHashes) : e.pid # p}
  BY <1>1, OthersAre
<1>4. /\ opAccepted \in [Opens!Hashes -> Nat] /\ opFirsts \in [Opens!Hashes -> Nat]
      /\ opLater \in [Opens!Hashes -> Nat] /\ OpTable(opHashes)
      /\ opOwed \in [OpPids -> BOOLEAN] /\ OpLimited(opLimits, opOwed)
  BY DEF OpShape
<1>5. \A h : Opens!Later(opHashes, h, {p}) \in Nat /\ Opens!Later(opHashes', h, OpPids) \in Nat
  BY <1>3, <1>4, LaterNat
<1>6. opLater' \in [Opens!Hashes -> Nat]
  <2>1. \A h \in Opens!Hashes : opLater[h] + Opens!Later(opHashes, h, {p}) \in Nat
    <3> TAKE h \in Opens!Hashes
    <3> DEFINE own == Opens!Later(opHashes, h, {p})
    <3>1. own \in Nat /\ opLater[h] \in Nat
      BY <1>4, <1>5
    <3> HIDE DEF own
    <3>2. opLater[h] + own \in Nat
      BY <3>1
    <3> QED
      BY <3>2 DEF own
  <2> QED
    BY <1>1, <2>1
<1>7. OpShape'
  <2>1. OpLimited(opLimits', opOwed')
    BY <1>1, <1>2, <1>4, LimitsLeft
  <2>2. opOwed' \in [OpPids -> BOOLEAN]
    BY <1>1, <1>4
  <2> QED
    BY <1>1, <1>3, <1>4, <1>6, <2>1, <2>2 DEF OpShape
<1>8. OpTold'
  <2> SUFFICES ASSUME NEW h \in Opens!Hashes
               PROVE  opAccepted'[h] = opFirsts'[h] + opLater'[h]
                                         + Opens!Later(opHashes', h, OpPids)
    BY DEF OpTold
  <2>1. opAccepted[h] = opFirsts[h] + opLater[h] + Opens!Later(opHashes, h, OpPids)
    BY DEF OpTold
  <2>2. Opens!Later(opHashes, h, OpPids)
          = Opens!Later(opHashes, h, {p}) + Opens!Later(opHashes', h, OpPids)
    <3>1. OpTable(opHashes) /\ OpTable(opHashes')
      BY <1>3, <1>4
    <3> QED
      BY <1>3, <3>1, LaterLeft
  <2>3. opLater'[h] = opLater[h] + Opens!Later(opHashes, h, {p})
    BY <1>1
  <2>4. opFirsts[h] \in Nat /\ opLater[h] \in Nat
    BY <1>4
  <2> QED
    <3> DEFINE own == Opens!Later(opHashes, h, {p})
               left == Opens!Later(opHashes', h, OpPids)
    <3>1. own \in Nat /\ left \in Nat
      BY <1>5
    <3>2. opAccepted[h] = opFirsts[h] + opLater[h] + (own + left) /\ opLater'[h] = opLater[h] + own
      BY <2>1, <2>2, <2>3
    <3> HIDE DEF own, left
    <3>3. opAccepted'[h] = opFirsts'[h] + opLater'[h] + left
      BY <1>1, <2>4, <3>1, <3>2
    <3> QED
      BY <3>3 DEF left
<1>9. OpTimes'
  <2>1. opClock' \in Nat /\ opLate' \in BOOLEAN
    BY <1>1, OpAssumed DEF OpTimes
  <2>2. opSeen' \in [Opens!Files -> Nat \cup {OpNone}]
    BY <1>1 DEF OpTimes
  <2> QED
    BY <2>1, <2>2 DEF OpTimes
<1>10. OpRecent'
  <2> SUFFICES ASSUME ~opLate', NEW g \in Opens!Unshared
               PROVE  /\ opSeen'[g] # OpNone =>
                           /\ opSeen'[g] <= opClock'
                           /\ opClock' <= opSeen'[g] + OpWindow =>
                                \E e \in In(opHashes') : e.hash = OpHash[g] /\ e.ts = opSeen'[g]
                      /\ \A e \in In(opHashes') : e.hash = OpHash[g] =>
                           e.pid = g[1] /\ e.ts = opSeen'[g]
    BY DEF OpRecent
  <2>1. opLate' <=> (opLate \/ ts < opClock)
    BY <1>1, Zenon
  <2>2. ~opLate
    BY <2>1
  <2>3. /\ opSeen[g] # OpNone =>
             /\ opSeen[g] <= opClock
             /\ opClock <= opSeen[g] + OpWindow =>
                  \E e \in In(opHashes) : e.hash = OpHash[g] /\ e.ts = opSeen[g]
        /\ \A e \in In(opHashes) : e.hash = OpHash[g] => e.pid = g[1] /\ e.ts = opSeen[g]
    BY <2>2 DEF OpRecent
  <2>4. g \in Opens!Files
    BY FilesAre
  <2>5. opSeen'[g] = IF g[1] = p THEN OpNone ELSE opSeen[g]
    BY <1>1, <2>4
  <2>6. CASE g[1] = p
    BY <1>3, <2>3, <2>5, <2>6
  <2>7. CASE g[1] # p
    <3>1. opSeen'[g] = opSeen[g]
      BY <2>5, <2>7
    <3>2. \A e : e.hash = OpHash[g] => (e \in In(opHashes') <=> e \in In(opHashes))
      BY <1>3, <2>3, <2>7
    <3>3. opClock \in Nat /\ ts \in Nat /\ opSeen[g] \in Nat \cup {OpNone} /\ OpWindow \in Nat
      BY <2>4, OpAssumed DEF OpTimes
    <3>4. opClock' \in Nat /\ opClock <= opClock'
      BY <1>1, <3>3
    <3>5. ASSUME opSeen[g] # OpNone
          PROVE  /\ opSeen[g] <= opClock'
                 /\ opClock' <= opSeen[g] + OpWindow => opClock <= opSeen[g] + OpWindow
      <4>1. opSeen[g] \in Nat /\ opSeen[g] <= opClock
        BY <2>3, <3>3, <3>5
      <4> QED
        BY <3>3, <3>4, <4>1
    <3> QED
      BY <2>3, <3>1, <3>2, <3>5
  <2> QED
    BY <2>6, <2>7
<1> QED
  BY <1>7, <1>8, <1>9, <1>10

LEMMA OpeningIs ==
  ASSUME NEW p \in OpPids, NEW f \in OpPaths, NEW ts, Opens!Open(p, f, ts)
  PROVE  /\ opClock' = IF ts > opClock THEN ts ELSE opClock
         /\ opLate' = (opLate \/ ts < opClock)
         /\ opLimits' = Opens!Limit(p, ts).limits
         /\ \/ /\ Opens!Limit(p, ts).drop /\ opOwed' = [opOwed EXCEPT ![p] = TRUE]
               /\ opHashes' = opHashes /\ opAccepted' = opAccepted /\ opFirsts' = opFirsts
               /\ opLater' = opLater /\ opSeen' = opSeen
            \/ /\ ~Opens!Limit(p, ts).drop
               /\ Opens!Aggregate(p, f, ts, Opens!Limit(p, ts).warn)
BY DEF Opens!Open, Opens!Handle, Opens!Dropped

LEMMA KeptByOpen ==
  ASSUME OpShape, OpTold, OpTimes, OpRecent, NEW p \in OpPids, NEW f \in OpPaths,
         NEW ts \in 0 .. OpMaxTime, Opens!Open(p, f, ts)
  PROVE  OpShape' /\ OpTold' /\ OpTimes' /\ OpRecent'
<1> DEFINE limit == Opens!Limit(p, ts)
<1>1. /\ opClock' = IF ts > opClock THEN ts ELSE opClock
      /\ opLate' = (opLate \/ ts < opClock)
      /\ opLimits' = limit.limits
      /\ \/ /\ limit.drop /\ opOwed' = [opOwed EXCEPT ![p] = TRUE]
            /\ opHashes' = opHashes /\ opAccepted' = opAccepted /\ opFirsts' = opFirsts
            /\ opLater' = opLater /\ opSeen' = opSeen
         \/ ~limit.drop /\ Opens!Aggregate(p, f, ts, limit.warn)
  BY OpeningIs
<1>2. ts \in Nat /\ ts \in Int /\ opClock \in Nat /\ opLate \in BOOLEAN /\ OpWindow \in Nat
  BY OpAssumed DEF OpTimes
<1>3. opClock' \in Nat /\ opLate' \in BOOLEAN /\ opClock <= opClock'
  <2>1. opClock' \in Nat /\ opClock <= opClock'
    BY <1>1, <1>2
  <2>2. opLate' \in BOOLEAN
    BY <1>1
  <2> QED
    BY <2>1, <2>2
<1>4. OpLimited(opLimits, opOwed) /\ opOwed \in [OpPids -> BOOLEAN]
  BY DEF OpShape
<1>5. CASE /\ limit.drop /\ opOwed' = [opOwed EXCEPT ![p] = TRUE]
           /\ opHashes' = opHashes /\ opAccepted' = opAccepted /\ opFirsts' = opFirsts
           /\ opLater' = opLater /\ opSeen' = opSeen
  <2>1. /\ opOwed' \in [OpPids -> BOOLEAN] /\ opOwed'[p]
        /\ \A q \in OpPids \ {p} : opOwed'[q] = opOwed[q]
    BY <1>4, <1>5
  <2>2. OpLimited(limit.limits, opOwed')
    BY <1>2, <1>4, <1>5, <2>1, LimitKept
  <2>3. OpShape'
    BY <1>1, <1>5, <2>1, <2>2 DEF OpShape
  <2>4. OpTold'
    BY <1>5 DEF OpTold
  <2>5. OpTimes'
    BY <1>3, <1>5 DEF OpTimes
  <2>6. OpRecent'
    <3> SUFFICES ASSUME ~opLate', NEW g \in Opens!Unshared
                 PROVE  /\ opSeen[g] # OpNone =>
                             /\ opSeen[g] <= opClock'
                             /\ opClock' <= opSeen[g] + OpWindow =>
                                  \E e \in In(opHashes) : e.hash = OpHash[g] /\ e.ts = opSeen[g]
                        /\ \A e \in In(opHashes) : e.hash = OpHash[g] =>
                             e.pid = g[1] /\ e.ts = opSeen[g]
      BY <1>5 DEF OpRecent
    <3>1. opLate' <=> (opLate \/ ts < opClock)
      BY <1>1, Zenon
    <3>2. ~opLate
      BY <3>1
    <3>3. /\ opSeen[g] # OpNone =>
               /\ opSeen[g] <= opClock
               /\ opClock <= opSeen[g] + OpWindow =>
                    \E e \in In(opHashes) : e.hash = OpHash[g] /\ e.ts = opSeen[g]
          /\ \A e \in In(opHashes) : e.hash = OpHash[g] => e.pid = g[1] /\ e.ts = opSeen[g]
      BY <3>2 DEF OpRecent
    <3>4. opSeen[g] \in Nat \cup {OpNone}
      BY FilesAre DEF OpTimes
    <3>5. ASSUME opSeen[g] # OpNone
          PROVE  /\ opSeen[g] <= opClock'
                 /\ opClock' <= opSeen[g] + OpWindow => opClock <= opSeen[g] + OpWindow
      <4>1. opSeen[g] \in Nat /\ opSeen[g] <= opClock
        BY <3>3, <3>4, <3>5
      <4> QED
        BY <1>2, <1>3, <4>1
    <3> QED
      BY <3>3, <3>5
  <2> QED
    BY <2>3, <2>4, <2>5, <2>6
<1>6. CASE ~limit.drop /\ Opens!Aggregate(p, f, ts, limit.warn)
  <2> HIDE DEF limit
  <2>1. Opens!Aggregate(p, f, ts, limit.warn)
    BY <1>6
  <2>2. /\ OpTable(opHashes') /\ Len(opHashes') <= OpMaxHashes
        /\ opAccepted' \in [Opens!Hashes -> Nat] /\ opFirsts' \in [Opens!Hashes -> Nat]
        /\ opLater' \in [Opens!Hashes -> Nat]
        /\ \A g \in Opens!Hashes :
             opAccepted'[g] = opFirsts'[g] + opLater'[g] + Opens!Later(opHashes', g, OpPids)
    BY <1>2, <2>1, ToldByAggregation
  <2>3. opSeen' \in [Opens!Files -> Nat \cup {OpNone}]
    BY <1>2, <2>1, AfterAggregation
  <2>4. opOwed' = opOwed \/ opOwed' = [opOwed EXCEPT ![p] = @ /\ ~limit.warn]
    <3>1. Found(p, f, ts, limit.warn) \/ First(p, f, ts, limit.warn)
      BY <2>1, Aggregation
    <3>2. CASE Found(p, f, ts, limit.warn)
      BY <3>2, Zenon DEF Found
    <3>3. CASE First(p, f, ts, limit.warn)
      BY <3>3, Zenon DEF First
    <3> QED
      BY <3>1, <3>2, <3>3
  <2>5. /\ opOwed' \in [OpPids -> BOOLEAN] /\ (opOwed[p] /\ ~limit.warn => opOwed'[p])
        /\ \A q \in OpPids \ {p} : opOwed'[q] = opOwed[q]
    BY <1>4, <2>4
  <2>6. OpLimited(limit.limits, opOwed')
    BY <1>2, <1>4, <1>6, <2>5, LimitKept DEF limit
  <2>7. OpRecent'
    BY <1>1, <2>1, RecentByAggregation
  <2> QED
    BY <1>1, <1>3, <2>2, <2>3, <2>5, <2>6, <2>7 DEF OpShape, OpTold, OpTimes
<1> QED
  BY <1>1, <1>5, <1>6

OpKept == OpShape /\ OpTold /\ OpTimes /\ OpRecent

LEMMA OpKeptByNext ==
  ASSUME OpKept, [Opens!Next]_(Opens!vars)
  PROVE  OpKept'
<1>1. CASE Opens!Next
  <2>1. PICK p \in OpPids, ts \in 0 .. OpMaxTime :
          Opens!Exit(p, ts) \/ \E f \in OpPaths : Opens!Open(p, f, ts)
    BY <1>1 DEF Opens!Next
  <2>2. CASE Opens!Exit(p, ts)
    BY <2>2, KeptByExit DEF OpKept
  <2>3. ASSUME NEW f \in OpPaths, Opens!Open(p, f, ts)
        PROVE  OpKept'
    BY <2>3, KeptByOpen DEF OpKept
  <2> QED
    BY <2>1, <2>2, <2>3
<1>2. CASE UNCHANGED Opens!vars
  BY <1>2 DEF OpKept, OpShape, OpTold, OpTimes, OpRecent, Opens!vars
<1> QED
  BY <1>1, <1>2

LEMMA OpensPart == CountingSpec => Opens!Spec
<1>1. CountingInit => Opens!Init
  BY DEF CountingInit
<1>2. [CountingNext]_<<part, vars, agVars, opVars>> => [Opens!Next]_(Opens!vars)
  BY DEF CountingNext, opVars, Opens!vars
<1> QED
  BY <1>1, <1>2, PTL DEF CountingSpec, Opens!Spec

LEMMA OpAlwaysKept == CountingSpec => []OpKept
<1>1. Opens!Init => OpKept
  BY OpAtFirst DEF OpKept
<1>2. OpKept /\ [Opens!Next]_(Opens!vars) => OpKept'
  BY OpKeptByNext
<1> QED
  BY <1>1, <1>2, OpensPart, PTL DEF Opens!Spec

\* get_file_open_count, flush_pid_file_opens and should_rate_limit_file, for any hash
\* function, any processes and tables of any size: the tables keep their shape, and every
\* open that passes the limit is in exactly one line or in the count of one entry.
THEOREM OpensAreAccounted == CountingSpec => []Accounted
<1>1. OpKept => Accounted
  <2> SUFFICES ASSUME OpKept
               PROVE  Opens!Accounted
    BY DEF Accounted
  <2>1. OpTable(opHashes) /\ Len(opHashes) <= OpMaxHashes /\ OpLimited(opLimits, opOwed)
    BY DEF OpKept, OpShape
  <2>2. DOMAIN opHashes = 1 .. Len(opHashes) /\ DOMAIN opLimits = 1 .. Len(opLimits)
    BY <2>1, OpTableFacts, LimitFacts
  <2>3. \A i \in DOMAIN opHashes : opHashes[i].count \in Nat \ {0}
    BY <2>1, <2>2, OpTableFacts DEF OpEntry
  <2>4. Opens!TypeOK
    <3>1. \A i, j \in DOMAIN opHashes : opHashes[i].hash = opHashes[j].hash => i = j
      BY <2>1, <2>2 DEF OpTable
    <3>2. \A i, j \in DOMAIN opLimits : opLimits[i].pid = opLimits[j].pid => i = j
      BY <2>1, <2>2, LimitFacts
    <3>3. Len(opLimits) <= OpMaxLimits
      BY <2>1, LimitFacts
    <3> QED
      BY <2>1, <2>3, <3>1, <3>2, <3>3 DEF Opens!TypeOK
  <2>5. \A i \in DOMAIN opLimits : opLimits[i].warn => opOwed[opLimits[i].pid]
    BY <2>1, <2>2, LimitFacts
  <2>6. OpTold
    BY DEF OpKept
  <2> QED
    BY <2>4, <2>5, <2>6 DEF Opens!Accounted, OpTold
<1> QED
  BY <1>1, OpAlwaysKept, PTL

\* What a step decides about a file whose hash is its own
Decided == ~opLate' => \A f \in Opens!Unshared :
  LET printed == opFirsts'[OpHash[f]] > opFirsts[OpHash[f]]
      silent  == opAccepted'[OpHash[f]] > opAccepted[OpHash[f]] /\ ~printed
      recent  == opSeen[f] # OpNone /\ opClock' <= opSeen[f] + OpWindow
  IN  (printed => ~recent) /\ (silent => recent)

LEMMA DecidedWithoutLines ==
  ASSUME OpShape, opFirsts' = opFirsts, opAccepted' = opAccepted
  PROVE  Decided
<1> SUFFICES ASSUME NEW f \in Opens!Unshared
             PROVE  /\ ~(opFirsts'[OpHash[f]] > opFirsts[OpHash[f]])
                    /\ ~(opAccepted'[OpHash[f]] > opAccepted[OpHash[f]])
  BY DEF Decided
<1>1. opFirsts[OpHash[f]] \in Nat /\ opAccepted[OpHash[f]] \in Nat
  BY FilesAre DEF OpShape
<1> QED
  BY <1>1

\* get_file_open_count: as long as timestamps are in order, a file's open is printed
\* exactly when its process has no other within the window before, or that one found no
\* room; and it is left out exactly when it has.
THEOREM WindowsDecide == CountingSpec => WindowDecides
<1>1. OpKept /\ [Opens!Next]_(Opens!vars) => [Decided]_(Opens!vars)
  <2> SUFFICES ASSUME OpKept, Opens!Next
               PROVE  Decided
    OBVIOUS
  <2>0. OpShape /\ OpTimes /\ OpRecent
    BY DEF OpKept
  <2>1. PICK p \in OpPids, ts \in 0 .. OpMaxTime :
          Opens!Exit(p, ts) \/ \E f \in OpPaths : Opens!Open(p, f, ts)
    BY DEF Opens!Next
  <2>2. CASE Opens!Exit(p, ts)
    BY <2>0, <2>2, DecidedWithoutLines DEF Opens!Exit
  <2>3. ASSUME NEW f \in OpPaths, Opens!Open(p, f, ts)
        PROVE  Decided
    <3>1. /\ opClock' = IF ts > opClock THEN ts ELSE opClock
          /\ opLate' = (opLate \/ ts < opClock)
      BY <2>3, OpeningIs
    <3>2. \/ opFirsts' = opFirsts /\ opAccepted' = opAccepted
          \/ Opens!Aggregate(p, f, ts, Opens!Limit(p, ts).warn)
      BY <2>3, OpeningIs
    <3>3. CASE opFirsts' = opFirsts /\ opAccepted' = opAccepted
      BY <2>0, <3>3, DecidedWithoutLines
    <3>4. CASE Opens!Aggregate(p, f, ts, Opens!Limit(p, ts).warn)
      <4> SUFFICES ASSUME ~opLate'
                   PROVE  Decided
        BY DEF Decided
      <4>1. opLate' <=> (opLate \/ ts < opClock)
        BY <3>1, Zenon
      <4>2. ~opLate /\ ~(ts < opClock)
        BY <4>1
      <4>3. opClock <= ts /\ opClock' = ts
        BY <2>0, <3>1, <4>2, OpAssumed DEF OpTimes
      <4> QED
        BY <2>0, <3>4, <4>2, <4>3, WindowByAggregation DEF Decided
    <3> QED
      BY <3>2, <3>3, <3>4
  <2> QED
    BY <2>1, <2>2, <2>3
<1> QED
  BY <1>1, OpensPart, OpAlwaysKept, PTL DEF Opens!Spec, WindowDecides, Opens!WindowDecides, Decided

=============================================================================
