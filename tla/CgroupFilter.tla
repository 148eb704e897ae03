---------------------------- MODULE CgroupFilter ----------------------------
(***************************************************************************)
(* The cgroup filter of the process tracer (src/bpf/process.c).  The       *)
(* kernel's probes accept the target cgroup, whose id is compiled in when  *)
(* the program starts, and, with --cgroup-filter-children, the ids in      *)
(* tracked_cgroups.  The program rebuilds that map every two seconds: it   *)
(* empties it, and walks the tree of cgroups again, while probes read it   *)
(* and cgroups come and go.                                                *)
(*                                                                         *)
(* A cgroup that is removed and created again has the same path and        *)
(* another id: an id is the path and the number of times it was created.   *)
(***************************************************************************)
EXTENDS Naturals, FiniteSets, Sequences, SequencesExt

CONSTANTS
  Paths,     \* paths at which there may be a cgroup
  ParentOf,  \* the parent of each path; that of a top-level one is no path
  Root,      \* --cgroup-filter
  Live0,     \* the paths that have a cgroup when the program starts
  Children,  \* values of --cgroup-filter-children explored
  MapSize,   \* MAX_TRACKED_CGROUPS
  Changes    \* bound: cgroups created and removed

CgroupAssumption ==
  /\ Root \in Live0 /\ Live0 \subseteq Paths
  /\ Children \subseteq BOOLEAN /\ MapSize \in Nat /\ Changes \in Nat
  /\ \A p \in Live0 : ParentOf[p] \in Paths => ParentOf[p] \in Live0

VARIABLES
  children,  \* --cgroup-filter-children
  target,    \* target_cgroup_id
  live,      \* the ids of the cgroups that exist
  born,      \* how many times a cgroup was created at each path
  changes,   \* bound on Changes
  tracked,   \* keys of tracked_cgroups
  attached,  \* the probes are attached
  phase,     \* the program: "clear", "root", "walk", "running" or "ended"
  walk,      \* the directories that the walk has open, outermost first
  through,   \* history: cgroups below the root that have lived since the last
             \* refresh began
  during     \* history: those that have lived at some time since then

tree    == <<live, born, changes>>
refresh == <<tracked, attached, phase, walk>>
history == <<through, during>>
cgroupVars == <<children, target, tree, refresh, history>>

IdOf(p) == <<p, born[p]>>
Exists(p) == IdOf(p) \in live
LiveIn(dir) == {p \in Paths : ParentOf[p] = dir /\ Exists(p)}

\* The root is among p and the cgroups above it: whatever has p, and the parent of
\* each that it has, has the root.
Below(p) ==
  \A above \in SUBSET Paths :
    (p \in above /\ \A q \in above : ParentOf[q] \in Paths => ParentOf[q] \in above)
    => Root \in above

Subtree == {id \in live : Below(id[1])}

CgroupInit ==
  /\ children \in Children
  /\ born = [p \in Paths |-> IF p \in Live0 THEN 1 ELSE 0]
  /\ live = {<<p, 1>> : p \in Live0}
  /\ target = <<Root, 1>>
  /\ changes = 0
  /\ tracked = {} /\ attached = FALSE /\ walk = << >>
  /\ phase = IF children THEN "clear" ELSE "running"
  /\ through = Subtree /\ during = Subtree

-----------------------------------------------------------------------------
\* populate_cgroup_filter_map, before the probes are attached and then in the
\* main loop

BeginRefresh ==
  /\ phase = "running" /\ attached /\ children
  /\ phase' = "clear"
  /\ through' = Subtree /\ during' = Subtree
  /\ UNCHANGED <<children, target, tree, tracked, attached, walk>>

\* clear_u64_set_map deletes the keys one by one.
Clear(id) ==
  /\ phase = "clear" /\ id \in tracked
  /\ tracked' = tracked \ {id}
  /\ UNCHANGED <<children, target, tree, attached, phase, walk, history>>

Cleared ==
  /\ phase = "clear" /\ tracked = {}
  /\ phase' = "root"
  /\ UNCHANGED <<children, target, tree, tracked, attached, walk, history>>

\* Whether the update succeeds is not looked at below the root.
Added(p) == IF Cardinality(tracked) < MapSize THEN tracked \cup {IdOf(p)} ELSE tracked

\* opendir: what is there now will be returned by readdir unless it goes away;
\* what is created later may be.
Opened(p) == [dir |-> p, must |-> {IdOf(c) : c \in LiveIn(p)}, met |-> {}]

\* A mutant: what happens when the root is missing is left to the next refresh
\* as it is, and the walk begins at the parent of the root.
FromParent ==
  /\ phase = "root"
  /\ phase' = "walk"
  /\ tracked' = Added(Root)
  /\ walk' = << Opened(ParentOf[Root]) >>
  /\ UNCHANGED <<children, target, tree, attached, history>>

\* Without its root the subtree is not to be found: -ENOENT, which ends the
\* program at its start; a refresh leaves the map empty.
AddRoot ==
  /\ phase = "root"
  /\ IF Exists(Root)
       THEN /\ phase' = "walk"
            /\ tracked' = Added(Root)
            /\ walk' = << Opened(Root) >>
       ELSE /\ phase' = IF attached THEN "running" ELSE "ended"
            /\ UNCHANGED <<tracked, walk>>
  /\ UNCHANGED <<children, target, tree, attached, history>>

\* add_descendant_cgroup_ids: an entry that can be examined is added, and its
\* own entries come next; paths have less than 1024 bytes, and a directory that
\* is there can be opened.
Visit(p) ==
  /\ phase = "walk" /\ ParentOf[p] = Last(walk).dir
  /\ Exists(p) /\ p \notin Last(walk).met
  /\ tracked' = Added(p)
  /\ walk' = Append(Append(Front(walk), [Last(walk) EXCEPT !.met = @ \cup {p}]), Opened(p))
  /\ UNCHANGED <<children, target, tree, attached, phase, history>>

Closed ==
  LET d == Last(walk) IN \A id \in d.must \cap live : id[1] \in d.met

CloseDir ==
  /\ phase = "walk" /\ Closed
  /\ walk' = Front(walk)
  /\ phase' = IF Len(walk) = 1 THEN "running" ELSE "walk"
  /\ UNCHANGED <<children, target, tree, tracked, attached, history>>

\* process_bpf__attach
Attach ==
  /\ phase = "running" /\ ~attached
  /\ attached' = TRUE
  /\ UNCHANGED <<children, target, tree, tracked, phase, walk, history>>

Populate == \/ BeginRefresh \/ Cleared \/ AddRoot \/ CloseDir \/ Attach
            \/ \E id \in tracked : Clear(id)
            \/ \E p \in Paths : Visit(p)

-----------------------------------------------------------------------------
\* Cgroups are created and removed by others.

Changed == phase # "ended" /\ changes < Changes /\ changes' = changes + 1

Mkdir(p) ==
  /\ Changed
  /\ ~Exists(p)
  /\ ParentOf[p] \in Paths => Exists(ParentOf[p])
  /\ born' = [born EXCEPT ![p] = @ + 1]
  /\ live' = live \cup {<<p, born'[p]>>}
  /\ during' = IF Below(p) THEN during \cup {<<p, born'[p]>>} ELSE during
  /\ UNCHANGED <<children, target, refresh, through>>

\* The kernel removes a cgroup only when it is empty.
Rmdir(p) ==
  /\ Changed
  /\ Exists(p) /\ LiveIn(p) = {}
  /\ live' = live \ {IdOf(p)}
  /\ through' = through \ {IdOf(p)}
  /\ UNCHANGED <<children, target, born, refresh, during>>

-----------------------------------------------------------------------------
\* is_cgroup_tracked, for a process in the cgroup id
CgroupTracked(id) == id = target \/ (children /\ id \in tracked)

\* Between refreshes, the map holds every cgroup of the subtree that has lived
\* since before the last refresh, unless the map is full, and nothing but
\* cgroups that were in the subtree meanwhile: whatever was created and removed
\* during the walk, and with the root removed or created anew.
RefreshExact ==
  /\ Cardinality(tracked) <= MapSize
  /\ (children /\ phase = "running") =>
       /\ through \subseteq tracked \/ Cardinality(tracked) = MapSize
       /\ tracked \subseteq during

=============================================================================
