------------------------------- MODULE PidSet -------------------------------
(***************************************************************************)
(* What the PID tracker promises: a set of PIDs.  An added PID is tracked  *)
(* at once, a removed one no longer, and an add of another PID never takes *)
(* one out.  While the set is reliable it is exactly what the calls say,   *)
(* and an add fails only for want of room; otherwise a removal may hide    *)
(* other members, and an add may bring them back.                          *)
(***************************************************************************)
EXTENDS Naturals, FiniteSets

CONSTANTS Pids, Capacity

VARIABLES members, answer, reliable

setVars == <<members, answer, reliable>>

SetInit == members = {} /\ answer = "removed" /\ reliable = TRUE

SetAdd(p) ==
  \/ /\ answer' = "added"
     /\ members \cup {p} \subseteq members'
     /\ reliable' => members' = members \cup {p}
  \/ /\ answer' = "refused"
     /\ p \notin members
     /\ reliable' => Cardinality(members) >= Capacity
     /\ UNCHANGED members

SetRemove(p) ==
  /\ answer' = "removed"
  /\ members' \subseteq members \ {p}
  /\ reliable' => members' = members \ {p}

SetNext ==
  /\ \E p \in Pids : SetAdd(p) \/ SetRemove(p)
  /\ reliable' \in {reliable, FALSE}

SetSpec == SetInit /\ [][SetNext]_setVars

=============================================================================
