----------------------------- MODULE MCCounting -----------------------------
(* Small instances of what the process tracer counts *)
EXTENDS Counting

\* The root, a child of it, a grandchild to be created, and a sibling
MCParent == [r |-> "top", c |-> "r", d |-> "c", o |-> "top"]
MCWhere  == [p \in {1, 2} |-> IF p = 1 THEN "r" ELSE "c"]
MCPaths  == DOMAIN MCParent

\* Two processes and two paths; the first path has the same hash for both.
MCHash == [f \in {1, 2} \X {1, 2} |-> IF f[2] = 1 THEN 1 ELSE 10 * f[1] + f[2]]

\* Three keys of two processes on two elements, so that the map fills up.
MCPidOf == [k \in {1, 2, 3} |-> IF k = 2 THEN 20 ELSE 10]
=============================================================================
