----------------------------- MODULE MCCollector -----------------------------
(* What Collector is checked with. *)
EXTENDS Collector

CONSTANTS s1, s2

MCStreams == {s1, s2}

Traffic(schemes, others, sequential, failing, streams, requests) ==
  [schemes |-> schemes, others |-> others, sequential |-> sequential,
   failing |-> failing, streams |-> streams, requests |-> requests]

\* Pipelined requests named by the client, on sinks that fail; one request at
\* a time on two streams, without names; and everything at once.
MCTraffics ==
  {Traffic({"client"}, FALSE, FALSE, TRUE, {s1}, 3),
   Traffic({"nobody"}, FALSE, TRUE, FALSE, {s1, s2}, 4),
   Traffic({"nobody", "server", "client"}, TRUE, FALSE, FALSE, {s1}, 3)}

\* The service with another program and a fault, or with two faults; two monitors
\* and a process that is none have a PID each.
MCBudgets == {[starts |-> 1, faults |-> 1], [starts |-> 0, faults |-> 2]}

MCPids == {1, 2, 3}
=============================================================================
