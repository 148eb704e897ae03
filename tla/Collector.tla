----------------------------- MODULE Collector ------------------------------
(***************************************************************************)
(* Two parts of the collector that share no state, so that a behaviour is  *)
(* of one of them: the pairing of LLM requests and responses, and the pid  *)
(* file of the background monitor.                                         *)
(***************************************************************************)
EXTENDS LlmPairing

CONSTANTS MonPids, MonBudgets, MonMaxInst  \* of MonitorService

VARIABLES
  part,  \* the part of this behaviour: "rows" or "monitor"
  monInst, monFile, monDb, monOthers, monService, monLeft, monDisturbed,
  monImpostor

monVars ==
  <<monInst, monFile, monDb, monOthers, monService, monLeft, monDisturbed,
    monImpostor>>

Monitor == INSTANCE MonitorService WITH
  Pids <- MonPids, Budgets <- MonBudgets, MaxInst <- MonMaxInst,
  inst <- monInst, file <- monFile, db <- monDb, others <- monOthers,
  service <- monService, left <- monLeft, disturbed <- monDisturbed,
  impostor <- monImpostor

ASSUME CollectorAssumption == Monitor!MonitorAssumption

-----------------------------------------------------------------------------
\* The part that a behaviour is not of is in some initial state.
CollectorInit ==
  /\ part \in {"rows", "monitor"}
  /\ Init /\ Monitor!Init
  /\ part # "rows" => traffic = CHOOSE t \in Traffics : TRUE
  /\ part # "monitor" => monFile = Monitor!Absent /\ monLeft.starts = 0

CollectorNext ==
  \/ part = "rows" /\ Next /\ UNCHANGED <<part, monVars>>
  \/ part = "monitor" /\ Monitor!Next /\ UNCHANGED <<part, vars>>

CollectorSpec == CollectorInit /\ [][CollectorNext]_<<part, vars, monVars>>

\* The property of MonitorService: run_monitor's PID is in the file while it runs.
NamedInFile == part = "monitor" => Monitor!NamedInFile
=============================================================================
