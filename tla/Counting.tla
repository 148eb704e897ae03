------------------------------ MODULE Counting -------------------------------
(***************************************************************************)
(* The ways in which the process tracer says less than happens: system     *)
(* calls that are only counted, behind the cgroup and PID filters; the map *)
(* in the kernel that aggregates them; and the aggregation of repeated     *)
(* opens in the program.  They share no state here, so that a behaviour is *)
(* of one of them: the filters decide whether, and the map under which     *)
(* key, and the opens come through the ring buffer.                        *)
(***************************************************************************)
EXTENDS WriteProbe

CONSTANTS
  \* of AggMap
  AgCpus, AgElems, AgKeys, AgPidOf, AgDelCap, AgOps, AgRounds, AgNone,
  \* of FileOpenDedup
  OpPids, OpPaths, OpHash, OpMaxHashes, OpMaxLimits, OpPerSecond, OpSecond, OpWindow,
  OpWide, OpSkew, OpMaxTime, OpMaxOpens, OpNone

VARIABLES
  part,  \* what this behaviour is of: "writes", "map" or "opens"
  agIndex, agContent, agCpu, agOverflow, agUser, agIssued, agPrinted, agWarned,
  agOverlap, agRounds,
  opHashes, opLimits, opClock, opOpens, opAccepted, opFirsts, opLater, opSeen,
  opOwed, opLate

agVars ==
  <<agIndex, agContent, agCpu, agOverflow, agUser, agIssued, agPrinted, agWarned,
    agOverlap, agRounds>>
opVars ==
  <<opHashes, opLimits, opClock, opOpens, opAccepted, opFirsts, opLater, opSeen,
    opOwed, opLate>>

-----------------------------------------------------------------------------
Map == INSTANCE AggMap WITH
  Cpus <- AgCpus, Elems <- AgElems, Keys <- AgKeys, PidOf <- AgPidOf,
  DelCap <- AgDelCap, Ops <- AgOps, Rounds <- AgRounds, None <- AgNone,
  index <- agIndex, content <- agContent, cpu <- agCpu, overflow <- agOverflow,
  user <- agUser, issued <- agIssued, printed <- agPrinted, warned <- agWarned,
  overlap <- agOverlap, rounds <- agRounds

Opens == INSTANCE FileOpenDedup WITH
  Pids <- OpPids, Paths <- OpPaths, Hash <- OpHash, MaxHashes <- OpMaxHashes,
  MaxLimits <- OpMaxLimits, PerSecond <- OpPerSecond, Second <- OpSecond,
  Window <- OpWindow, Wide <- OpWide, Skew <- OpSkew, MaxTime <- OpMaxTime,
  MaxOpens <- OpMaxOpens, None <- OpNone,
  hashes <- opHashes, limits <- opLimits, clock <- opClock, opens <- opOpens,
  accepted <- opAccepted, firsts <- opFirsts, later <- opLater, seen <- opSeen,
  owed <- opOwed, late <- opLate

ASSUME CountingAssumption ==
  WriteAssumption /\ Map!AggMapAssumption /\ Opens!FileOpenAssumption

-----------------------------------------------------------------------------
\* What a behaviour is not of is in some initial state.
CountingInit ==
  /\ part \in {"writes", "map", "opens"}
  /\ Init /\ Map!Init /\ Opens!Init
  /\ part # "writes" => ~children /\ ~filterPids

CountingNext ==
  \/ part = "writes" /\ Next /\ UNCHANGED <<part, agVars, opVars>>
  \/ part = "map" /\ Map!Next /\ UNCHANGED <<part, vars, opVars>>
  \/ part = "opens" /\ Opens!Next /\ UNCHANGED <<part, vars, agVars>>

CountingSpec == CountingInit /\ [][CountingNext]_<<part, vars, agVars, opVars>>

\* The properties of the others, each explained in its module.

\* flush_agg_map and check_overflow never report more than was counted.
NeverOverReported == part = "map" => Map!NeverOverReported

\* update_agg_map and the flushes report every operation if they do not overlap.
ExactWithoutOverlap == part = "map" => Map!ExactWithoutOverlap

\* A flush that no probe interferes with leaves nothing of what it is to print.
FlushIsComplete == part = "map" => Map!FlushIsComplete

\* get_file_open_count and flush_pid_file_opens print or count every open.
Accounted == part = "opens" => Opens!Accounted

\* get_file_open_count prints an open exactly if the window before has none.
WindowDecides == Opens!WindowDecides
=============================================================================
