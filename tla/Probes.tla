------------------------------- MODULE Probes -------------------------------
(***************************************************************************)
(* The probes that keep something from the entry of a call to its exit: on *)
(* TLS functions, on the calls that stdio is made of, and on a browser's.  *)
(* Each is a program of its own; they share no state, so that a behaviour  *)
(* is of one of them.                                                      *)
(***************************************************************************)
EXTENDS TlsProbe

CONSTANTS
  \* of StdioProbe
  IoPids, IoAlive0, IoSession0, IoOptions, IoLevels, IoEntries, IoRingSize, IoEvents, IoNoPid,
  \* of BrowserProbe
  BrProcs, BrFds, BrOptions, BrRingSize, BrCacheSize

VARIABLES
  part,  \* the probe of this behaviour: "tls", "stdio" or "browser"
  ioOpts, ioPhase, ioAttached, ioScan, ioAlive, ioParent, ioSess, ioEvents,
  ioCalls, ioCurrent, ioArgs, ioTracked, ioRing, ioShown, ioKin, ioSeen,
  ioLost,
  brOpts, brAttached, brExe, brChanges, brUses, brFds, brImporting,
  brCurrent, brCalls, brNss_import_fds, brNss_ssl_fds, brBufs, brRing,
  brSent, brLost, brRobbed, brTarget_pid_cache, brShown

ioVars ==
  <<ioOpts, ioPhase, ioAttached, ioScan, ioAlive, ioParent, ioSess, ioEvents,
    ioCalls, ioCurrent, ioArgs, ioTracked, ioRing, ioShown, ioKin, ioSeen,
    ioLost>>
brVars ==
  <<brOpts, brAttached, brExe, brChanges, brUses, brFds, brImporting,
    brCurrent, brCalls, brNss_import_fds, brNss_ssl_fds, brBufs, brRing,
    brSent, brLost, brRobbed, brTarget_pid_cache, brShown>>

-----------------------------------------------------------------------------
Io == INSTANCE StdioProbe WITH
  Pids <- IoPids, Alive0 <- IoAlive0, Session0 <- IoSession0, Options <- IoOptions,
  Levels <- IoLevels, Entries <- IoEntries, RingSize <- IoRingSize, Events <- IoEvents,
  NoPid <- IoNoPid,
  opts <- ioOpts, phase <- ioPhase, attached <- ioAttached, scan <- ioScan,
  alive <- ioAlive, parent <- ioParent, sess <- ioSess, events <- ioEvents,
  calls <- ioCalls, current <- ioCurrent, args <- ioArgs,
  tracked <- ioTracked, ring <- ioRing, shown <- ioShown, kin <- ioKin,
  seen <- ioSeen, lost <- ioLost

Br == INSTANCE BrowserProbe WITH
  Procs <- BrProcs, Fds <- BrFds, Options <- BrOptions, RingSize <- BrRingSize,
  CacheSize <- BrCacheSize,
  opts <- brOpts, attached <- brAttached, exe <- brExe, changes <- brChanges,
  uses <- brUses, fds <- brFds, importing <- brImporting,
  current <- brCurrent, calls <- brCalls, nss_import_fds <- brNss_import_fds,
  nss_ssl_fds <- brNss_ssl_fds, bufs <- brBufs, ring <- brRing,
  sent <- brSent, lost <- brLost, robbed <- brRobbed,
  target_pid_cache <- brTarget_pid_cache, shown <- brShown

ASSUME ProbesAssumption == Io!StdioAssumption /\ Br!BrowserAssumption

-----------------------------------------------------------------------------
\* The probes that a behaviour is not of are in some initial state.
ProbesInit ==
  /\ part \in {"tls", "stdio", "browser"}
  /\ Init /\ Io!Init /\ Br!Init
  /\ part # "tls" => opts = CHOOSE o \in Options : TRUE
  /\ part # "stdio" => ioOpts = CHOOSE o \in IoOptions : TRUE
  /\ part # "browser" => brOpts = CHOOSE o \in BrOptions : TRUE

ProbesNext ==
  \/ part = "tls" /\ Next /\ UNCHANGED <<part, ioVars, brVars>>
  \/ part = "stdio" /\ Io!Next /\ UNCHANGED <<part, vars, brVars>>
  \/ part = "browser" /\ Br!Next /\ UNCHANGED <<part, vars, ioVars>>

ProbesSpec == ProbesInit /\ [][ProbesNext]_<<part, vars, ioVars, brVars>>

\* The properties of the other probes, each explained in its module.

\* exit_common of stdiocap reports a call with its own arguments.
OwnArguments == part = "stdio" => Io!OwnArguments

\* stdiocap reports the session's processes and their descendants, and no others.
KinReported == part = "stdio" => Io!KinReported

\* browsertrace_exit reports what TLS descriptors carry, with its own buffer.
TlsCallsReported == part = "browser" => Br!TlsCallsReported

\* target_process_matches lets by the records of the browser alone.
VerdictExact == Br!VerdictExact
=============================================================================
