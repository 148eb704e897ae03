------------------------------ MODULE TlsProbe ------------------------------
(***************************************************************************)
(* The TLS probe: uprobes and uretprobes on the read, write and handshake  *)
(* functions of a TLS library (src/bpf/sslsniff.bpf.c), and the program    *)
(* that attaches them and prints their records (src/bpf/sslsniff.c).       *)
(*                                                                         *)
(* An enter probe keeps its call's arguments in maps under the thread's    *)
(* id; the exit probe looks them up there.  Nothing else ties the two      *)
(* together: calls nest (a BIO that is itself a TLS connection, a read     *)
(* that performs the handshake), threads die inside a call, ids of threads *)
(* are reused, and probes are attached one by one while threads run.       *)
(*                                                                         *)
(* SIGINT ends the program, and the records that are still in the ring are *)
(* never read: a behaviour in which nothing happens any more.              *)
(***************************************************************************)
EXTENDS Naturals, FiniteSets, Sequences, SequencesExt

CONSTANTS
  Tids,       \* ids of threads, which processes take and give back;
              \* naturals, none of them a leader's in the instances checked
  Procs,      \* ids of processes (tgids); naturals, like user ids
  Uid,        \* the user of each process
  InSession,  \* the processes of the session of --session
  Named,      \* the processes whose threads match -c; the code compares the name
              \* of the thread, and here the threads of a process share theirs
  Options,    \* command lines explored
  Entries,    \* MAX_ENTRIES of bufs, start_ns and readbytes_ptrs
  RingSize,   \* records the ring buffer holds
  Depth,      \* bound: calls nested
  Deaths,     \* bound: threads and processes that end
  Owner0,     \* the process of each thread at first
  AnyId       \* no pid, or no user, was given

Functions == {"SSL_read", "SSL_write", "SSL_read_ex", "SSL_write_ex", "SSL_do_handshake"}

ASSUME TlsProbeAssumption ==
  /\ Tids \subseteq Nat /\ Procs \subseteq Nat /\ Uid \in [Procs -> Nat]
  /\ AnyId \notin Procs \cup {Uid[p] : p \in Procs}
  /\ Entries \in Nat /\ RingSize \in Nat /\ Depth \in Nat
  /\ Deaths \in Nat /\ Owner0 \in [Tids -> Procs]
  /\ \A o \in Options : o.functions \in Seq(Functions) /\ o.calls \in Nat

VARIABLES
  opts,      \* the command line: pid, uid, session, comm, handshake, the
             \* functions to probe in the order of attachment, and whether
             \* they are those of --binary-path; and the bound on calls made
  phase,     \* the program: "attaching", "polling" or "ended"
  attached,  \* how many probes are attached: enter and exit of each function
  owner,     \* the process of each thread
  alive,     \* processes that have not exited
  deaths,    \* bound on Deaths
  calls,     \* history: every call made, with how it ended
  stack,     \* the calls each thread is in, outermost first
  bufs,      \* the call whose buffer is stored for a thread, or None
  starts,    \* start_ns: the call whose start is stored
  lens,      \* readbytes_ptrs: the call whose length pointer is stored
  ring,      \* the ring buffer
  shown,     \* history: records printed
  lost,      \* history: calls whose record found the ring full
  denied     \* history: calls for which a map had no room

maps    == <<bufs, starts, lens>>
kernel  == <<owner, alive, deaths, calls, stack>>
program == <<opts, phase, attached>>
vars    == <<program, kernel, maps, ring, shown, lost, denied>>

None == 0
Keys == Tids \cup Procs   \* a thread id may be a process id, that of its leader

Kind(f) == CASE f \in {"SSL_read", "SSL_write"} -> "rw"
             [] f \in {"SSL_read_ex", "SSL_write_ex"} -> "ex"
             [] f = "SSL_do_handshake" -> "handshake"

Init ==
  /\ opts \in Options
  /\ phase = "attaching" /\ attached = 0
  /\ owner = Owner0
  /\ alive = Procs /\ deaths = 0
  /\ calls = << >>
  /\ stack = [t \in Tids |-> << >>]
  /\ bufs = [k \in Keys |-> None] /\ starts = bufs /\ lens = bufs
  /\ ring = << >> /\ shown = {} /\ lost = {} /\ denied = {}

-----------------------------------------------------------------------------
\* The program: attach_openssl, attach_openssl_by_offset, main

EnterAttached(f) ==
  \E i \in DOMAIN opts.functions : opts.functions[i] = f /\ attached >= 2 * i - 1

ExitAttached(f) ==
  \E i \in DOMAIN opts.functions : opts.functions[i] = f /\ attached >= 2 * i

AllAttached == attached = 2 * Len(opts.functions)

Attach ==
  /\ phase = "attaching" /\ ~AllAttached
  /\ attached' = attached + 1
  /\ UNCHANGED <<opts, phase, kernel, maps, ring, shown, lost, denied>>

\* A function that is not in the library ends its attachment: fatal for
\* --binary-path, tolerated for the system's library.
AttachFails ==
  /\ phase = "attaching" /\ ~AllAttached
  /\ phase' = IF opts.strict THEN "ended" ELSE "polling"
  /\ UNCHANGED <<opts, attached, kernel, maps, ring, shown, lost, denied>>

StartPolling ==
  /\ phase = "attaching" /\ AllAttached
  /\ phase' = "polling"
  /\ UNCHANGED <<opts, attached, kernel, maps, ring, shown, lost, denied>>

\* getsid asks for the session when the record is printed.
Printed(r) ==
  /\ r.handshake => opts.handshake
  /\ opts.comm => r.pid \in Named
  /\ opts.session => r.pid \in InSession \cap alive

Poll ==
  /\ phase = "polling" /\ ring # << >>
  /\ ring' = Tail(ring)
  /\ shown' = IF Printed(Head(ring)) THEN shown \cup {Head(ring)} ELSE shown
  /\ UNCHANGED <<program, kernel, maps, lost, denied>>

-----------------------------------------------------------------------------
\* The probes

Allowed(uid, pid) ==
  /\ opts.pid = AnyId \/ opts.pid = pid
  /\ opts.uid = AnyId \/ opts.uid = uid

Traced(p) == Allowed(Uid[p], p)

\* A mutant: the maps are keyed by the process.
ProcessKey(t) == owner[t]

\* u32 tid = (u32)bpf_get_current_pid_tgid()
Key(t) == t

Room(m, t) == m[Key(t)] # None \/ Cardinality({u \in DOMAIN m : m[u] # None}) < Entries

\* A mutant: BPF_NOEXIST.
StoredIfAbsent(m, t, c) ==
  IF m[Key(t)] = None /\ Room(m, t) THEN [m EXCEPT ![Key(t)] = c] ELSE m

\* bpf_map_update_elem(.., BPF_ANY), whose result nobody looks at
Stored(m, t, c) == IF Room(m, t) THEN [m EXCEPT ![Key(t)] = c] ELSE m

Cleared(m, t) == [m EXCEPT ![Key(t)] = None]

\* probe_SSL_rw_enter, probe_SSL_{write,read}_ex_enter, probe_SSL_do_handshake_enter
EnterProbe(t, c, f) ==
  /\ bufs'   = IF Kind(f) # "handshake" THEN Stored(bufs, t, c) ELSE bufs
  /\ starts' = Stored(starts, t, c)
  /\ lens'   = IF Kind(f) = "ex" THEN Stored(lens, t, c) ELSE lens
  /\ denied' = IF \/ Kind(f) # "handshake" /\ ~Room(bufs, t)
                  \/ ~Room(starts, t)
                  \/ Kind(f) = "ex" /\ ~Room(lens, t)
               THEN denied \cup {c} ELSE denied

Enter(t, f) ==
  LET c == Len(calls) + 1
      call == [fn |-> f, tid |-> t, pid |-> owner[t], probed |-> ExitAttached(f),
               nests |-> FALSE, end |-> "running"]
  IN  /\ phase # "ended" /\ c <= opts.calls
      /\ owner[t] \in alive /\ Len(stack[t]) < Depth
      /\ calls' = Append(IF stack[t] = << >> THEN calls
                         ELSE [calls EXCEPT ![Last(stack[t])].nests = TRUE], call)
      /\ stack' = [stack EXCEPT ![t] = Append(@, c)]
      /\ IF EnterAttached(f) /\ Traced(owner[t])
           THEN EnterProbe(t, c, f)
           ELSE UNCHANGED <<maps, denied>>
      /\ UNCHANGED <<program, owner, alive, deaths, ring, shown, lost>>

\* bpf_ringbuf_reserve and _submit, if there is room; then the entries that the
\* exit probe deletes are deleted
Submit(t, c, shake, cleared) ==
  IF Len(ring) < RingSize
    THEN /\ ring' = Append(ring, [call |-> c, buf |-> IF shake THEN None ELSE bufs[Key(t)],
                                  start |-> starts[Key(t)], pid |-> owner[t],
                                  handshake |-> shake])
         /\ bufs' = IF "bufs" \in cleared THEN Cleared(bufs, t) ELSE bufs
         /\ starts' = IF "starts" \in cleared THEN Cleared(starts, t) ELSE starts
         /\ UNCHANGED lost
    ELSE /\ lost' = lost \cup {c}
         /\ UNCHANGED <<ring, bufs, starts>>

Silent == UNCHANGED <<ring, lost, bufs, starts>>

\* SSL_exit and ex_SSL_exit: all the early returns leave the maps alone.
SSL_exit(t, c, data) ==
  IF Traced(owner[t]) /\ bufs[Key(t)] # None /\ starts[Key(t)] # None /\ data
    THEN Submit(t, c, FALSE, {"bufs", "starts"})
    ELSE Silent

\* probe_SSL_{write,read}_ex_exit: the length is read through the stored
\* pointer, whose call may be another one.
ExExit(t, c, data) ==
  /\ lens' = Cleared(lens, t)
  /\ IF lens[Key(t)] = None
       THEN Silent
       ELSE \E positive \in IF data /\ lens[Key(t)] # c THEN BOOLEAN ELSE {data} :
              SSL_exit(t, c, positive)

\* probe_SSL_do_handshake_exit calls trace_allowed(tgid, pid).
HandshakeExit(t, c, ok) ==
  IF Allowed(owner[t], owner[t]) /\ starts[Key(t)] # None /\ ok
    THEN Submit(t, c, TRUE, {"starts"})
    ELSE Silent

\* The innermost call of a thread returns: data says that it read or wrote
\* something, or that the handshake succeeded.
Exit(t, data) ==
  LET c == Last(stack[t])
      f == calls[c].fn
  IN  /\ phase # "ended" /\ stack[t] # << >>
      /\ stack' = [stack EXCEPT ![t] = Front(@)]
      /\ calls' = [calls EXCEPT ![c].end = IF data THEN "data" ELSE "none"]
      /\ IF ~calls[c].probed
           THEN UNCHANGED <<maps, ring, lost>>
           ELSE CASE Kind(f) = "rw" -> SSL_exit(t, c, data) /\ UNCHANGED lens
                  [] Kind(f) = "ex" -> ExExit(t, c, data)
                  [] Kind(f) = "handshake" -> HandshakeExit(t, c, data) /\ UNCHANGED lens
      /\ UNCHANGED <<program, owner, alive, deaths, shown, denied>>

-----------------------------------------------------------------------------
\* Threads and processes end, inside a call or outside; no probe sees it.

Cut(ts) == [c \in DOMAIN calls |->
  IF calls[c].tid \in ts /\ calls[c].end = "running" THEN [calls[c] EXCEPT !.end = "cut"]
  ELSE calls[c]]

\* A thread ends, and its id goes to a new thread.
Reuse(t, p) ==
  /\ phase # "ended" /\ p \in alive
  /\ deaths < Deaths /\ deaths' = deaths + 1
  /\ stack[t] # << >> \/ owner[t] # p
  /\ owner' = [owner EXCEPT ![t] = p]
  /\ stack' = [stack EXCEPT ![t] = << >>]
  /\ calls' = Cut({t})
  /\ UNCHANGED <<program, alive, maps, ring, shown, lost, denied>>

ProcessEnds(p) ==
  LET ts == {t \in Tids : owner[t] = p} IN
  /\ phase # "ended" /\ p \in alive
  /\ deaths < Deaths /\ deaths' = deaths + 1
  /\ alive' = alive \ {p}
  /\ stack' = [t \in Tids |-> IF t \in ts THEN << >> ELSE stack[t]]
  /\ calls' = Cut(ts)
  /\ UNCHANGED <<program, owner, maps, ring, shown, lost, denied>>

Next ==
  \/ Attach \/ AttachFails \/ StartPolling \/ Poll
  \/ \E t \in Tids : \/ \E f \in ToSet(opts.functions) : Enter(t, f)
                     \/ \E data \in BOOLEAN : Exit(t, data)
                     \/ \E p \in Procs : Reuse(t, p)
  \/ \E p \in Procs : ProcessEnds(p)

Spec == Init /\ [][Next]_vars

-----------------------------------------------------------------------------
Records == shown \cup ToSet(ring)
Reported == {r.call : r \in Records}

\* The shape of the state, and which entries stay: an entry of bufs that no
\* call of its thread stands for is what a call left behind that gave no data,
\* did not fit into the ring or the maps, was cut short, nested, or was
\* entered before its exit probe was attached.
EntriesExplained ==
  /\ \A m \in {bufs, starts, lens} :
       Cardinality({t \in DOMAIN m : m[t] # None}) <= Entries
  /\ \A t \in Tids : bufs[t] # None =>
       LET c == bufs[t] IN
         \/ calls[c].end \in {"running", "none", "cut"} \/ calls[c].nests
         \/ ~calls[c].probed \/ c \in lost \cup denied

\* A record of a call that the filters select carries the buffer and the start of
\* that call, whatever the thread, or another with its id, has left in the maps:
\* nested calls apart, and also while the probes are being attached.  And what is
\* left there is explained.  (With -u the exit probe of the handshake also lets by
\* the process whose id is that user's id, and takes any start it finds.)
OwnBuffer ==
  /\ EntriesExplained
  /\ \A r \in Records : ~calls[r.call].nests /\ Traced(r.pid) =>
       r.start = r.call /\ (~r.handshake => r.buf = r.call)

\* No data are missed: every call of a traced process that moved data while
\* its function was probed is reported, unless it nested other calls, the
\* ring or a map was full, or the printing filters exclude its process.
DataReported ==
  \A c \in DOMAIN calls :
    (/\ calls[c].end = "data" /\ calls[c].probed /\ ~calls[c].nests
     /\ Kind(calls[c].fn) # "handshake" /\ Traced(calls[c].pid)
     /\ Printed([pid |-> calls[c].pid, handshake |-> FALSE]))
    => c \in Reported \cup lost \cup denied

\* "Monitor multiple criteria: sudo ./sslsniff -c "python" -u 1000 -h"
\* (src/bpf/README.md:144): the handshakes of the user's processes are shown.
HandshakesReported ==
  \A c \in DOMAIN calls :
    (/\ calls[c].end = "data" /\ calls[c].probed /\ ~calls[c].nests
     /\ Kind(calls[c].fn) = "handshake" /\ Traced(calls[c].pid)
     /\ Printed([pid |-> calls[c].pid, handshake |-> TRUE]))
    => c \in Reported \cup lost \cup denied

=============================================================================
