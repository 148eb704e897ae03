---------------------------- MODULE BrowserProbe ----------------------------
(***************************************************************************)
(* browsertrace, the probe for Chromium and Firefox                        *)
(* (src/bpf/browsertrace.bpf.c and browsertrace.c).  Firefox sends and     *)
(* receives files, pipes and sockets through the same functions; the probe *)
(* keeps the addresses of the descriptors that SSL_ImportFD made TLS       *)
(* descriptors, in one map for all processes, and stores the buffers of    *)
(* the calls on these.  Chromium's copies of plaintext are reported as     *)
(* they happen.  The program reports the records of processes that run the *)
(* browser, and caches by PID which ones do.                               *)
(*                                                                         *)
(* The maps do not fill up here (10240 entries each), processes have one   *)
(* thread, and left out are the records that -c drops by name and a probe  *)
(* that cannot be attached, with which the others are detached.            *)
(***************************************************************************)
EXTENDS Naturals, Sequences, SequencesExt, FiniteSets, FiniteSetsExt

CONSTANTS
  Procs,      \* PIDs, and the ids of the threads
  Fds,        \* addresses of descriptors, in each of the address spaces
  Options,    \* what is explored: the backend, "nss" or "chromium"; the PIDs that
              \* the uprobes are attached to, and those that trace_allowed lets by;
              \* what each PID runs at first: "target", "other", or "gone"; and
              \* bounds: which of PR_Write, PR_Send, PR_Read and PR_Recv there
              \* are, in the order of attachment; calls, and changes (processes
              \* that end, begin or execute another file)
  RingSize,   \* bound: records
  CacheSize   \* TARGET_PID_CACHE_SIZE

Functions == {"PR_Write", "PR_Send", "PR_Read", "PR_Recv"}

BrowserAssumption ==
  /\ Procs \subseteq Nat \ {0} /\ 0 \notin Fds /\ {RingSize, CacheSize} \subseteq Nat \ {0}
  /\ Options \subseteq [backend : {"nss", "chromium"}, hooked : SUBSET Procs,
                        allowed : SUBSET Procs, exe : [Procs -> {"target", "other", "gone"}],
                        functions : Seq(Functions), calls : Nat, changes : Nat]

VARIABLES
  opts, attached,  \* the options; how many of Programs are attached
  exe, changes,    \* what each process runs; bound on changes
  uses,            \* history: the programs that each PID has run so far
  fds,             \* the descriptors of each process: "none", "plain", or "tls" if
                   \* the probe saw the import
  importing,       \* the descriptor each process is in SSL_ImportFD with, if any,
                   \* and whether the return is probed
  current,         \* the call each process is in, or None
  calls,           \* history: each call's process; whether its descriptor was to be
                   \* known as TLS and the call seen from entry to exit; whether the
                   \* entry probe stored its buffer; whether its return is probed,
                   \* which is decided at the entry; its end
  nss_import_fds, nss_ssl_fds, bufs,  \* the maps; start_ns has the keys of bufs
  ring, sent,      \* the records that wait; history: all of them
  lost,            \* history: calls whose record found no room
  robbed,          \* history: TLS descriptors whose address was removed for the
                   \* sake of another process
  target_pid_cache, shown

program == <<opts, attached>>
system  == <<exe, changes, uses>>
nssMaps == <<nss_import_fds, nss_ssl_fds>>
records == <<ring, sent, lost>>
output  == <<target_pid_cache, shown>>
vars    == <<program, system, fds, importing, current, calls, nssMaps, bufs, records, robbed, output>>

None == 0
NoEntry == [pid |-> None, matched |-> FALSE]
NoImport == [fd |-> None, probed |-> FALSE]

\* attach_nss or attach_chrome_plaintext: an enter and an exit for each function
Programs ==
  IF opts.backend = "nss"
    THEN <<<<"enter", "SSL_ImportFD">>, <<"exit", "SSL_ImportFD">>>>
         \o [i \in 1 .. 2 * Len(opts.functions) |->
               <<IF i % 2 = 1 THEN "enter" ELSE "exit", opts.functions[(i + 1) \div 2]>>]
         \o <<<<"enter", "PR_Close">>>>
    ELSE <<<<"enter", "memcpy">>>>
Fires(prog, p) == p \in opts.hooked /\ \E i \in 1 .. attached : Programs[i] = prog

Init ==
  /\ opts \in Options /\ attached = 0
  /\ exe = opts.exe /\ changes = 0
  /\ uses = [p \in Procs |-> IF exe[p] = "gone" THEN 0 ELSE 1]
  /\ fds = [p \in Procs |-> [fd \in Fds |-> "none"]]
  /\ importing = [p \in Procs |-> NoImport] /\ current = [p \in Procs |-> None]
  /\ calls = << >>
  /\ nss_import_fds = [p \in Procs |-> None] /\ nss_ssl_fds = {}
  /\ bufs = [p \in Procs |-> None]
  /\ ring = << >> /\ sent = {} /\ lost = {} /\ robbed = {}
  /\ target_pid_cache = [i \in 0 .. CacheSize - 1 |-> NoEntry] /\ shown = {}

Attach ==
  /\ attached < Len(Programs) /\ attached' = attached + 1
  /\ UNCHANGED <<opts, system, fds, importing, current, calls, nssMaps, bufs, records, robbed, output>>

-----------------------------------------------------------------------------
\* Descriptors

Idle(p) == exe[p] # "gone" /\ importing[p] = NoImport /\ current[p] = None

Open(p, fd) ==
  /\ Idle(p) /\ opts.backend = "nss" /\ fds[p][fd] = "none"
  /\ fds' = [fds EXCEPT ![p][fd] = "plain"]
  /\ UNCHANGED <<program, system, importing, current, calls, nssMaps, bufs, records, robbed, output>>

\* probe_nss_import_fd_enter
ImportEnter(p, fd) ==
  /\ Idle(p) /\ fds[p][fd] = "plain"
  /\ importing' = [importing EXCEPT ![p] = [fd |-> fd, probed |-> Fires(<<"exit", "SSL_ImportFD">>, p)]]
  /\ nss_import_fds' = IF Fires(<<"enter", "SSL_ImportFD">>, p) THEN [nss_import_fds EXCEPT ![p] = fd]
                       ELSE nss_import_fds
  /\ UNCHANGED <<program, system, fds, current, calls, nss_ssl_fds, bufs, records, robbed, output>>

\* SSL_ImportFD returns its argument, or NULL; but the argument counts all the same.
Imported(p, ret_fd) == {ret_fd, nss_import_fds[p]} \ {None}

\* probe_nss_import_fd_exit
ImportExit(p, ok) ==
  LET fd == importing[p].fd IN
  /\ importing[p] # NoImport
  /\ importing' = [importing EXCEPT ![p] = NoImport]
  /\ IF importing[p].probed
       THEN /\ nss_ssl_fds' = nss_ssl_fds \cup Imported(p, IF ok THEN fd ELSE None)
            /\ nss_import_fds' = [nss_import_fds EXCEPT ![p] = None]
            /\ fds' = IF ok THEN [fds EXCEPT ![p][fd] = "tls"] ELSE fds
            /\ robbed' = robbed \ {<<p, fd>>}
       ELSE UNCHANGED <<nssMaps, fds, robbed>>
  /\ UNCHANGED <<program, system, current, calls, bufs, records, output>>

\* probe_nss_close_enter; another thread may be in a call with the descriptor.
Close(p, fd) ==
  /\ exe[p] # "gone" /\ importing[p] = NoImport /\ fds[p][fd] # "none"
  /\ fds' = [fds EXCEPT ![p][fd] = "none"]
  /\ IF Fires(<<"enter", "PR_Close">>, p)
       THEN /\ nss_ssl_fds' = nss_ssl_fds \ {fd}
            /\ robbed' = (robbed \cup {<<q, fd>> : q \in {q \in Procs : fds[q][fd] = "tls"}})
                         \ {<<p, fd>>}
       ELSE UNCHANGED nss_ssl_fds /\ robbed' = robbed \ {<<p, fd>>}
  /\ UNCHANGED <<program, system, importing, current, calls, nss_import_fds, bufs, records, output>>

-----------------------------------------------------------------------------
\* Calls

\* A uretprobe fires for the calls that are entered once it is attached.
Begin(p, tls, stored, probed) ==
  calls' = Append(calls, [proc |-> p, tls |-> tls, stored |-> stored, probed |-> probed,
                          end |-> "running"])

\* A mutant: an entry that is there is left.
KeptFirst(p, c) == IF bufs[p] = None THEN [bufs EXCEPT ![p] = c] ELSE bufs

Stored(p, c) == [bufs EXCEPT ![p] = c]

\* probe_nss_rw_enter
Enter(p, fd, f) ==
  LET c == Len(calls) + 1
      stores == Fires(<<"enter", f>>, p) /\ fd \in nss_ssl_fds /\ p \in opts.allowed
      probed == Fires(<<"exit", f>>, p)
  IN  /\ c <= opts.calls /\ Idle(p) /\ fds[p][fd] # "none"
      /\ current' = [current EXCEPT ![p] = c]
      /\ Begin(p, /\ fds[p][fd] = "tls" /\ <<p, fd>> \notin robbed /\ p \in opts.allowed
                  /\ Fires(<<"enter", f>>, p) /\ probed, stores, probed)
      /\ bufs' = IF stores THEN Stored(p, c) ELSE bufs
      /\ UNCHANGED <<program, system, fds, importing, nssMaps, records, robbed, output>>

\* bpf_ringbuf_reserve and _submit
Submit(c, r) ==
  IF Len(ring) < RingSize
    THEN ring' = Append(ring, r) /\ sent' = sent \cup {r} /\ UNCHANGED lost
    ELSE lost' = lost \cup {c} /\ UNCHANGED <<ring, sent>>

Forgotten(p) == [bufs EXCEPT ![p] = None]

\* browsertrace_exit, which does not know the descriptor; the early returns leave
\* the entry alone, and so does a ring without room.
Exit(p, data) ==
  LET c == current[p] IN
  /\ c # None
  /\ current' = [current EXCEPT ![p] = None]
  /\ calls' = [calls EXCEPT ![c].end = IF data THEN "data" ELSE "none"]
  /\ IF calls[c].probed /\ p \in opts.allowed /\ bufs[p] # None /\ data
       THEN /\ Submit(c, [pid |-> p, call |-> c, buf |-> bufs[p]])
            /\ bufs' = IF Len(ring) < RingSize THEN Forgotten(p) ELSE bufs
       ELSE UNCHANGED <<bufs, records>>
  /\ UNCHANGED <<program, system, fds, importing, nssMaps, robbed, output>>

\* probe_chrome_plaintext_request_{1,2,3}, probe_chrome_plaintext_response
Copy(p) ==
  LET c == Len(calls) + 1 IN
  /\ c <= opts.calls /\ Idle(p) /\ Fires(<<"enter", "memcpy">>, p)
  /\ calls' = Append(calls, [proc |-> p, tls |-> p \in opts.allowed, stored |-> FALSE,
                             probed |-> FALSE, end |-> "data"])
  /\ IF p \in opts.allowed
       THEN Submit(c, [pid |-> p, call |-> c, buf |-> c])
       ELSE UNCHANGED records
  /\ UNCHANGED <<program, system, fds, importing, current, nssMaps, bufs, robbed, output>>

-----------------------------------------------------------------------------
\* target_pid_cache: slots are probed from the PID's own on.

Slot(p, i) == (p + i) % CacheSize

\* Where the search for p ends: at its entry, at a free one, or nowhere.
Places(p) == {i \in 0 .. CacheSize - 1 : target_pid_cache[Slot(p, i)].pid \in {None, p}}
Place(p) == Slot(p, IF Places(p) = {} THEN 0 ELSE Min(Places(p)))

\* A mutant: the own slot is taken for the PID's entry.
CachedInSlot(p) == target_pid_cache[Slot(p, 0)].pid # None

\* lookup_target_pid_cache
Cached(p) == target_pid_cache[Place(p)].pid = p

\* target_process_matches reads /proc/<pid>/exe of whoever has the PID by now.
Matches(p) == IF Cached(p) THEN target_pid_cache[Place(p)].matched ELSE exe[p] = "target"

\* handle_event: target_process_matches, store_target_pid_cache, print_event
Handle ==
  /\ attached = Len(Programs) /\ ring # << >>
  /\ LET r == Head(ring) IN
       /\ shown' = IF Matches(r.pid) THEN shown \cup {r} ELSE shown
       /\ target_pid_cache' = IF Cached(r.pid) THEN target_pid_cache
            ELSE [target_pid_cache EXCEPT ![Place(r.pid)] =
                    [pid |-> r.pid, matched |-> Matches(r.pid)]]
  /\ ring' = Tail(ring)
  /\ UNCHANGED <<program, system, fds, importing, current, calls, nssMaps, bufs, sent, lost, robbed>>

-----------------------------------------------------------------------------
\* A process ends, its PID is used again, or it executes another file; its
\* descriptors are closed, and no probe sees that.
Change(p, file) ==
  /\ changes < opts.changes /\ changes' = changes + 1
  /\ file # exe[p] /\ exe' = [exe EXCEPT ![p] = file]
  /\ uses' = IF file = "gone" THEN uses ELSE [uses EXCEPT ![p] = @ + 1]
  /\ fds' = [fds EXCEPT ![p] = [fd \in Fds |-> "none"]]
  /\ importing' = [importing EXCEPT ![p] = NoImport] /\ current' = [current EXCEPT ![p] = None]
  /\ robbed' = {r \in robbed : r[1] # p}
  /\ UNCHANGED <<program, calls, nssMaps, bufs, records, output>>

Next ==
  \/ Attach \/ Handle
  \/ \E p \in Procs :
       \/ \E fd \in Fds : Open(p, fd) \/ ImportEnter(p, fd) \/ Close(p, fd)
       \/ \E fd \in Fds : \E f \in ToSet(opts.functions) : Enter(p, fd, f)
       \/ \E ok \in BOOLEAN : ImportExit(p, ok) \/ Exit(p, ok)
       \/ Copy(p)
       \/ \E file \in {"target", "other", "gone"} : Change(p, file)

Spec == Init /\ [][Next]_vars

-----------------------------------------------------------------------------
TypeOK ==
  /\ Len(ring) <= RingSize /\ ToSet(ring) \subseteq sent /\ shown \subseteq sent
  /\ nss_ssl_fds \subseteq Fds
  /\ \A i, j \in 0 .. CacheSize - 1 :
       target_pid_cache[i].pid = target_pid_cache[j].pid /\ target_pid_cache[i] # NoEntry
       => i = j

\* What a call can leave in bufs: it moved nothing, found the ring full, ended with
\* its program, or was entered before its exit was attached.
LeftBehind(c) ==
  calls[c].stored /\ (calls[c].end = "data" /\ calls[c].probed => c \in lost)

\* What a TLS descriptor carries is reported, with its own buffer: each call that
\* moved data on one the probe saw imported, entered with both its probes
\* attached, unless the ring was full, or another process closed a descriptor at
\* the same address.  A record has the buffer of a call of its own PID, and no
\* buffer is in two records.  A call whose entry stored its buffer is reported
\* with that one, whatever was there before.  A call whose entry did not (its
\* descriptor is not in the map) reports at most what such a call has left behind.
\* This does not keep plain files out: the map is by address, so that the buffer of
\* a call on a plain descriptor is stored, and its contents are reported, if any
\* process has imported one there.
TlsCallsReported ==
  /\ TypeOK
  /\ \A c \in DOMAIN calls : calls[c].tls /\ calls[c].end = "data" =>
       c \in lost \/ \E r \in sent : r.call = c /\ r.buf = c
  /\ \A r \in sent :
       /\ calls[r.buf].proc = r.pid /\ (r.buf # r.call => LeftBehind(r.buf))
       /\ calls[r.call].stored => r.buf = r.call
       /\ \A s \in sent : s.buf = r.buf => s = r

\* A record of a living process is shown exactly if it runs the browser,
\* however many PIDs have gone through the cache: as long as its PID has had
\* this one program only.
VerdictExact ==
  [][Len(ring') < Len(ring) =>
       LET r == Head(ring) IN
         exe[r.pid] # "gone" /\ uses[r.pid] = 1 => (r \in shown') = (exe[r.pid] = "target")]_vars
=============================================================================
