# AgentSight: formal models

AgentSight observes AI agents from outside. eBPF probes watch processes, files,
TLS calls and stdio; userspace tracers turn their records into JSON lines; a
Rust collector starts the tracers, merges and decodes their output, and keeps
what it learns in a materialized view that is shown, served and stored. This
directory holds TLA+ models of that pipeline, TLC configurations that check
them on small instances, and TLAPS proofs of what must hold for every instance.

Paths below are relative to the repository's root; `process.c` is
`src/bpf/process.c`, `cmd_exec.rs` is `src/collector/src/cmd_exec.rs`, and so on.

    tlc -workers 2 -config PidTracker_calls.cfg PidTracker
    tlapm PidTrackerProofs.tla

`PROJECT.json` lists the runs with their properties, the source lines of each
definition (`map`), the hazards the properties are for, and for every property
a mutant of the model that breaks it.


## 1. The system

    traced machine          tracers (C)                 collector (Rust)
    --------------          -----------                 ----------------
    execs, exits,  probes   process: ring buffer ->     BinaryExecutor: one child
    opens, writes  ------>  PID table, dedup, agg map   process per tracer, its
                                                        stdout read as JSON lines
    SSL_read/write ------>  sslsniff                         |
    read/write     ------>  stdiocap                    analyzers: SSL filter, SSE,
                                                        HTTP parser and filter
                                                             |
                                                        AgentRunner: merged stream
                                                             |
                                                        MaterializedView -> sinks
                                                             |
                                                        web server, TUI, reports

### Components, their state and their operations

| Component | State | Operations | Interacts with |
|---|---|---|---|
| PID tracker, `process_filter.h` | table of 4096 entries, open addressing | add, remove, find, is_tracked, foreach | process tracer, which is its only caller |
| Process probes, `process.bpf.c` | maps `exec_start`, `exit_mem`, ring buffer | exec, exit, open, readline | read `tracked_pids`, written by the tracer; send it records |
| Process tracer, `process.c` | PID tracker, `file_hashes`, `pid_limits` | `handle_event`, the main loop | probes through ring and maps; collector through stdout |
| Aggregation map, `process_ext/` | `event_agg_map`, `agg_overflow_count` | `update_agg_map` in probes; flush and check in the tracer | shared without a lock by all CPUs and the main thread |
| Cgroup filter, `process_ext/userspace.h` | target id, map of cgroup ids | rebuilt every two seconds | consulted by every counting probe |
| Counting probes, `process_ext/bpf_*.h` | `write_ctx_map` by thread | probes of one event; enter and exit of writes | filters of cgroups and PIDs before them, aggregation map behind |
| TLS probe, `sslsniff*` | `bufs`, `start_ns`, `readbytes_ptrs` by thread | enter and exit probes of read, write, handshake; attachment | collector |
| Stdio probe, `stdiocap*` | `io_args` by thread, `tracked_pids` | enter and exit of read and write; scans of `/proc` | collector |
| Browser probe, `browsertrace*` | `nss_import_fds`, `nss_ssl_fds`, `bufs`; `target_pid_cache` | uprobes on NSS or Chromium; printing | user |
| Recorder, `cmd_exec.rs`, `cmd_trace.rs`, `runners/` | the target, the probes' processes, the merged stream | start, select loop, drain, stop | signal task through `Notify`, child processes |
| SSE processor, `sse_processor.rs` | accumulators by connection | chunk, timeout, eviction, completion | HTTP parser |
| HTTP parser, `http_parser.rs` | HTTP/2 streams and pending headers by (thread, stream id), two HPACK decoders | frame, header block | view |
| Filters, `ssl_filter.rs`, `http_filter.rs` | counters; an expression | evaluate | stream |
| LLM call pairing, `view/projection.rs` | pending requests by (pid, tid), call rows, usage rows | request, response, prune | view store, sinks |
| View store, `view/mod.rs` | rows by table, bounded audit rows | upsert, insert, totals | sinks, readers |
| Sinks and saved sessions, `sinks/`, `sources/sqlite.rs` | SQLite tables | publish, reload | view |
| Monitor, `cmd_monitor.rs` | `monitor.pid`, database of the week, systemd unit | start, sample, stop, install, find | `top`, other monitors, systemd, signals |
| Live top, perf and TUI, `view/live_top.rs`, `cmd_perf*.rs` | selected processes | refresh, select | view, `/proc` |
| Web server, `server/web.rs` | none | serve snapshots | view |
| agent-session, agentpprof | none: functions of files | parse, match, aggregate | saved sessions |

### What is hard in it

* Probes run on every CPU while one thread drains the ring: a record is
  reserved, filled and submitted in steps; records are consumed in reservation
  order; the ring drops records when full; PIDs are reused.
* Two copies of the tracked PIDs (userspace table, BPF map) must agree.
* The aggregation map is changed by probes and deleted from by the main thread,
  and BPF hash maps hand out pointers to elements that may be reused.
* Timestamps are taken after the ring position, so they may run backwards.
* The recorder waits for output, the end of the target and signals at once, with
  timers, partly started children, and children that only root can kill.
* Probes that report a call find what its entry left by the thread's id; calls
  nest, fail, are cut short, and their probes are attached one by one.
* Filters are consulted while they are rebuilt: sessions by scanning `/proc`,
  cgroups by walking a tree that changes.
* The monitor's only lock is a file, which is read, judged, removed and written
  in separate steps and survives crashes and reboots, while PIDs are reused.
* Responses are paired with requests from outside: messages are lost, requests
  expire or are evicted, ids are missing, sinks fail in the middle of an event.

### What makes each part correct

* PID tracker: it answers exactly for the PIDs added and not removed.
* Process tracer: it tracks the processes it was asked for and their
  descendants, no others, forgets every process that exits, and reports what
  its options select.
* Aggregation map: every operation is reported exactly once, or at least never
  more than once.
* File-open deduplication: every open is accounted for, and is suppressed
  exactly when its window says so.
* Recorder: it ends when its target, its probes or the user say so, and leaves
  neither target nor probes behind.
* LLM pairing: a call gets the response to its own request, usage is counted
  once, completed rows are final.
* SSE processor: what a thread reads of one message is merged, in order, once.
* HTTP/2 streams: every side of a stream becomes one message with its own
  headers and its own body.
* TLS, stdio, write and browser probes: what is reported of a call is its own,
  and nothing that the options select is missed.
* Cgroup filter: between two refreshes it is the subtree, and the target is never
  missing from it.
* Monitor: one runs, `top` finds it, and it stops when asked and comes back when not.
* View store (not modelled): totals equal the sum of the rows; a reloaded session
  gives the view that was live.


## 2. Modules

| Module | Models | Composes |
|---|---|---|
| `PidSet` | what the PID tracker promises: a set | |
| `PidTable` | the functions of `process_filter.h` on the table | |
| `PidTracker` | every sequence of calls of the tracker; refinement of `PidSet` | `PidTable`, `PidSet` |
| `PidTableProofs` | lemmas about the calls on the table | `PidTable`, TLAPS |
| `PidTrackerProofs` | theorems about `PidTracker` | `PidTracker`, `PidTableProofs` |
| `ProcessTracer`, `MCProcessTracer` | processes, probes, ring, `handle_event`, maps | `PidTable` |
| `ProcessTracerProofs` | theorems about `ProcessTracer` | `ProcessTracer`, `PidTableProofs` |
| `AggMap` | probes and main thread on the aggregation map | |
| `FileOpenDedup` | `should_rate_limit_file`, `get_file_open_count`, `flush_pid_file_opens` | |
| `CgroupFilter` | `populate_cgroup_filter_map`, `is_cgroup_tracked` | |
| `WriteProbe` | the counting probes behind the filters, `write_ctx_map` | `CgroupFilter` |
| `TlsProbe` | `sslsniff`: attachment, enter and exit probes, printing | |
| `StdioProbe` | `stdiocap`: tracepoints, scans of `/proc`, adoption of descendants | |
| `BrowserProbe` | `browsertrace`: NSS descriptors, Chromium's copies, verdicts on PIDs | |
| `RecordLifecycle` | `run_exec`, `run_trace`, streams, guards, signal task | |
| `RecordLifecycleProofs` | theorems about `RecordLifecycle` | `RecordLifecycle`, TLAPS |
| `SseProcessor` | chunks of streamed answers, accumulators, merged events | |
| `Http2Streams` | `HTTP2State`: streams, header blocks, decoders, messages | |
| `LlmPairing` | requests, responses, pruning, failing sinks | |
| `MonitorService` | `run_monitor`, `active_monitor`, the pid file, systemd | |
| `Counting`, `MCCounting` | what the tracer counts instead of reporting it | `WriteProbe`, `AggMap`, `FileOpenDedup` |
| `CountingProofs` | theorems about these three and `CgroupFilter` | `Counting`, TLAPS |
| `Probes`, `MCProbes` | the probes with an entry and an exit | `TlsProbe`, `StdioProbe`, `BrowserProbe` |
| `ProbesProofs` | theorems about these three | `Probes`, TLAPS |
| `Collector`, `MCCollector` | the collector's other state | `LlmPairing`, `MonitorService` |
| `CollectorProofs` | theorems about these two | `Collector`, TLAPS |
| `Reassembly`, `MCReassembly` | the analyzers that put messages together | `SseProcessor`, `Http2Streams` |
| `ReassemblyProofs` | theorems about these two | `Reassembly`, TLAPS |
| `MCLive` | what must eventually happen | `ProcessTracer`, `StdioProbe`, `MonitorService` |

`Counting`, `Probes`, `Collector` and `Reassembly` each hold components that share no
state in the code, so that interleaving them would show nothing: a variable `part` says
of which one a behaviour is, and the others rest in an initial state. The first
component's module is extended and the others are instances with constants and variables
of their own, so that one run checks and one module proves things about all of them; a
theorem about an instance is one about every choice of its constants. The modules
whose names begin with `MC` are for TLC and only give constants their values, with the
exception of `MCLive`, which composes as well. Where components do share state, a module
models them together: `WriteProbe` extends `CgroupFilter`, `ProcessTracer` uses
`PidTable`.

Definitions whose comment begins with "A mutant" are not part of any
specification. Each is the definition that follows it with a plausible bug
in it, and shows that the property named in `PROJECT.json` notices that bug.

### PidTable, PidTracker, PidSet

A table is a function from slots to PIDs or `Free`. The C code never reads the
PID of an inactive entry, so `Free` stands for all of them. `FoundAt(t, p, i)` and
`FreeAt(t, p, i)` say at which step a probing loop returns; `Find`, `Add`, `Remove`
are the three functions of the header. Removal clears one slot and moves
nothing, which is what breaks the probe chains of colliding PIDs. `PidTracker`
makes a state machine of them: `inPlay`, chosen at the start, is the PIDs that
occur; `promised`, a history, those added with success and not removed since;
`removed` remembers whether anything was removed. The table is `Reliable` while
no two PIDs in play share a home slot or nothing has been removed.

`PidSet` is the abstract specification: a set that adding puts a PID in, or fails
for want of room, and that removing takes it out of. Its variable `reliable` says
how much of this can be relied on; when it is false, a removal may hide other
members, and an add may bring them back. `ImplementsSet` maps `members` to the PIDs
`pid_tracker_is_tracked` answers for and `reliable` to `Reliable`, and holds without
any hypothesis.

### ProcessTracer

State on the kernel's side: for each PID whether there is a process, running,
without its leader thread, or dying; parents, names, session; the maps
`exec_start`, `exit_mem`, `tracked_pids`; the ring. State on the tracer's side: the
PID table and the PIDs that have file-open aggregates. Actions:

* `Fork`, `LastThreadExit` and `Reap` are the kernel's; no probe is attached there.
* `Exec` and `Exit` are `handle_exec` and `handle_exit` up to `bpf_ringbuf_reserve`,
  `Submit` is the rest; parent and `exit_mem` are handled there, as in the code.
  `Open` is one step because nothing it reads belongs to another process.
* `Poll` is `handle_event` of the oldest record, if that has been submitted: EXEC
  (`should_track_event_process`, add to table and map), EXIT (report decision
  before the removal, flush of aggregates, deletion of the `exit_mem` entry)
  and OPEN.

* `ExecOutside` and `ExitOutside` are an exec and an exit that `is_cgroup_tracked` drops:
  neither record nor change of a map. With `--cgroup-filter` this may happen to any
  process at any time, because processes move between cgroups and the map of
  the subtree is emptied and filled again while it is refreshed (`CgroupFilter`).

`Exit` fires for the leader thread only, as `handle_exit` returns when
`pid != tid`. A full ring loses the record; `unseen` remembers whose EXIT was lost that
way or dropped by the cgroup filter.
Names and sessions are abstracted to "the filter matches" because the decision
is all the tracer derives from them. `bash_readline` changes no state and is left
out. The aggregates appear here only as "this PID has some"; what they hold is
`FileOpenDedup`'s subject.

The seeds are in the table from the start, wherever adding them in some order has put
them (`SeededTables`); those that died before the probes were attached count as `unseen`.
`SelectedIsReported` and `NoStaleTracking` are about PIDs that do not collide
(`NoCollisions`, for what a collision does is `PidTracker`'s subject) and, as the handler
drops what lives shorter than `-d`, about tracers without it; `SelectedIsReported` also
leaves `--session` out, of which see section 5.

### AggMap

Elements are separate from keys: `index` says which element a key has, `content`
what an element holds, and a CPU between lookup and addition holds an element,
not a key. So an addition may go to an element that has been deleted, or that
another key has taken since, which is what a preallocated BPF hash map allows.
`NextKey` is `bpf_map_get_next_key`: it returns the first key when the given one
is gone, so a flush that deletes the key it stands on starts over.
`check_overflow` reads and resets the counters in two steps.
The map enumerates keys in an order the model fixes (keys are numbers);
`flush_pid_from_agg_map` first collects up to 256 (`DelCap`) keys and then deletes
those. The probes that compute the keys are `WriteProbe`'s subject.

### FileOpenDedup

One step per record. `Open` calls `should_rate_limit_file` (`Limit`) and, if the open
passes, `get_file_open_count` (`Aggregate`); `Exit` is what an EXIT that is reported
does. Both tables are sequences, because the loops that remove entries move
the last one into the gap and look at that place again: `Look` is the body of such a
loop and `Sweep` the loop, a recursive function of the number of iterations, so that
theorems can be proved about it. Timestamps are unsigned and subtracted modulo `Wide`. What is printed is abstracted to how often
a hash has been printed as a first open and how many later opens aggregate
lines have added.

### CgroupFilter, WriteProbe

A cgroup's id is its path and how often it was created, for a cgroup that is removed
and created again has a new inode. `target` is the id compiled into the probes at the
start. A refresh is the steps of `populate_cgroup_filter_map`: `Clear` deletes one key
at a time, `AddRoot` adds the root as it is named now, and `Visit` and `CloseDir` walk
the tree depth first, with `walk` the directories that are open. `Mkdir` and `Rmdir` come
between any two of them; what `readdir` returns of a directory that changes while
it is open is open, too, except that it returns what was there all the time.
`through` and `during` remember what lived since before, and at some time since,
the last refresh began.

`WriteProbe` adds processes in these cgroups. `EventTracked` is `is_event_tracked`, asked
at the entry and again at the exit of a write (`Enter`, `Exit`) and once by the probes
of one event (`Act`, which counts nothing of a path that it cannot read). Between the two, `Move` puts the process in another cgroup, `Track`
adds or removes its PID, and `Refresh` empties the map. What a failed write leaves in
`write_ctx_map` stays there. Call numbers stand for descriptors.

### TlsProbe

`calls` lists every call with how it ended, and a call's number stands for its buffer,
start and length, so that "the call's own" is an equality. `stack` has the calls a
thread is in: a BIO that is a TLS connection, or a read that performs the handshake,
nest. `Enter` is the call with its enter probe, `Exit` its return with the exit probe:
`SSL_exit`, `ExExit` and `HandshakeExit` keep the early returns of the code, each of
which leaves other entries behind. `Attach` attaches one uprobe after the other, enter
before exit, while threads run; a symbol that is missing ends the program for
`--binary-path` and the library's attachment otherwise. A uretprobe fires only for calls
entered after it was attached (`probed`). `Reuse` and `ProcessEnds` cut calls short.
The maps may be full, which nobody notices. `Printed` is what `handle_event` filters.
The exit probe of the handshake compares a process id with the user id, so that with `-u`
it lets by a process whose id happens to be that number, and takes whatever start is left
for the thread; `OwnBuffer` is about records of the processes the options select, and
one option of the run has a process and a user with each other's number.

### StdioProbe

One thread per process. `Attach` attaches the four tracepoints in the order of the
skeleton; with `--session` the main loop alternates between a scan of `/proc`, one PID
per step (`Visit`), and `ring_buffer__poll` (`Handle`, `EndPoll`). Enter probes adopt a
process that has a tracked ancestor within `Levels` (8 in the code); the exit probe
deletes the thread's arguments on every path. `ProcessChanges` is fork, exit, `setsid`
and reuse of a PID. `kin` and `seen` remember which PIDs have belonged to the session's
processes or their descendants and which the scan has met.

### BrowserProbe

Firefox's NSS: `ImportEnter` and `ImportExit` are the probes of `SSL_ImportFD`, `Close`
that of `PR_Close`, `Enter` and `Exit` those of the calls that carry data. A descriptor
is an address, and the map of those that are TLS is one for all processes. `fds` is
what the descriptor really is. `Programs` lists the uprobes in the order of
`attach_nss`, an enter and an exit for `SSL_ImportFD` and for each of the four
functions; `Attach` attaches one after the other while processes run, and the exit probe
fires only for calls, and imports, entered after it was attached (`probed`). What a call can
leave in `bufs` is `LeftBehind`. Chromium's probes report copies as they happen
(`Copy`). `Handle` is `handle_event` with `target_process_matches`, whose cache of
verdicts has slots by PID modulo its size with linear probing and eviction of the
first slot.

### RecordLifecycle

`pc` is where the main task is; `probe` is each tracer's process; `stream` the
recorder's end of its pipe: `unpolled` until the merged stream is first polled,
because only then `get_json_stream`'s generator creates the guard that kills the
process group. `woken` is the notification as seen by the futures that exist:
`notify_waiters` stores nothing, and each iteration of the select makes a new
future. `TakeLine` ends an iteration, so the notification that arrived during it is
lost. `Signal` happens once: the task that handles it ends. `run_trace` is the
instance with `HasTarget = FALSE`. The target's shell stops itself before it
executes the command, and the recorder continues it 250 ms after the probes have
started; if the shell is slower than that (`late`), it stops afterwards. Under `sudo` a probe
is killed by `sudo -n kill`, whose status is ignored: it is refused when the user's
password has been forgotten meanwhile (`Refusals`), and waiting for a target or killing it
may fail; `refused` remembers whom the recorder tried to end and could not. Preparing (seeds, building runners, web server) is one step that may
fail; parsing of lines is left out, and so is an error of `child.wait()` in the select,
which the code handles as the target's exit.

### LlmPairing

An exchange is a request and its response on a stream (pid, tid). `pending` holds
what waits, `calls` and `usage` are the rows by id; a row's value is the exchange
whose response wrote it, so "the right response" is `calls[Call(n)] = n`. `Response` is one
event for each exchange, `classified` as LLM traffic (with token usage or without, and then a
row of its own if no request waits) or a plain HTTP response. `Match`
is `take_matching_request`; `Pruned` removes expired requests from the front of the
queue only; `Stored` evicts the oldest. `outcome` says at which of the sink calls of
an event an error ends its ingestion: `MaterializingAnalyzer` logs it and goes
on. Times of events may be older than those before them, because the streams of
several probes are merged. The repository's own code pairs; who sends which
id, and whether a message is seen at all, is environment (`Lose`, `Tick`, `scheme`).
`Distinguishable` says for which traffic a response can be told to be that of a request:
when the clients name their requests, or when each stream has one request at a time and no
sink fails. The last part matters: a request whose row a sink rejects does not wait, and
its response, which has no name, goes to an earlier request whose response was lost.

### SseProcessor

A chunk is what one `SSL_read` returned, or one body from the HTTP parser. `messages`
says what the servers stream and how much of it has been sent; `Chunk` takes the
next events of a message and hands them to `Process`, which is one step because
the stream's `filter_map` finishes a chunk before it takes the next. `buffers` are
the accumulators by connection id, with the events themselves, so that a merged
event can be compared with the message it came from. `Fresh`, `Kept` and `Targets`
are, in the order of the code, the timeout, the eviction and the choice of the
accumulator; where the code takes whatever the hash map enumerates first, they are
nondeterministic. Events are abstracted to `Kinds`: what completes a message, what
makes it meaningful, what names it. The code divides timestamps by 600e9 for the id
of a chunk without a message id, but they are milliseconds by then
(`TimestampNormalizer` runs first, `cmd_trace.rs:108`), so this `Window` never changes.
An event cut in two by a chunk boundary is outside the model: the parser keeps
no rest, which amounts to losing the event.

`Whole` is about traffic that is orderly: each thread reads one message at a time, nothing
is lost, and the messages are `Regular`, as those of the servers are that the code knows:
an id comes in front or not at all, nothing but the end follows the first event
that completes the message, and the last event is one that completes it and that no chunk
is skipped for. Other messages are in the run's crowded and messy traffic, and in the
other three properties.

### Http2Streams

A record of the TLS probe is one frame: HEADERS, CONTINUATION or DATA. `traffic` says
what each connection carries in which order and on which threads it may run; `Receive`
is `handle_event` of its next frame on one of these, and `Lose` drops one. Streams
and pending header blocks are keyed by (thread, stream id), as in the code, which does
not know connections. A header's value enters its decoder's table or refers to it by
index, so that a reference means what its sender meant only while the two tables
agree. `Finish` is the end of the loop's body: emission of a side that has ended, at
most once per state, and removal of a state both of whose sides are out. `Evictions` is
`evict_over_capacity`, which takes whatever keys the hash map enumerates first.

### MonitorService

`inst` has the programs started so far: monitors of the service, monitors of the user
and `top --plain`, each with its place in the code. `Read`, `Verify` and `RemoveStale`
are `active_monitor`, `OpenStore`, `Truncate` and `WritePid` the rest of the start (`fs::write`
empties a file before it writes it, so it may be found `partial`), `Work` and `Wait` the loop with
`SHUTDOWN_REQUESTED` and `select!`, `Guard` and `Unlink` the pid file's `Drop`, which
removes the file if it still holds the monitor's own PID. `Fails` is an error that
`?` returns, `Crash` a kill, `Reboot` both to all; after them PIDs go to anyone (`Reuse`).
`service` is systemd's view, from the unit the program writes: `Restart=on-failure`,
so that an exit with 0 is final. `FreshPids` names one PID of those nobody has used or
named yet, since they are interchangeable.


## 3. Runs

All runs allow deadlock except those of `PidTracker`: everything else has bounds
on what the environment does, or an end.

| Run | Checks | Shows |
|---|---|---|
| `pid_calls` | `PromisedStored`, `Exact`, `RemovedIsNotFound`, `ImplementsSet` | every set of up to six PIDs on four slots: full tables, wrapped chains, duplicates of a PID; no call destroys another PID's entry, a removed PID is gone, and the table is the set it stands for |
| `pid_found` | `AddedIsFound` violated | see findings |
| `tracer_safety` | `NoStaleTracking`, `SelectedIsReported`, `NothingIsLeft` | FILTER mode with and without `--session`, PROC and ALL mode; FILTER and ALL mode with a cgroup filter that drops any exec or exit; a seed, PID reuse, lost records, leaders that exit early |
| `tracer_duration` | `LongLivedIsReported` violated | see findings |
| `counting` | `RefreshExact`, `OwnDescriptor`, `SelectedAreCounted`; `NeverOverReported`, `ExactWithoutOverlap`, `FlushIsComplete`; `Accounted`, `WindowDecides` | cgroups that change while the map of them is rebuilt, writes that fail or change their cgroup; two CPUs against the main thread on a map that overflows; opens with a hash collision, a full table, timestamps out of order, seconds and windows that end |
| `probes` | `OwnBuffer`, `DataReported`; `OwnArguments`, `KinReported`; `TlsCallsReported`, `VerdictExact` | what each probe reports is the call's own, and nothing selected is missed: through nested and failed calls, early deaths, partial attachment, full maps, changing sessions, addresses that two processes share |
| `tls_handshakes` | `HandshakesReported` violated | see findings |
| `record_exec` | `TargetStopped`, `ProbesStopped`, `StopsWithTarget`, `TargetRuns` | three probes under sudo, signals, failing starts, failing probes, endless output, a shell slower than the recorder, probes that `sudo` refuses to kill |
| `record_shutdown` | `ShutdownIsObeyed` violated | see findings |
| `reassembly` | `Accounted`, `ThreadsApart`, `Whole`, `JoinsFresh`; `OwnBody`, `OwnHeaders`, `EndedIsEmitted` | streamed answers cut into chunks in every way, one at a time, crowded, mixed, with losses, errors and expiry; HTTP/2 connections with continued headers, trailers, references into the header table, early JSON, more body than there is room for, shared threads, losses and evictions |
| `collector` | `OwnResponse`, `UsageCountedOnce`, `CompleteIsFinal`; `NamedInFile` | named requests pipelined, nameless ones one at a time, and everything at once, while sinks fail, responses are lost, requests expire and are evicted; monitors that race with each other and with `top`, crash, fail, are rebooted and installed again |
| `live` | `EventuallyForgottenByTracer`, `EventuallyTracked`, `StopsOnSignal`, `ServiceReturns` | exited processes are forgotten; whoever stays in a session is found; a monitor that is signalled ends, and a service comes back after failures, crashes and reboots |

Several properties have a part that says what the state looks like, because the
rest would mean little without it: `NothingIsLeft` of `ProcessTracer` is the conjunction
of its type invariant with `MapAgreement`, `HeldAreTracked` and `ExitMemDrains`;
`Accounted` of `FileOpenDedup` includes that a warning is due exactly for opens that
were dropped, `UsageCountedOnce` that usage has its call, `Whole` that nothing is merged
twice, `KinReported` that nobody else is reported. The type invariants of `PidTracker`
and `RecordLifecycle` are proved, which says more than a run.

A program's options are chosen in `Init` and kept in a variable that no step
changes (`opts` of `ProcessTracer`, `inPlay` of `PidTracker`, `traffic` of `LlmPairing`
and `SseProcessor`), so that one run explores
several of them. A property that a mode does not promise says so in its
hypothesis, and the comment above it says why.

### Bounds, and why they are enough

* PID tables of 4 to 7 slots instead of 4096, and with four slots every subset of
  six PIDs: a chain can wrap, the table can fill, and PIDs share a home or do not.
  The proofs need no bound.
* Process tracer: three PIDs, and three forks, execs and opens in FILTER mode without a
  session and in PROC mode, two in the others, those with a cgroup filter included. A PID is
  reused within these bounds, with its former parent's EXIT still in a ring of
  two records; one EXIT can be lost. Three PIDs are needed in FILTER
  mode, for a process, its parent and a stranger that reuses a PID. The run about
  liveness has two PIDs: a process and its child.
* Aggregation map: three keys of two PIDs on two elements, so that an insertion
  can find the map full and an element can change its key; four operations on
  two CPUs and three flushes or checks.
* File opens: two processes, two paths and three hashes for them, a table of two
  entries, a window of one tick and a second of two ticks within three ticks,
  so that entries live, expire and cross seconds; a limit of two opens a second
  and five opens; a timestamp may be one tick late; `pid_limits` has one entry,
  so the second PID finds it full.
* Recorder: three probes, because a start can fail after one or two; one line in
  the pipe, because a longer pipe only repeats the same step.
* Pairing: `MCTraffics` bounds the exchanges of each kind of traffic to three or four; queues of two
  and expiry after one of two ticks: eviction, expiry, reordering and loss all
  occur within them.
* Merging: `MCTraffics` again bounds the messages, two or three; one accumulator may
  stay (`MaxBuffers`), so a third thread evicts one; a tick is more than the timeout
  of zero, so an accumulator expires or joins on either side of it. Messages have
  up to four events and are cut into chunks in every way.
* TLS probe: two threads of two processes, nested two deep, one
  death or reuse of an id; maps with one entry and a ring of one record, so each fills.
  Three calls of one function: one that leaves something, one that finds it, and one
  inside; two calls where two functions are probed, one that leaves something and one that
  finds it. The proofs bound none of these.
* Stdio probe: three PIDs, two levels of ancestors instead of eight, room for two
  in each map, and four forks, exits, joins or calls: a grandchild, an orphan and
  a reused PID all occur.
* Writes: a target with a child, a grandchild to be created and a sibling; a map of
  three; two changes of the tree, two moves, two calls; `write_ctx_map` with one entry,
  so that the second process finds it full.
* Browser probe: three PIDs on a cache of two verdicts; one address, which two
  processes share; `PR_Write` and `PR_Read`, so that one function is attached before
  another; two to four calls.
* HTTP/2: two connections of up to nine frames (`MCHttp2`), two streams or pending
  blocks may stay, so that a third evicts; bodies of two records; one loss.
* Monitor: three programs at most (`MaxInst`), so that two race while a third comes
  later; up to two faults or by-hand starts (`MCBudgets`). Of the PIDs, two are the
  monitors' and one is that of a process which is no monitor. For liveness, two.
* 64-bit arithmetic is modulo 64 (`Wide`); what matters is that a difference wraps.

### Fairness

* `ProcessTracer!FairSpec`: `WF(Poll)`, for the tracer's main loop polls until it is
  told to stop, and `WF(Submit(i))`, for a BPF program that has reserved a record
  runs to its end. Nothing makes a process exit or exec.
* `RecordLifecycle!FairSpec`: `WF(Main)`, the tokio runtime polls the main task;
  `SF(TargetGone)` and `SF(DrainDeadline)`, because `select!` starts with a random
  branch and timers fire, so endless output cannot hide either for ever. Nothing makes a
  target or a probe exit, or the target's shell stop itself.
* `StdioProbe!Fairness`: weak fairness of the main loop's steps, scans and polls, which
  it takes for ever; `ring_buffer__poll` has a timeout. Nothing makes a process act.
* `MonitorService!Fairness`: `WF(Step(i))`, a program goes on, and sleeping ends after
  the interval of the samples; `WF(StartService)`, the timer of `RestartSec`. Nothing
  makes anyone start, signal or crash a monitor.

`MCLive` states each liveness property under the fairness of its own program only.
Each condition is about the scheduler, the kernel or a timer; none assumes that the agent,
the network or the user does something.


## 4. Proofs

Each theorem holds for every value of the constants that satisfies the assumption of its
module; the assumptions only say of what kind a constant is. No proof depends on
a bound: calls, messages, events and the sizes of maps, rings and queues are any number.

`PidTableProofs` has the lemmas about one call on the table. "The first slot such that" in
the probing loops is a least element; it exists by well-foundedness of the naturals
(`LeastExists`), cited rather than proved by induction. `AddEffect` and `RemoveEffect`
reduce the loops to "one slot changes, from inactive to the PID, or back"; `HomeAdd` and
`HomeRemove` say that without collisions the table is the set it stands for.

`PidTrackerProofs`:

* `TypeCorrect`: `Spec => []TypeOK`.
* `PromisesAreStored`: no promised PID's entry is ever destroyed. It is inductive
  together with `TypeOK`.
* `RemovedIsGone`: after a removal the probe does not find the PID, even if the
  table holds it twice. The removal clears the first entry the probe meets; what
  remains lies behind the new gap (`RemovedIsUnreachable`).
* `ExactWhileReliable`: while the table is reliable it answers exactly for the
  promised PIDs. `Exact` alone is not inductive: a probe may meet a gap, or a PID
  may be stored twice. `ReliableInv` strengthens it by cases. Without collisions,
  every stored PID is in its home slot (`AtHome`), and no call can change that.
  Before the first removal, no slot between a PID's home and its entry is inactive,
  and no PID occurs twice (`Gapless`); adds keep this, because they fill the first
  inactive slot of a chain.
* `TableImplementsSet`: `Spec => ImplementsSet`. Every call is the same call on a
  `PidSet`, exactly so while reliable. That an add fails only for want of room needs
  a cardinality argument: a table without an inactive slot, each PID in it once, is
  an injection from slots to members.

`ProcessTracerProofs`, for every ring, table and set of PIDs, in all modes:

* `TypeCorrect`: `Spec => []TypeOK`.
* `NothingStays` (`NothingIsLeft`): the table and the probes' map agree, what is held
  is tracked, and `exit_mem` drains. `Tidy` adds that stored PIDs are at home while
  none collide.
* `SelectedAreReported` (`SelectedIsReported`): the invariant `Learned` looks at the
  ring. Just before a record is handled, its PID will be tracked (`TrackedBy`) if it
  is now and no EXIT of it comes in between, or if an EXEC that passes the filter
  comes, and no EXIT of the PID after that. Every EXIT that is due to be reported
  is of a PID that will be tracked then, and every process that was selected will be
  tracked when all records have been handled (`DueIsReported`).
* `NothingIsStale` (`NoStaleTracking`): more facts about the ring. While a probe is in
  flight its process is not released (`ProbesHold`). Whatever makes a PID tracked, an
  entry now or an EXEC to come, is followed by its EXIT unless the process runs or
  the EXIT was lost or dropped by the cgroup filter (`ExitsFollow`). With a session, the same holds of its processes
  with "is ours and runs" (`SessionIsOurs`). Without one, tracking is handed from
  parents to children: there is a set of PIDs for every place in the ring such that
  the first has those tracked now, each next one what the record between them may
  make of it, and everyone in them is ours and runs or has an EXIT from there on
  (`OthersAreNot`). So a released and reused PID inherits nothing.

`ProbesProofs`, for every number of processes, threads and calls, and every size of the
maps, rings and caches:

* `RecordsAreOwn` (`OwnBuffer`) and `DataAreReported` (`DataReported`), from the invariant
  `Kept`. A thread's calls are its own and all but the innermost nest (`Stacked`). What
  the innermost call has stored is in the maps under the thread's key, unless there was
  no room (`InnermostStored`); this is what both properties rest on, as `Exit` happens
  to an innermost call. Every entry of `bufs` is of a call of its thread, with the reason
  for which it is there (`Owned`), and the maps keep to their sizes (`Fits`).
* `ArgumentsAreOwn` (`OwnArguments`) and `KinIsReported` (`KinReported`), from `IoKept`. What
  is stored for a process is of the call it is in, or of one that returned before the
  exit probe was attached (`IoCallsOwned`). Who was met by a scan has been in the map since
  then, with all probes attached (`IoMet`), so that the call it is in has its arguments
  stored, unless there was no room (`IoDueReported`). Descent is closed: whoever has a
  parent that was ever of the family is of it (`IoFamily`), and a line of descent of any
  length that reaches the session reaches it through members; the first one in it
  is found by well-foundedness. Hence nobody else is in a map, the ring or the
  output (`IoKinOnly`).
* `TlsCallsAreReported` (`TlsCallsReported`) and `VerdictsAreExact` (`VerdictExact`), from `BrKept`.
  A descriptor that carries TLS is in the map unless another process has closed one at
  its address (`BrDescriptors`); a buffer stored is of the process's own call, the one it is
  in or one that could leave it behind, and has not been sent (`BrCallsOwned`), and a call is sent once (`BrSentOnce`, `BrRing`). In the cache a
  PID has one entry, and the probe for it meets no free slot before (`BrCache`); what it
  says of a PID that has run one program is true (`BrVerdicts`).

`CountingProofs`, for every tree of cgroups, any number of CPUs, keys and elements, and all
sizes of the maps and tables:

* `RefreshesAreExact` (`RefreshExact` of `CgroupFilter`), from `CgroupsKept`. A cgroup has
  not lived longer than its parent (`Lived`). While the walk goes on, a cgroup that has
  lived all the time is in the map, or the map is full, or it is still to be read
  in a directory that is open (`Pending`), or its parent has not been met either
  (`Walking`). When no directory is open, the cgroups above one not met, itself
  included, would all be unmet, and the root is among them; but the root is the
  first to be added. `Below` is defined by sets closed under parents so that this
  argument needs no recursion.
* `DescriptorsAreOwn` (`OwnDescriptor`) and `NoneIsMissed` (`SelectedAreCounted`), from
  `CallsKept`: a process that is `sure` is selected still, and the entry of the call it
  is in was recorded or found no room (`Surely`). The probes and the map meet in one
  place: a cgroup of `through` is accepted between refreshes because `RefreshExact` holds.
* `CountsAreReal` (`NeverOverReported`), `CountsAreExact` (`ExactWithoutOverlap`) and
  `FlushesAreComplete` (`FlushIsComplete`), from `AgKept`. What has been printed and warned of,
  what the map holds and has not been printed, the overflow counters and the probes that
  are in flight add up to no more than the operations issued (`Total`), and to exactly
  these while no probe has run beside the main thread, because then an addition goes to
  the element that its key still has (`Alone`). What the main thread collected to
  delete is in the map, each key once (`AgWalk`), and a flush that has the map to itself
  has been everywhere before its cursor (`Flushed`). The sums over keys and CPUs
  are folds over sets whose order is chosen: that a sum changes by what one summand
  changes (`SumChanges`) is proved from the library's definition, by the least
  counterexample among the sizes of the set.
* `OpensAreAccounted` (`Accounted`) and `WindowsDecide` (`WindowDecides`), from `OpKept`. Accepted
  opens of a hash are its first opens printed, the later ones printed and what its entry
  has yet to add (`OpTold`). While timestamps are in order, a file whose hash no other has
  has the entry of its last open until the window ends (`OpRecent`); only for opens of
  the past is the unsigned difference the signed one (`ExpiredIs`). The loops that remove
  entries keep `Swept`: what lies before the index stays, what is missing has been
  printed, and no entry is printed twice. It holds of every iteration, for otherwise there
  were a first one of which it does not, which the iteration before contradicts.

`CollectorProofs`:

* `ResponsesAreOwn` (`OwnResponse`), `UsageIsCounted` (`UsageCountedOnce`) and `CompletedStays`
  (`CompleteIsFinal`), from `Kept`: what waits is of its stream, waits once, and its row is
  pending and without usage (`Queues`); where requests have no names, the request whose
  response is due is the last that waits, or none does (`Latest`), because the queue
  is cut from the front only; every row is of an exchange (`RowsOfExchanges`).
* `MonitorsAreNamed` (`NamedInFile`), from `MonKept`, for any number of programs: a PID is of one
  program that has not ended (`MonOwnPids`); a monitor that no race and no deletion of the
  database has disturbed is the one in the file from the write to its own removal (`MonNamed`); and no
  other gets further meanwhile than to find that its PID lives (`MonAlone`).

`ReassemblyProofs`, for any threads, messages and chunks, any connections and frames, and
all limits:

* `NothingIsLost` (`Accounted`), `ThreadsStayApart` (`ThreadsApart`) and `JoinedAreFresh`
  (`JoinsFresh`), from `Tidy`: an event that has been sent is in one accumulator, one merged
  event, or dropped, and in no second place (`InOnePlace`); what is accumulated does not
  complete a message, and is of one thread. Every chunk, whatever the hash map enumerates
  first, has one of four outcomes (`ChunkOutcomes`).
* `MergedAreWhole` (`Whole`), from `OneAtATime` for orderly traffic: a thread has one
  message that goes on and one accumulator, which holds what has come of that message, in
  order, less what was dropped, and no merged event is of that message. When a message is
  complete, all that may still come of it is dropped (`RestIsDropped`).
* `BodiesAreOwn` (`OwnBody`), from `H2Kept`. While a connection has a thread to itself and
  nothing of it has been lost (`H2Quiet`), the body of a side that has no message yet is the
  end of what has come of this side (`H2BodyAt`), with nothing of another stream: the key is
  the thread's, and a state that is gone, because both its sides are out, has a message
  for each (`H2EmittedOnce`). A first message has the body of its state, which the
  record that ends the side may just have extended (`H2FirstAt`). What has come is a
  function on the frames' places, and the walk along them is the same however far it
  goes (`WalksAgree`); that the end of a sequence, extended, is the end of the extended
  one is `CutExtended`.
* `HeadersAreOwn` (`OwnHeaders`) and `EndsAreEmitted` (`EndedIsEmitted`) rest on
  `PeersAssumption`, which is about what the ends of a connection send and not about this
  code: an index means what its sender's table says (`Encoded`), a header block is over
  before another of its direction or stream begins (`BlocksAreWhole`; HTTP/2 forbids any
  frame in between), and a side that has ended carries no more (`SidesEnd`). An arbitrary
  sequence of frames has no headers of its own to be right about. The run's traffic
  satisfies it, as TLC evaluates it. Then the decoder of a connection that is alone
  with it has the literals that the sender's table had before the block that is pending,
  or has them all (`H2InStep`): a block in several frames is decoded by its last, so
  the two tables meet again there; and so every block decodes to what was meant
  (`H2Decoded`). The record that ends a side emits it or finds it emitted (`H2EndAt`); a
  side is emitted twice only if its body was complete JSON before its end, and what comes
  after finds a new state, so that the second body begins after the first (`H2TwiceAt`).

`RecordLifecycleProofs`, with and without a target, `sudo` and a system runner:

* `TypeCorrect`, `NoTargetIsLeft` (`TargetStopped`) and `NoProbeIsLeft`
  (`ProbesStopped`): when the recorder returns, a target that was started has ended or
  could not be ended, and the only probes that may run on are those under sudo that
  the merged stream had not polled yet or that sudo refused to kill. `Invariance` proves all three from `Inv`: `TypeOK`; `TargetInv`, where
  the main task may be without a target still to stop; `ProbeInv`, that a stream
  ends only after its process. Neither property is inductive without these: the
  drain and the error paths reach `returned` without looking at the target again.

Attempts that failed have changed what is stated. TLC confirmed each on an instance
that it now checks. A record may carry another call's start when a user's number is
a process's (`OwnBuffer` is about selected processes). A nameless response goes to
an earlier request when a sink has failed (`Distinguishable`). An expired
accumulator's id may be taken by a longer chunk, which is not the same as going on
(`JoinsFresh`). A message may complete before its last event, whose rest then waits
(`Regular`).

Left to TLC: the four violated properties, and everything that depends on fairness
(`EventuallyForgottenByTracer`, `EventuallyTracked`, `StopsOnSignal`, `ServiceReturns`,
`StopsWithTarget`, `TargetRuns`), because liveness and ENABLED are beyond the prover in
use. Every other property of a passing run has its theorem.



## 5. Findings

Disagreements between the code and what the repository says of it. Each is a run
whose property states the quoted line and is violated.

1. `pid_found`: a removal makes a PID that collided with the removed one
   unreachable, although it was added (`process_filter.h:107`).
2. `tracer_duration`: `-c` with `-d` reports nothing: the early return for the minimum
   duration keeps the EXEC records from the tracker (`process.bpf.c:90`).
3. `record_shutdown`: a signal during startup, or one that races a line of output,
   is lost, and later ones are ignored (`main.rs:180`).
4. `tls_handshakes`: with `-u`, no handshake of the user's processes is reported, for
   the exit probe passes the process id where the filter expects the user id
   (`sslsniff.bpf.c:334`).

Behaviours of the code that the repository neither promises nor denies, found
while the properties were made precise, and left out by their hypotheses:

* With `--session` the tracer asks for the session of a process when it handles
  the record; a process that is gone by then is not reported (`process.c:330`).
  `SelectedIsReported` is about runs without a session.
* In ALL mode, files that other threads open after the leader thread's exit are
  aggregated and not flushed by an exit record, which came before.
* Two CPUs that miss the same key at once count an overflow of a map that has
  room (`bpf_common.h:53`): the second insertion fails because the key exists.
* A timestamp that runs backwards makes the unsigned difference large and expires
  a fresh entry (`process.c:516`); `WindowDecides` is about opens whose timestamps are
  not late.
* The rate-limit warning is consumed by an open that prints nothing.
* With `-v` and a full table, an open is printed twice.
* A `message_delta` that arrives in a chunk of its own is looked up under the id of
  the time window and skipped (`sse_processor.rs:503`), although its message has an
  accumulator under its message id: the usage is missing from the merged event.
  `Whole` is about the events that were not dropped.
* After a loss, a chunk without an id may join what is left of the thread's former
  message, for 30 seconds. `Whole` is about traffic without losses.
* A server that repeats its usage gives a merged event each time
  (`sse_processor.rs:298`), and one that sends no usage and no `[DONE]` none at all:
  nothing is emitted when the stream ends.
* A response that has an id is paired only with a request of the same id, so one whose id
  the server chose does not complete the single request that waits
  (`projection.rs:120`); it gets a row of its own.
* A dead PID's entry in `pid_limits` stays, and a process that gets this PID inherits its
  counter.
* A nested TLS call overwrites the entries of the call around it, whose own exit then
  finds nothing, or the leftovers of the inner one. `src/bpf/README.md` speaks of data
  limited to 32KB where the code has 512K, and names options that `sslsniff` does
  not have.
* With `--cgroup-filter`, a tracked process that has left the subtree, or exits while the map
  of the subtree is refreshed, sends no EXIT and stays tracked (`process.bpf.c:167`).
* `sudo -n kill` is refused when sudo has forgotten the user's password, and a probe then
  outlives the recording (`common.rs:88`), as does one whose stream was never polled
  because a later probe failed to start.
* A shell that takes longer than 250 ms to stop itself is continued before it stops, and the
  command never runs (`cmd_exec.rs:212`).
* A write that fails leaves its descriptor in `write_ctx_map`; a later write of the
  thread whose entry the filters refused is counted under it (`bpf_write.h:29`).
* While the map of cgroups is rebuilt, events of the target's descendants are dropped.
* In the browser probe, a call on a TLS descriptor that failed leaves its buffer, and a
  later call on a plain descriptor reports it; a plain descriptor of another process at
  the same address is taken for TLS; a failed import is still tracked
  (`browsertrace.bpf.c:149`, `:233`). A verdict on a PID outlives the process.
* An END_STREAM on a HEADERS frame that is continued is forgotten; a body that looks
  complete before its stream ends may give a second message; connections that share
  a thread or a decoder mix.
* A monitor that finds the PID of a left-over file alive says that one is already running
  and exits with 0, even if the PID belongs to another program by now: systemd does
  not start it again. Two monitors run if one was started while another was between
  reading and writing the file, or, without any race, after the database has been deleted:
  the next start takes the running monitor's file for a stale one and removes it
  (`cmd_monitor.rs:743`).
* `README.zh-CN.md:37` says that `top` reads the monitor's data whenever the service runs;
  the code does so with `--plain` only (`main.rs:135`).
* The monitor's I/O rates are differences by PID, without a look at the start time.


## 6. Not modelled, and why

* View store, sinks and saved sessions: rows are inserted and updated by key, in one
  thread behind one lock, and written as SQL or to the network. `LlmPairing` has the
  two tables whose rows several events write, and sinks that fail.
* Other analyzers, HTTP/1 parsing, decompression, header removal, timestamp
  normalisation: functions of one event.
* System runner, live top, perf and TUI: samples of `/proc` and differences between two
  of them, taken in one thread.
* Web server and frontend: they read snapshots.
* Wording, layout and parsing of JSON, SQL text, HTTP routing, terminal output:
  data without control.
* `bash_readline` and the `cow` probe: nothing outlives a call, and they only report.
* Binary discovery, the search for functions without symbols, `/proc` scans at the
  start, container lookup: I/O done once.
* agent-session and agentpprof: functions of files.
* Vendored probe binaries, the prebuilt frontend, the `vmlinux.h` headers: not the
  program's own code. These headers are about 617 000 of the repository's lines of C;
  the program's own C is about 6 400 lines, so that a share of all lines says little.
* Within modelled parts: the keys the counting probes compute; errors of BPF
  system calls other than a full map; what a monitor's sample consists of; `-u` of the stdio
  probe, which selects processes as `-p` does, with `--session` too, its `-c`, and polls
  that a signal interrupts; `-c` of the TLS and browser probes compares names of threads,
  of which the models have one choice for each process, or none; an attachment of the browser
  probe that fails, with which the others are detached; paths of cgroups that are too long,
  and directories that cannot be opened; header blocks above
  `MAX_HTTP2_HEADER_BLOCK_BYTES`; of an exchange, all events with its response but one.


## 7. Plan

Done, in this order: PID tracker with its proofs, process tracer, aggregation map,
file opens, recorder with its proofs, LLM pairing, SSE processor; then TLS, stdio,
cgroup filter with the counting probes, browser probe, HTTP/2 streams, monitor; then the
proofs about process tracer, TLS probe, pairing, SSE processor and counting probes; then
those about the stdio and browser probes, aggregation map, file opens, monitor and HTTP/2
messages: their bodies, their headers and their ends.

Left to be modelled: the view store with its bounded audit rows
and the view reloaded from SQLite; filter expressions, the selection of processes in
live top, process matching and stack aggregation as functions against reference
definitions over bounded inputs.
