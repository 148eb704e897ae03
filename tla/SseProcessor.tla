---------------------------- MODULE SseProcessor ----------------------------
(***************************************************************************)
(* How the collector puts streamed LLM answers together again              *)
(* (src/collector/src/analyzers/sse_processor.rs).  A server streams a     *)
(* message as server-sent events; what one TLS read returned, or one body  *)
(* of the HTTP parser, is a chunk of some of them.  The processor keeps an *)
(* accumulator per connection id and emits one merged event when it is     *)
(* complete.  It handles one chunk at a time.                              *)
(***************************************************************************)
EXTENDS Naturals, Sequences, SequencesExt, FiniteSetsExt

CONSTANTS
  Traffics,    \* the kinds of traffic explored; one of them reads
               \*   streams: the threads that read, pid and tid
               \*   scripts: the messages there may be, as sequences of Kinds
               \*   orderly: a stream has one message at a time, each
               \*     Regular, and the probes see all of it
               \*   most: bound, messages
  Timeout,     \* timeout_ms
  MaxBuffers,  \* MAX_BUFFERS
  MaxTime      \* bound: timestamps

\* The server-sent events, as far as the processor tells them apart:
\* message_start, with an id, without or with usage; a content_block_delta
\* with text, or with more than the 50000 bytes that complete a message;
\* ping; message_delta with usage; message_stop and error; and the untyped
\* events of other servers, without and with usage, and "[DONE]".  A chunk
\* that is a fragment of JSON with usageMetadata counts as one "dataUsage".
\* A chunk holds whole events: the parser keeps no rest for the next one.
Kinds == {"start", "startUsage", "delta", "bulk", "ping", "usage", "stop", "error",
          "data", "dataUsage", "done"}

\* is_sse_complete: usage at the top level, [DONE], the end, or too much text.
Completing == {"usage", "dataUsage", "done", "stop", "error", "bulk"}

\* A message that has its id in front, or none, after whose first completing
\* event only the end comes, and whose last event is never skipped.
Regular(script) ==
  /\ \A i \in 2 .. Len(script) : script[i] \notin {"start", "startUsage"}
  /\ \A i \in 1 .. Len(script) : script[i] \in Completing =>
       \A j \in i + 1 .. Len(script) : script[j] \in {"ping", "stop", "error", "done"}
  /\ script[Len(script)] \in Completing \ {"usage"}

ASSUME SseAssumption ==
  /\ \A t \in Traffics : t.orderly \in BOOLEAN /\ t.most \in Nat
  /\ \A t \in Traffics : \A s \in t.scripts : s \in Seq(Kinds) /\ s # <<>>
  /\ \A t \in Traffics : t.orderly => \A s \in t.scripts : Regular(s)
  /\ Timeout \in Nat /\ MaxBuffers \in Nat \ {0}
  /\ MaxTime \in Nat

VARIABLES
  traffic,   \* the kind of traffic of this behaviour
  messages,  \* the messages begun: their stream and script, and how many
             \* events of it have been sent
  buffers,   \* sse_buffers by connection id <<stream, message id or Window>>:
             \* the events accumulated and last_update
  merged,    \* the merged events emitted
  dropped,   \* history: events lost, skipped, timed out, evicted or completed
             \* without meaningful content
  now        \* the latest timestamp there can be

vars == <<traffic, messages, buffers, merged, dropped, now>>

Window == 0  \* timestamp / 600_000_000_000, which is constant for milliseconds

\* The i-th event of message m is <<m, i>>.
Kind(e) == messages[e[1]].script[e[2]]

Sent == UNION {{<<m, i>> : i \in 1 .. messages[m].sent} : m \in DOMAIN messages}

Init ==
  /\ traffic \in Traffics
  /\ messages = <<>>
  /\ buffers = [c \in {} |-> {}]
  /\ merged = {}
  /\ dropped = {}
  /\ now = 0

-----------------------------------------------------------------------------
\* extract_message_id: the id comes with message_start only.
Named(events) == \E i \in DOMAIN events : Kind(events[i]) \in {"start", "startUsage"}

\* generate_connection_id
ConnectionId(s, m, events) == <<s, IF Named(events) THEN m ELSE Window>>

\* should_skip_chunk
Skippable(events) == \A i \in DOMAIN events : Kind(events[i]) \in {"ping", "usage"}

Completes(e) == Kind(e) \in Completing

\* has_meaningful_content
Meaningful(events) ==
  LET kinds == {Kind(events[i]) : i \in DOMAIN events}
  IN  \/ kinds \cap {"delta", "bulk", "startUsage", "usage", "dataUsage"} # {}
      \/ "start" \in kinds /\ Len(events) > 3

\* A mutant: an accumulator lives one tick too long.
FreshLate(time) == {c \in DOMAIN buffers : time <= buffers[c].last + Timeout + 1}

\* The accumulators that retain leaves; the subtraction saturates.
Fresh(time) == {c \in DOMAIN buffers : time <= buffers[c].last + Timeout}

\* evict_over_capacity: the oldest go, before the chunk is looked at; which of
\* those of one age is up to the hash map.
Kept(ids) ==
  IF Cardinality(ids) <= MaxBuffers THEN {ids}
  ELSE {k \in kSubset(MaxBuffers, ids) :
          \A c \in k, d \in ids \ k : buffers[d].last <= buffers[c].last}

\* Two mutants: the thread is not compared; only the chunk's own id is tried.
TargetsOfAll(ids, s, id) == IF id[2] = Window /\ ids # {} THEN ids ELSE {id}
TargetsById(ids, s, id)  == {id}

\* final_connection_id: a chunk without a message id joins an accumulator of
\* its thread, whichever the hash map enumerates first.
Targets(ids, s, id) ==
  LET ofThread == {c \in ids : c[1] = s}
  IN  IF id[2] = Window /\ ofThread # {} THEN ofThread ELSE {id}

EventsOf(ids) == UNION {Range(buffers[c].events) : c \in ids}

\* A mutant: a completed accumulator is not removed.
EmitKeeping(ids, c, acc) ==
  /\ buffers' = [d \in ids \cup {c} |-> IF d = c THEN acc ELSE buffers[d]]
  /\ merged' = IF Meaningful(acc.events) THEN merged \cup {acc.events} ELSE merged

\* The completed accumulator goes, with or without a merged event ...
Emit(ids, c, acc) ==
  /\ buffers' = [d \in ids \ {c} |-> buffers[d]]
  /\ merged' = IF Meaningful(acc.events) THEN merged \cup {acc.events} ELSE merged

\* ... and an incomplete one waits for more.
Store(ids, c, acc) ==
  /\ buffers' = [d \in ids \cup {c} |-> IF d = c THEN acc ELSE buffers[d]]
  /\ UNCHANGED merged

\* SSEProcessor::process of one chunk of message m.
Process(m, events, time) ==
  LET s  == messages[m].stream
      id == ConnectionId(s, m, events)
  IN IF Skippable(events) /\ id \notin DOMAIN buffers
       THEN dropped' = dropped \cup Range(events) /\ UNCHANGED <<buffers, merged>>
       ELSE \E kept \in Kept(Fresh(time)) : \E c \in Targets(kept, s, id) :
              LET before == IF c \in kept THEN buffers[c].events ELSE <<>>
                  acc    == [events |-> before \o events, last |-> time]
                  gone   == EventsOf(DOMAIN buffers \ kept)
              IN  IF \E i \in DOMAIN acc.events : Completes(acc.events[i])
                    THEN /\ Emit(kept, c, acc)
                         /\ dropped' = dropped \cup gone \cup
                              (IF Meaningful(acc.events) THEN {} ELSE Range(acc.events))
                    ELSE /\ Store(kept, c, acc)
                         /\ dropped' = dropped \cup gone

-----------------------------------------------------------------------------
\* The servers, the probes and the clock

Begin(s, script) ==
  /\ Len(messages) < traffic.most
  /\ traffic.orderly => \A m \in DOMAIN messages :
       messages[m].stream = s => messages[m].sent = Len(messages[m].script)
  /\ messages' = Append(messages, [stream |-> s, script |-> script, sent |-> 0])
  /\ UNCHANGED <<traffic, buffers, merged, dropped, now>>

\* The next n events of message m arrive as one chunk.
Arriving(m, n) == [i \in 1 .. n |-> <<m, messages[m].sent + i>>]

Chunk(m, n, time) ==
  /\ messages[m].sent + n <= Len(messages[m].script)
  /\ messages' = [messages EXCEPT ![m].sent = @ + n]
  /\ Process(m, Arriving(m, n), time)
  /\ UNCHANGED <<traffic, now>>

\* The probes miss a chunk, or the connection breaks.
Lose(m, n) ==
  /\ ~traffic.orderly
  /\ messages[m].sent + n <= Len(messages[m].script)
  /\ messages' = [messages EXCEPT ![m].sent = @ + n]
  /\ dropped' = dropped \cup Range(Arriving(m, n))
  /\ UNCHANGED <<traffic, buffers, merged, now>>

Tick ==
  /\ now < MaxTime /\ now' = now + 1
  /\ UNCHANGED <<traffic, messages, buffers, merged, dropped>>

Next ==
  \/ Tick
  \/ \E s \in traffic.streams, script \in traffic.scripts : Begin(s, script)
  \/ \E m \in DOMAIN messages : \E n \in 1 .. Len(messages[m].script) :
       \/ Lose(m, n)
       \/ \E time \in 0 .. now : Chunk(m, n, time)

Spec == Init /\ [][Next]_vars

-----------------------------------------------------------------------------
\* The shape of the state: at most one accumulator above the limit, none of
\* them empty or complete, and each with events of its own thread only.
TypeOK ==
  /\ Cardinality(DOMAIN buffers) <= MaxBuffers + 1
  /\ \A c \in DOMAIN buffers :
       /\ buffers[c].events # <<>> /\ buffers[c].last \in 0 .. now
       /\ \A e \in Range(buffers[c].events) :
            e \in Sent /\ ~Completes(e) /\ messages[e[1]].stream = c[1]
  /\ \A events \in merged : Range(events) \subseteq Sent
  /\ dropped \subseteq Sent

\* Every event that was sent is in exactly one place: in one accumulator, in
\* one merged event, or among those the processor is known to drop.
Accounted ==
  \A e \in Sent :
    Cardinality({c \in DOMAIN buffers : e \in Range(buffers[c].events)})
      + Cardinality({events \in merged : e \in Range(events)})
      + (IF e \in dropped THEN 1 ELSE 0) = 1

\* Whatever the traffic, the threads' messages are never mixed, neither while
\* they accumulate nor when they are merged.
ThreadsApart ==
  /\ TypeOK
  /\ \A events \in merged : \A d, e \in Range(events) :
       messages[d[1]].stream = messages[e[1]].stream

\* When a thread reads one message at a time and nothing is missed, a merged
\* event is one message as it was sent: all that arrived up to its last event
\* and was not dropped, in order, and of that message alone; and no message
\* gives two merged events, which would count its usage twice.
Whole == traffic.orderly =>
  /\ \A events \in merged :
       LET m == events[1][1]
       IN  /\ Range(events) = {<<m, i>> : i \in 1 .. Last(events)[2]} \ dropped
           /\ \A i, j \in DOMAIN events : i < j => events[i][2] < events[j][2]
  /\ \A d, e \in merged : d[1][1] = e[1][1] => d = e

\* A chunk never joins an accumulator that has waited longer than the timeout, and
\* leaves it in the map: an accumulator stays as it is, or goes on in time, or all
\* it held is dropped and another takes its id.  A chunk that completes its message
\* takes the accumulator out in the same step, which this does not see.
JoinsFresh ==
  [][\A c \in DOMAIN buffers \cap DOMAIN buffers' :
       LET old == buffers[c]
           new == buffers'[c]
       IN  \/ new = old
           \/ /\ IsPrefix(old.events, new.events) /\ Len(old.events) < Len(new.events)
              /\ new.last <= old.last + Timeout
           \/ Range(old.events) \subseteq dropped']_vars
=============================================================================
