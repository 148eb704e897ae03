----------------------------- MODULE LlmPairing -----------------------------
(***************************************************************************)
(* How the materialized view makes LLM call rows of the HTTP messages it   *)
(* observes.  A request gives a pending row and waits, with the others of  *)
(* its stream (pid and tid), for its response; a response completes the    *)
(* row of the request it is matched with, or gives a row of its own.       *)
(* MaterializingAnalyzer logs an error of a sink and goes on with the next *)
(* event, so that each event is ingested as far as its error allows.  One  *)
(* event is the response of an exchange: not a stream's events and the     *)
(* HTTP message they came in.                                              *)
(***************************************************************************)
EXTENDS Naturals, Sequences, FiniteSets

CONSTANTS
  Streams,       \* the threads whose traffic is observed
  Traffics,      \* the kinds of traffic explored; one of them reads
                 \*   schemes: who puts a request id in the headers: "nobody",
                 \*     "server" (the response only) or "client" (both, the
                 \*     server echoes it)
                 \*   others: exchanges that are not LLM calls occur too
                 \*   sequential: a stream has one exchange at a time (HTTP/1.1)
                 \*   failing: a sink may reject a row
                 \*   streams, requests: bounds on their number
  MaxPending,    \* MAX_PENDING_REQUESTS_PER_STREAM
  TTL,           \* PENDING_REQUEST_TTL_MS
  MaxTime        \* bound: timestamps

ASSUME PairingAssumption ==
  /\ Traffics \subseteq [schemes : SUBSET {"nobody", "server", "client"}, others : BOOLEAN,
                         sequential : BOOLEAN, failing : BOOLEAN,
                         streams : SUBSET Streams, requests : Nat]
  /\ MaxPending \in Nat \ {0} /\ TTL \in Nat /\ MaxTime \in Nat

VARIABLES
  traffic,   \* the kind of traffic of this behaviour
  exchange,  \* what the agent and the servers exchange, in the order of the requests
  pending,   \* of each stream, the requests that wait for their response
  calls,     \* LlmCallRow by id: the exchange whose response completed it, None if pending
  usage,     \* TokenUsageRow by the id of its call: the exchange whose response held it
  now        \* the latest timestamp there can be

vars == <<traffic, exchange, pending, calls, usage, now>>

None == 0

Exchanges == 1 .. Len(exchange)
Call(n)   == <<"llm", n>>           \* "llm-<event id of the request>"
Orphan(n) == <<"llm-orphan", n>>    \* "llm-orphan-<event id of the response>"

Init ==
  /\ traffic \in Traffics
  /\ exchange = <<>>
  /\ pending = [s \in Streams |-> <<>>]
  /\ calls = [c \in {} |-> None] /\ usage = [c \in {} |-> None]
  /\ now = 0

-----------------------------------------------------------------------------
\* prune_pending: expired requests go, from the front, up to the first that
\* has not expired.  The time is that of the event being ingested.
Pruned(queue, time) ==
  LET fresh == {i \in 1 .. Len(queue) : queue[i].time + TTL >= time}
  IN IF fresh = {} THEN <<>>
     ELSE SubSeq(queue, CHOOSE i \in fresh : \A j \in fresh : i <= j, Len(queue))

\* The end of ingest_llm_request: the oldest request makes room.
Stored(queue, r) ==
  LET longer == Append(queue, r)
  IN IF Len(longer) > MaxPending THEN Tail(longer) ELSE longer

\* extract_request_id of the two messages of an exchange.
RequestId(n)  == IF exchange[n].scheme = "client" THEN n ELSE None
ResponseId(n) == IF exchange[n].scheme = "nobody" THEN None ELSE n

\* A mutant: an id that matches nothing is ignored.
MatchIgnoringIds(queue, id) == IF Len(queue) = 1 THEN 1 ELSE None

\* take_matching_request: the position of the request a response is matched
\* with.  An id must match; without one the stream must have one candidate,
\* and every request that was stored is one.
Match(queue, id) ==
  LET same == {i \in 1 .. Len(queue) : RequestId(queue[i].n) = id}
  IN IF id # None
       THEN IF same = {} THEN None ELSE CHOOSE i \in same : \A j \in same : i <= j
       ELSE IF Len(queue) = 1 THEN 1 ELSE None

\* A mutant: the request stays and may be matched again.
WithoutNothing(queue, i) == queue
Without(queue, i) == SubSeq(queue, 1, i - 1) \o SubSeq(queue, i + 1, Len(queue))

\* publish: where a sink's error ends the ingestion of an event: nowhere, at
\* the network target, at a row that precedes the call row, at the call row.
Outcomes == IF traffic.failing THEN {"done", "target", "before", "call"} ELSE {"done"}

-----------------------------------------------------------------------------
\* apply_llm_call, apply_token_usage
Upsert(rows, id, n) == [c \in DOMAIN rows \cup {id} |-> IF c = id THEN n ELSE rows[c]]

\* A request is sent and observed.  One that is no LLM request only prunes.
Request(s, scheme, llm, time, outcome) ==
  LET n == Len(exchange) + 1
      old == [q \in Streams |-> Pruned(pending[q], time)]
  IN /\ n <= traffic.requests
     /\ traffic.sequential => \A m \in Exchanges : exchange[m].stream = s => ~exchange[m].open
     /\ exchange' = Append(exchange,
          [stream |-> s, scheme |-> scheme, llm |-> llm, open |-> TRUE, counted |-> FALSE])
     /\ calls' = IF llm /\ outcome \in {"done", "call"} THEN Upsert(calls, Call(n), None) ELSE calls
     /\ pending' = IF llm /\ outcome = "done"
                     THEN [old EXCEPT ![s] = Stored(@, [n |-> n, time |-> time])] ELSE old
     /\ UNCHANGED <<traffic, usage, now>>

\* A mutant: a row is applied after the sinks have accepted it.
CompletePublishingFirst(id, n, withUsage, outcome) ==
  /\ calls' = IF outcome # "done" THEN calls ELSE Upsert(calls, id, n)
  /\ usage' = IF withUsage /\ outcome # "before" THEN Upsert(usage, id, n) ELSE usage

\* The rows a response gives to the call with this id: each is applied, then
\* published, and an error of a sink leaves out those that follow.
Complete(id, n, withUsage, outcome) ==
  /\ calls' = IF outcome = "before" THEN calls ELSE Upsert(calls, id, n)
  /\ usage' = IF withUsage THEN Upsert(usage, id, n) ELSE usage

\* ingest_llm_response, of an LlmResponse or LlmError (which a response with token
\* usage is), or of an HttpResponse on a stream where a request waits.
Response(n, classified, withUsage, time, outcome) ==
  LET s == exchange[n].stream
      old == [q \in Streams |-> Pruned(pending[q], time)]
      i == Match(old[s], ResponseId(n))
      ingested == outcome # "target" /\ (classified \/ old[s] # <<>>)
  IN /\ exchange[n].open
     /\ withUsage => classified
     /\ classified => exchange[n].llm
     /\ exchange' = [exchange EXCEPT ![n].open = FALSE, ![n].counted = withUsage /\ ingested]
     /\ IF ~ingested
          THEN pending' = old /\ UNCHANGED <<calls, usage>>
          ELSE IF i = None
            THEN pending' = old /\ Complete(Orphan(n), n, withUsage, outcome)
            ELSE /\ pending' = [old EXCEPT ![s] = Without(@, i)]
                 /\ Complete(Call(old[s][i].n), n, withUsage, outcome)
     /\ UNCHANGED <<traffic, now>>

\* A response that the probes or the parser miss.
Lose(n) ==
  /\ exchange[n].open
  /\ exchange' = [exchange EXCEPT ![n].open = FALSE]
  /\ UNCHANGED <<traffic, pending, calls, usage, now>>

\* Any other event of the merged streams prunes; its time may be an older one.
Other(time) ==
  /\ pending' = [q \in Streams |-> Pruned(pending[q], time)]
  /\ UNCHANGED <<traffic, exchange, calls, usage, now>>

Tick ==
  /\ now < MaxTime /\ now' = now + 1
  /\ UNCHANGED <<traffic, exchange, pending, calls, usage>>

Next ==
  \/ Tick
  \/ \E n \in Exchanges : Lose(n)
  \/ \E time \in 0 .. now :
       \/ Other(time)
       \/ \E outcome \in Outcomes :
            \/ \E s \in traffic.streams, scheme \in traffic.schemes, llm \in {TRUE, ~traffic.others} :
                 Request(s, scheme, llm, time, outcome)
            \/ \E n \in Exchanges, classified \in BOOLEAN, withUsage \in BOOLEAN :
                 Response(n, classified, withUsage, time, outcome)

Spec == Init /\ [][Next]_vars

-----------------------------------------------------------------------------
\* The shape of the view: queues within their bound, of different requests,
\* each of its own stream and with a row that is still pending.
TypeOK ==
  /\ \A s \in Streams : Len(pending[s]) <= MaxPending
  /\ \A s \in Streams : \A i \in 1 .. Len(pending[s]) :
       LET r == pending[s][i]
       IN /\ r.time \in 0 .. now /\ exchange[r.n].stream = s
          /\ Call(r.n) \in DOMAIN calls /\ calls[Call(r.n)] = None
          /\ \A j \in 1 .. i - 1 : pending[s][j].n # r.n
  /\ DOMAIN usage \subseteq {Call(n) : n \in Exchanges} \cup {Orphan(n) : n \in Exchanges}

\* Requests and responses can be told apart: LLM calls are all there is, and
\* either the client names its requests or each stream has one at a time.  The
\* latter needs the sinks too: a request whose row one of them rejects does not
\* wait for its response, which then goes to an earlier request of the stream.
Distinguishable ==
  /\ ~traffic.others
  /\ \/ traffic.schemes = {"client"}
     \/ traffic.schemes = {"nobody"} /\ traffic.sequential /\ ~traffic.failing

\* Where that is possible, a call is completed by the response to its own
\* request: lost responses, evictions, expiry, timestamps out of order and, where
\* requests have names, failing sinks may leave a call pending but never give it
\* a wrong response.
OwnResponse == Distinguishable =>
  \A n \in Exchanges : Call(n) \in DOMAIN calls => calls[Call(n)] \in {None, n}

\* A completed row is final: no other response is written over it, and it
\* does not become pending again.
CompleteIsFinal ==
  [][\A c \in DOMAIN calls : calls[c] # None => calls'[c] = calls[c]]_vars

\* The usage in each ingested response is counted in exactly one row, even
\* when a sink fails in the middle of it; and as long as no sink fails, in the
\* row of the call that the same response completed.
UsageCountedOnce ==
  /\ TypeOK
  /\ \A n \in Exchanges :
       Cardinality({c \in DOMAIN usage : usage[c] = n}) = IF exchange[n].counted THEN 1 ELSE 0
  /\ ~traffic.failing => \A c \in DOMAIN usage : c \in DOMAIN calls /\ calls[c] = usage[c]
=============================================================================
