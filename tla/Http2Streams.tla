---------------------------- MODULE Http2Streams ----------------------------
(***************************************************************************)
(* How the HTTP parser puts HTTP/2 messages together from the records of   *)
(* the TLS probe (HTTP2State in collector/src/analyzers/http_parser.rs).   *)
(*                                                                         *)
(* A record says which thread read or wrote the bytes, and not on which    *)
(* connection: streams are told apart by thread and stream id, and the     *)
(* headers of all connections go through one HPACK decoder per direction.  *)
(* Connections take turns on threads, and records get lost.                *)
(*                                                                         *)
(* A record is one frame here.  A record with an incomplete frame is       *)
(* passed on unparsed, whole, which is to this component as if it were     *)
(* lost.  Frames that it ignores (SETTINGS, RST_STREAM, ...) are left out, *)
(* and so are header blocks above MAX_HTTP2_HEADER_BLOCK_BYTES, dropped    *)
(* while they are put together.                                            *)
(***************************************************************************)
EXTENDS Naturals, FiniteSets, Sequences, SequencesExt

CONSTANTS
  Conns,      \* connections
  Traffics,   \* what the connections carry: for each, the threads that it
              \* may run on and its frames in order
  Threads, Values, \* whatever may be a thread, or a header
  MaxStreams, \* MAX_HTTP2_STREAMS and MAX_HTTP2_PENDING_HEADERS
  MaxBody,    \* MAX_HTTP2_BODY_BYTES, in frames
  Losses      \* bound: records that are lost or unparsed

Directions == {"request", "response"}

\* A frame has a direction, a type, a stream id and flags; for HEADERS, the value
\* that its block stands for and how it says so, as a literal that enters the
\* table (0) or as an index into it; for DATA, whether the body is complete JSON
\* with it.
Frames ==
  [type : {"data", "headers", "continuation"}, dir : Directions, sid : Nat,
   value : Values, index : Nat, endHeaders : BOOLEAN, endStream : BOOLEAN, json : BOOLEAN]

Http2Assumption ==
  /\ \A t \in Traffics, c \in Conns :
       t[c].frames \in Seq(Frames) /\ t[c].threads \subseteq Threads
  /\ MaxStreams \in Nat /\ MaxBody \in Nat \ {0} /\ Losses \in Nat

\* The frames that enter the sender's table, from the p-th and before the n-th
Literals(frames, d, p, n) ==
  {q \in p .. n - 1 : frames[q].type = "headers" /\ frames[q].dir = d /\ frames[q].index = 0}

\* What the ends of a connection make sure of.  An index counts the literals of its
\* direction from the newest; a header block is over before another one of its
\* direction, or of its stream, begins; and a side that has ended carries no more.
Encoded(frames) ==
  \A n \in DOMAIN frames : (frames[n].type = "headers" /\ frames[n].index # 0) =>
    \E p \in Literals(frames, frames[n].dir, 1, n) :
      /\ frames[p].value = frames[n].value
      /\ Cardinality(Literals(frames, frames[n].dir, p, n)) = frames[n].index

BlocksAreWhole(frames) ==
  \A n \in DOMAIN frames : \A b \in 1 .. n - 1 :
    /\ frames[b].type = "headers" /\ ~frames[b].endHeaders /\ frames[n].type = "headers"
    /\ frames[b].dir = frames[n].dir \/ frames[b].sid = frames[n].sid
    => \E i \in b + 1 .. n - 1 : /\ frames[i].type = "continuation" /\ frames[i].endHeaders
                                  /\ frames[i].sid = frames[b].sid

SidesEnd(frames) ==
  \A n \in DOMAIN frames : \A b \in 1 .. n - 1 :
    frames[b].endStream /\ frames[n].type # "continuation" =>
      frames[b].dir # frames[n].dir \/ frames[b].sid # frames[n].sid

PeersAssumption ==
  \A t \in Traffics, c \in Conns :
    /\ Encoded(t[c].frames) /\ BlocksAreWhole(t[c].frames) /\ SidesEnd(t[c].frames)

VARIABLES
  traffic,   \* the chosen one of Traffics
  pos,       \* how many frames of each connection have been sent
  table,     \* the dynamic table of each decoder, newest first, with the
             \* connection that inserted each value
  streams,   \* HTTP2StreamState by thread and stream id
  pending,   \* PendingHTTP2Headers by thread and stream id: the HEADERS frame
  messages,  \* history: events created, oldest first
  ran,       \* history: the threads each connection has run on
  dropped    \* history: connections with a lost record, keys evicted

vars == <<traffic, pos, table, streams, pending, messages, ran, dropped>>

Empty == [hdr |-> [d \in Directions |-> {}], body |-> [d \in Directions |-> << >>],
          emitted |-> {}]

Init ==
  /\ traffic \in Traffics
  /\ pos = [c \in Conns |-> 0]
  /\ table = [d \in Directions |-> << >>]
  /\ streams = << >> /\ pending = << >>
  /\ messages = << >>
  /\ ran = [c \in Conns |-> {}]
  /\ dropped = [conns |-> {}, keys |-> {}, blocks |-> {}]

\* A frame is named by its connection and place.
Frame(f) == traffic[f[1]].frames[f[2]]

\* The frames of one type on one side of a stream, up to the n-th of the connection
SentUpTo(c, sid, d, type, n) ==
  LET isOne(f) == Frame(f).type = type /\ Frame(f).sid = sid /\ Frame(f).dir = d
      sent[i \in 0 .. n] ==
        IF i = 0 THEN << >>
        ELSE IF isOne(<<c, i>>) THEN Append(sent[i - 1], <<c, i>>) ELSE sent[i - 1]
  IN  sent[n]

-----------------------------------------------------------------------------
\* A mutant: streams are told apart by their id alone.
KeyIgnoringThread(t, f) == <<0, Frame(f).sid>>

Key(t, f) == <<t, Frame(f).sid>>

\* self.streams.entry(key).or_default()
Entry(k) == IF k \in DOMAIN streams THEN streams[k] ELSE Empty

Put(map, k, v) == [j \in DOMAIN map \cup {k} |-> IF j = k THEN v ELSE map[j]]
Without(map, ks) == [j \in DOMAIN map \ ks |-> map[j]]

\* evict_over_capacity: HashMap's keys are in no order.
Evictions(map) ==
  {ks \in SUBSET DOMAIN map :
     Cardinality(ks) = IF Cardinality(DOMAIN map) > MaxStreams
                       THEN Cardinality(DOMAIN map) - MaxStreams ELSE 0}

\* extend_capped
Extended(body, f) ==
  IF Len(body) < MaxBody THEN Append(body, f) ELSE Append(Tail(body), f)

\* looks_like_complete_json: the document from its first byte to its last
CompleteJson(body) ==
  LET f == Last(body)
  IN  Frame(f).json /\ body = SentUpTo(f[1], Frame(f).sid, Frame(f).dir, "data", f[2])

\* A mutant: one decoder for both directions.
OneDecoder(d) == "request"

\* request_decoder or response_decoder
Decoder(d) == d

\* decode_headers: the value and the new table; an index beyond the table is an
\* error, which ignores the block.
Decodes(d, h) == Frame(h).index <= Len(table[Decoder(d)])
Decoded(d, h) ==
  IF Frame(h).index = 0 THEN Frame(h).value ELSE table[Decoder(d)][Frame(h).index].value
TableAfter(d, h) ==
  IF Frame(h).index = 0
    THEN [table EXCEPT ![Decoder(d)] = <<[value |-> Frame(h).value, conn |-> h[1]]>> \o @]
    ELSE table

\* A state that takes a frame's side as finished, if it was not; the message
\* that is created; and the end of the loop's body: a state both of whose
\* messages are out goes, and so does any other that is one too many.
Finish(k, state, d, f, ends) ==
  LET emits == ends /\ d \notin state.emitted
      after == IF emits THEN [state EXCEPT !.emitted = @ \cup {d}] ELSE state
      kept  == IF after.emitted = Directions THEN Without(streams, {k})
               ELSE Put(streams, k, after)
  IN  /\ messages' = IF emits
                       THEN Append(messages, [by |-> f, key |-> k, dir |-> d,
                                              hdr |-> state.hdr[d], body |-> state.body[d]])
                       ELSE messages
      /\ \E ks \in Evictions(kept) :
           /\ streams' = Without(kept, ks)
           /\ dropped' = [dropped EXCEPT !.keys = @ \cup ks]

Data(k, f) ==
  LET d == Frame(f).dir
      state == [Entry(k) EXCEPT !.body[d] = Extended(@, f)]
      ends == Frame(f).endStream \/ (d = "response" /\ CompleteJson(state.body[d]))
  IN  /\ Frame(f).type = "data"
      /\ Finish(k, state, d, f, ends)
      /\ UNCHANGED <<table, pending>>

\* A header block that is complete: apply_headers
Apply(k, d, h, f, ends) ==
  IF Decodes(d, h)
    THEN /\ table' = TableAfter(d, h)
         /\ Finish(k, [Entry(k) EXCEPT !.hdr[d] = @ \cup {Decoded(d, h)}], d, f, ends)
    ELSE UNCHANGED <<table, streams, messages, dropped>>

\* A mutant: only DATA frames end a stream.
HeadersNeverEnd(k, f) ==
  /\ Frame(f).type = "headers" /\ Frame(f).endHeaders
  /\ Apply(k, Frame(f).dir, f, f, FALSE)
  /\ UNCHANGED pending

Headers(k, f) ==
  /\ Frame(f).type = "headers"
  /\ IF Frame(f).endHeaders
       THEN Apply(k, Frame(f).dir, f, f, Frame(f).endStream) /\ UNCHANGED pending
       ELSE LET all == Put(pending, k, f) IN
            /\ \E ks \in Evictions(all) :
                 /\ pending' = Without(all, ks)
                 /\ dropped' = [dropped EXCEPT !.blocks = @ \cup {all[j][1] : j \in ks}]
            /\ UNCHANGED <<table, streams, messages>>

\* The flag END_STREAM of the HEADERS frame is not remembered.
Continuation(k, f) ==
  /\ Frame(f).type = "continuation"
  /\ IF k \notin DOMAIN pending
       THEN UNCHANGED <<table, streams, pending, messages, dropped>>
       ELSE IF Frame(f).endHeaders
         THEN /\ pending' = Without(pending, {k})
              /\ Apply(k, Frame(pending[k]).dir, pending[k], f, FALSE)
         ELSE UNCHANGED <<table, streams, pending, messages, dropped>>

\* The next record of connection c, on thread t
Receive(c, t) ==
  LET f == <<c, pos[c] + 1>> IN
  /\ pos[c] < Len(traffic[c].frames)
  /\ pos' = [pos EXCEPT ![c] = @ + 1]
  /\ ran' = [ran EXCEPT ![c] = @ \cup {t}]
  /\ Data(Key(t, f), f) \/ Headers(Key(t, f), f) \/ Continuation(Key(t, f), f)
  /\ UNCHANGED traffic

Lose(c) ==
  /\ pos[c] < Len(traffic[c].frames) /\ Cardinality(dropped.conns) < Losses
  /\ pos' = [pos EXCEPT ![c] = @ + 1]
  /\ dropped' = [dropped EXCEPT !.conns = @ \cup {c}]
  /\ UNCHANGED <<traffic, table, streams, pending, messages, ran>>

Next == \E c \in Conns : Lose(c) \/ \E t \in traffic[c].threads : Receive(c, t)

Spec == Init /\ [][Next]_vars

-----------------------------------------------------------------------------
\* A connection that stays on one thread, with no other on it
Apart(c) ==
  /\ Cardinality(ran[c]) = 1
  /\ \A e \in Conns \ {c} : ran[e] \cap ran[c] = {}

\* Nothing of the connection was lost on the way here, or evicted here.
Intact(c) ==
  /\ Apart(c) /\ c \notin dropped.conns \cup dropped.blocks
  /\ \A k \in dropped.keys : k[1] \notin ran[c]

\* No header of another connection, and none after a gap, has been through the
\* decoder: what a reference means is then what its sender meant.
Synchronous(c) ==
  /\ dropped.conns = {} /\ dropped.blocks = {}
  /\ \A d \in Directions : \A i \in DOMAIN table[d] : table[d][i].conn = c

\* What has been sent on one side of a stream
Sent(c, sid, d) ==
  {f \in {c} \X (1 .. pos[c]) : Frame(f).sid = sid /\ Frame(f).dir = d}

\* A frame that ends a side, as far as the code can tell
Ending(f) ==
  /\ Frame(f).endStream
  /\ Frame(f).type = "data" \/ (Frame(f).type = "headers" /\ Frame(f).endHeaders)

MessagesOf(c, sid, d) ==
  {i \in DOMAIN messages :
     messages[i].by[1] = c /\ Frame(messages[i].by).sid = sid /\ messages[i].dir = d}

\* A message holds the body that its stream carried, all of it up to the end or
\* the last MaxBody of it, and nothing of another stream, if its connection has
\* a thread of its own and nothing was lost; whatever the streams' order.
OwnBody ==
  \A c \in Conns : Intact(c) =>
    \A i \in DOMAIN messages : messages[i].by[1] = c =>
      LET m == messages[i]
          upTo == SentUpTo(c, Frame(m.by).sid, m.dir, "data", m.by[2])
          first == \A j \in 1 .. i - 1 : messages[j].key # m.key \/ messages[j].dir # m.dir
      IN  first => m.body = SubSeq(upTo, IF Len(upTo) > MaxBody THEN Len(upTo) - MaxBody + 1 ELSE 1,
                                   Len(upTo))

\* Each side of a stream that has ended became one message, and only those that
\* have ended or whose body is complete JSON did; a second message comes of
\* such a body alone, whose end arrives when the state is gone, and repeats
\* nothing of it.  The end is missed if it was announced by a HEADERS frame that is
\* continued, or whose block cannot be decoded.
EndedIsEmitted ==
  \A c \in Conns : Intact(c) =>
    \A sid \in {Frame(<<c, i>>).sid : i \in 1 .. pos[c]}, d \in Directions :
      LET ended == \E f \in Sent(c, sid, d) : Ending(f)
          early == \E f \in Sent(c, sid, d) : Frame(f).type = "data" /\ Frame(f).json
          out == MessagesOf(c, sid, d)
      IN  /\ (ended /\ Synchronous(c)) => out # {}
          /\ out # {} => ended \/ early
          /\ Cardinality(out) > 1 => early /\ Cardinality(out) = 2
          /\ \A i, j \in out : i # j =>
               ToSet(messages[i].body) \cap ToSet(messages[j].body) = {}

\* A message has no headers but those that its stream carried, as long as only
\* its own connection has used the decoder.  (That all of them are there is not
\* said: a block that is complete after the message has gone out comes too late.)
OwnHeaders ==
  \A i \in DOMAIN messages :
    LET m == messages[i]
        c == m.by[1] IN
    (Synchronous(c) /\ Intact(c)) =>
      \A value \in m.hdr : \E f \in Sent(c, Frame(m.by).sid, m.dir) :
        Frame(f).type = "headers" /\ Frame(f).value = value

=============================================================================
