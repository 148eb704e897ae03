----------------------------- MODULE Reassembly -----------------------------
(***************************************************************************)
(* The two analyzers that put messages together from the TLS records: SSE  *)
(* chunks into merged events, HTTP/2 frames into requests and responses.   *)
(* They share no state, so that a behaviour is of one of them.             *)
(***************************************************************************)
EXTENDS SseProcessor

CONSTANTS
  \* of Http2Streams
  H2Conns, H2Traffics, H2Threads, H2Values, H2MaxStreams, H2MaxBody, H2Losses

VARIABLES
  part,  \* the analyzer of this behaviour: "sse" or "http2"
  h2Traffic, h2Pos, h2Table, h2Streams, h2Pending, h2Messages, h2Ran, h2Dropped

h2Vars ==
  <<h2Traffic, h2Pos, h2Table, h2Streams, h2Pending, h2Messages, h2Ran, h2Dropped>>

H2 == INSTANCE Http2Streams WITH
  Conns <- H2Conns, Traffics <- H2Traffics, Threads <- H2Threads, Values <- H2Values,
  MaxStreams <- H2MaxStreams, MaxBody <- H2MaxBody, Losses <- H2Losses,
  traffic <- h2Traffic, pos <- h2Pos, table <- h2Table, streams <- h2Streams,
  pending <- h2Pending, messages <- h2Messages, ran <- h2Ran, dropped <- h2Dropped

ASSUME ReassemblyAssumption == H2!Http2Assumption
ASSUME ReassemblyPeers == H2!PeersAssumption

-----------------------------------------------------------------------------
\* The analyzer that a behaviour is not of is in some initial state.
ReassemblyInit ==
  /\ part \in {"sse", "http2"}
  /\ Init /\ H2!Init
  /\ part # "sse" => traffic = CHOOSE t \in Traffics : TRUE
  /\ part # "http2" => h2Traffic = CHOOSE t \in H2Traffics : TRUE

ReassemblyNext ==
  \/ part = "sse" /\ Next /\ UNCHANGED <<part, h2Vars>>
  \/ part = "http2" /\ H2!Next /\ UNCHANGED <<part, vars>>

ReassemblySpec == ReassemblyInit /\ [][ReassemblyNext]_<<part, vars, h2Vars>>

\* The properties of Http2Streams, each explained there.

\* HTTP2State gives a message the body of its own stream.
OwnBody == part = "http2" => H2!OwnBody

\* The HPACK decoders give a message the headers of its own stream.
OwnHeaders == part = "http2" => H2!OwnHeaders

\* A side of a stream that has ended becomes one message.
EndedIsEmitted == part = "http2" => H2!EndedIsEmitted
=============================================================================
