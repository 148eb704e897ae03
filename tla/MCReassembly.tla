---------------------------- MODULE MCReassembly ----------------------------
(* What Reassembly is checked with. *)
EXTENDS Reassembly

CONSTANTS s1, s2, s3

\* Messages with an id and usage, messages without an id, and one that is
\* complete without content; as they come, on two threads.
MCOrderly ==
  [streams |-> {s1, s2}, orderly |-> TRUE, most |-> 3,
   scripts |-> {<<"startUsage", "delta", "usage", "stop">>,
                <<"data", "dataUsage", "done">>, <<"start", "ping", "stop">>}]

\* Three threads at once, so that accumulators are evicted.
MCCrowded ==
  [streams |-> {s1, s2, s3}, orderly |-> TRUE, most |-> 3,
   scripts |-> {<<"startUsage", "delta", "stop">>}]

\* Errors, oversized text and losses, messages mixed on a thread.
MCMessy ==
  [streams |-> {s1, s2}, orderly |-> FALSE, most |-> 2,
   scripts |-> {<<"start", "delta", "usage", "stop">>, <<"start", "bulk", "error">>,
                <<"data", "data", "dataUsage">>}]

\* Three messages of one thread, so that it has several accumulators, and
\* servers that repeat the usage.
MCMultiplexed ==
  [streams |-> {s1}, orderly |-> FALSE, most |-> 3,
   scripts |-> {<<"start", "delta", "stop">>, <<"dataUsage", "dataUsage">>}]

MCTraffics == {MCOrderly, MCCrowded, MCMessy, MCMultiplexed}

-----------------------------------------------------------------------------
FrameOf(type, dir, sid, value, index, endHeaders, endStream, json) ==
  [type |-> type, dir |-> dir, sid |-> sid, value |-> value, index |-> index,
   endHeaders |-> endHeaders, endStream |-> endStream, json |-> json]

Head1(dir, sid, value, index, ends) ==
  FrameOf("headers", dir, sid, value, index, TRUE, ends, FALSE)
Begun(dir, sid, value, ends) == FrameOf("headers", dir, sid, value, 0, FALSE, ends, FALSE)
More(dir, sid, endHeaders) ==
  FrameOf("continuation", dir, sid, "", 0, endHeaders, FALSE, FALSE)
Body(dir, sid, ends) == FrameOf("data", dir, sid, "", 0, FALSE, ends, FALSE)
AllJson(dir, sid, ends) == FrameOf("data", dir, sid, "", 0, FALSE, ends, TRUE)

\* A request with a body that is answered in pieces, while a second one refers
\* to the headers of the first.
Chat ==
  << Head1("request", 1, "post", 0, FALSE), Body("request", 1, FALSE), Body("request", 1, TRUE),
     Head1("response", 1, "ok", 0, FALSE), Body("response", 1, FALSE),
     Head1("request", 3, "post", 1, TRUE), Head1("response", 3, "ok", 1, FALSE),
     Body("response", 1, TRUE), Body("response", 3, TRUE) >>

\* Headers in three frames; an answer that is complete JSON before its trailers.
Gemini ==
  << Begun("request", 1, "generate", FALSE), More("request", 1, FALSE), More("request", 1, TRUE),
     Body("request", 1, TRUE), Head1("response", 1, "ok", 0, FALSE), Body("response", 1, FALSE),
     AllJson("response", 1, FALSE), Head1("response", 1, "trailers", 0, TRUE) >>

\* Continued headers that end the stream; more body than there is room for.
Download ==
  << Begun("request", 1, "get", TRUE), More("request", 1, TRUE),
     Head1("response", 1, "file", 0, FALSE), Body("response", 1, FALSE),
     Body("response", 1, FALSE), Body("response", 1, TRUE) >>

\* Their headers; frames without any have "".
MCValues == {"", "post", "generate", "get", "ok", "file", "trailers"}

On(threads, frames) == [threads |-> threads, frames |-> frames]

\* One connection; two on threads of their own; two on one thread; and one
\* that changes threads, among them that of the other.
MCHttp2 ==
  {[x |-> On({1}, Chat), y |-> On({2}, << >>)],
   [x |-> On({1}, Chat), y |-> On({2}, Gemini)],
   [x |-> On({1}, Gemini), y |-> On({1}, Download)],
   [x |-> On({1, 2}, Download), y |-> On({1}, Chat)]}
=============================================================================
