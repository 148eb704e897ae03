------------------------- MODULE ReassemblyProofs -------------------------
(***************************************************************************)
(* What the accumulators and the merged events hold, for any threads,      *)
(* messages, chunks and timestamps, any timeout and any limit; what the    *)
(* messages of an HTTP/2 stream hold, for any connections and frames.      *)
(***************************************************************************)
EXTENDS
  Reassembly, FiniteSetTheorems, SequenceTheorems, WellFoundedInduction, TLAPS

Streams == UNION {t.streams : t \in Traffics}

MessageTypes == [stream : Streams, script : Seq(Kinds), sent : Nat]

Shape ==
  /\ traffic \in Traffics /\ now \in Nat /\ messages \in Seq(MessageTypes)
  /\ \A m \in DOMAIN messages :
       messages[m].script \in traffic.scripts /\ messages[m].sent <= Len(messages[m].script)

Accumulators ==
  /\ IsFiniteSet(DOMAIN buffers) /\ Cardinality(DOMAIN buffers) <= MaxBuffers + 1
  /\ \A c \in DOMAIN buffers :
       /\ buffers[c].events \in Seq(Sent) \ {<<>>} /\ buffers[c].last \in 0 .. now
       /\ \A e \in Range(buffers[c].events) : ~Completes(e) /\ messages[e[1]].stream = c[1]

MergedEvents ==
  \A events \in merged :
    /\ events \in Seq(Sent) \ {<<>>}
    /\ \A d, e \in Range(events) : messages[d[1]].stream = messages[e[1]].stream

\* An event is in an accumulator, or merged, or dropped, and in no second place.
InOnePlace(e) ==
  /\ \A c, d \in DOMAIN buffers :
       e \in Range(buffers[c].events) /\ e \in Range(buffers[d].events) => c = d
  /\ \A x, y \in merged : e \in Range(x) /\ e \in Range(y) => x = y
  /\ \A c \in DOMAIN buffers, x \in merged : e \in Range(buffers[c].events) => e \notin Range(x)
  /\ e \in dropped => /\ \A c \in DOMAIN buffers : e \notin Range(buffers[c].events)
                      /\ \A x \in merged : e \notin Range(x)
  /\ \/ e \in dropped
     \/ \E c \in DOMAIN buffers : e \in Range(buffers[c].events)
     \/ \E x \in merged : e \in Range(x)

Tidy == /\ Shape /\ Accumulators /\ MergedEvents /\ dropped \subseteq Sent
        /\ \A e \in Sent : InOnePlace(e)

-----------------------------------------------------------------------------
\* The events that have been sent.
LEMMA SentHas ==
  ASSUME NEW e
  PROVE  e \in Sent <=> \E m \in DOMAIN messages : \E i \in 1 .. messages[m].sent : e = <<m, i>>
BY DEF Sent

\* Messages have the fields they have.
LEMMA MessageShape ==
  ASSUME Shape, NEW m \in DOMAIN messages
  PROVE  messages[m].sent \in Nat /\ messages[m].script \in Seq(Kinds) /\ m \in Nat
<1>1. messages \in Seq(MessageTypes)
  BY DEF Shape
<1>2. messages[m] \in MessageTypes /\ m \in Nat
  BY <1>1
<1> QED
  BY <1>2 DEF MessageTypes

\* What is said of an event that was sent stays true when messages are begun
\* and their events are sent.
Grow ==
  /\ traffic' = traffic /\ now' \in Nat /\ now <= now' /\ messages' \in Seq(MessageTypes)
  /\ DOMAIN messages \subseteq DOMAIN messages'
  /\ \A m \in DOMAIN messages : /\ messages'[m].stream = messages[m].stream
                                /\ messages'[m].script = messages[m].script
                                /\ messages[m].sent <= messages'[m].sent
  /\ \A m \in DOMAIN messages' : /\ messages'[m].script \in traffic.scripts
                                 /\ messages'[m].sent <= Len(messages'[m].script)

LEMMA GrowKeeps ==
  ASSUME Shape, Grow
  PROVE  /\ Shape' /\ Sent \subseteq Sent'
         /\ \A e \in Sent : /\ (Completes(e))' <=> Completes(e)
                            /\ Kind(e)' = Kind(e)
                            /\ messages'[e[1]].stream = messages[e[1]].stream
         /\ \A m \in DOMAIN messages : messages[m].sent \in Nat /\ messages'[m].sent \in Nat
<1>1. \A m \in DOMAIN messages : messages[m].sent \in Nat /\ messages'[m].sent \in Nat
  <2> SUFFICES ASSUME NEW m \in DOMAIN messages
               PROVE  messages[m].sent \in Nat /\ messages'[m].sent \in Nat
    OBVIOUS
  <2>1. messages[m].sent \in Nat
    BY MessageShape
  <2>2. messages'[m] \in MessageTypes
    <3>1. messages' \in Seq(MessageTypes) /\ m \in DOMAIN messages'
      BY DEF Grow
    <3> QED
      BY <3>1
  <2> QED
    BY <2>1, <2>2 DEF MessageTypes
<1>2. ASSUME NEW e \in Sent
      PROVE  /\ e \in Sent' /\ ((Completes(e))' <=> Completes(e)) /\ Kind(e)' = Kind(e)
             /\ messages'[e[1]].stream = messages[e[1]].stream
  <2>1. PICK m \in DOMAIN messages : \E i \in 1 .. messages[m].sent : e = <<m, i>>
    BY SentHas
  <2>2. PICK i \in 1 .. messages[m].sent : e = <<m, i>>
    BY <2>1
  <2>3. i \in 1 .. messages'[m].sent /\ m \in DOMAIN messages'
    BY <1>1 DEF Grow
  <2>4. e \in Sent'
    BY <2>2, <2>3 DEF Sent
  <2> QED
    BY <2>2, <2>4 DEF Grow, Completes, Kind
<1>3. Shape'
  BY DEF Shape, Grow
<1> QED
  BY <1>1, <1>2, <1>3

\* Accumulators and merged events that are left alone keep what is said of them.
LEMMA AccumulatorsStay ==
  ASSUME Shape, Accumulators, Grow, buffers' = buffers
  PROVE  Accumulators'
<1>1. ASSUME NEW c \in DOMAIN buffers
      PROVE  /\ buffers[c].events \in Seq(Sent') \ {<<>>} /\ buffers[c].last \in 0 .. now'
             /\ \A e \in Range(buffers[c].events) :
                  ~(Completes(e))' /\ messages'[e[1]].stream = c[1]
  <2>1. buffers[c].events \in Seq(Sent) \ {<<>>} /\ buffers[c].last \in 0 .. now
    BY DEF Accumulators
  <2>2. Range(buffers[c].events) \subseteq Sent
    BY <2>1, RangeOfSeq
  <2>3. buffers[c].events \in Seq(Sent')
    BY <2>1, GrowKeeps
  <2>4. buffers[c].last \in 0 .. now'
    BY <2>1 DEF Grow, Shape
  <2> QED
    BY <2>1, <2>2, <2>3, <2>4, GrowKeeps DEF Accumulators
<1> QED
  BY <1>1 DEF Accumulators

LEMMA MergedEventsStay ==
  ASSUME Shape, Grow, NEW x \in Seq(Sent) \ {<<>>},
         \A d, e \in Range(x) : messages[d[1]].stream = messages[e[1]].stream
  PROVE  /\ x \in Seq(Sent') \ {<<>>}
         /\ \A d, e \in Range(x) : messages'[d[1]].stream = messages'[e[1]].stream
<1>1. Range(x) \subseteq Sent
  BY RangeOfSeq
<1> QED
  BY <1>1, GrowKeeps

-----------------------------------------------------------------------------
\* The next n events of a message are sent.
Arrives(m, n) ==
  /\ messages[m].sent + n <= Len(messages[m].script)
  /\ messages' = [messages EXCEPT ![m].sent = @ + n]
  /\ UNCHANGED <<traffic, now>>

LEMMA ArrivingIsNew ==
  ASSUME Shape, NEW m \in DOMAIN messages, NEW n \in 1 .. Len(messages[m].script), Arrives(m, n)
  PROVE  LET new == Arriving(m, n) IN
           /\ Grow /\ new \in Seq(Sent') \ {<<>>} /\ Len(new) = n
           /\ Sent' = Sent \cup Range(new) /\ Range(new) \cap Sent = {}
           /\ \A e \in Range(new) : e[1] = m
           /\ \A i \in 1 .. n : new[i] = <<m, messages[m].sent + i>>
           /\ messages'[m].sent = messages[m].sent + n
           /\ \A k \in DOMAIN messages : k # m => messages'[k] = messages[k]
           /\ DOMAIN messages' = DOMAIN messages
<1> DEFINE sent == messages[m].sent
           new == Arriving(m, n)
           x == [messages[m] EXCEPT !.sent = sent + n]
<1>1. /\ messages \in Seq(MessageTypes) /\ messages[m] \in MessageTypes /\ m \in 1 .. Len(messages)
      /\ now \in Nat
  BY DEF Shape
<1>2. /\ sent \in Nat /\ n \in Nat /\ n >= 1 /\ messages[m].script \in Seq(Kinds)
  BY <1>1 DEF MessageTypes
<1>3. /\ x \in MessageTypes /\ x.stream = messages[m].stream /\ x.script = messages[m].script
      /\ x.sent = sent + n
  <2>1. PICK k \in Nat : k = sent + n
    BY <1>2
  <2>2. x = [messages[m] EXCEPT !.sent = k]
    BY <2>1
  <2>3. /\ x \in MessageTypes /\ x.sent = k
        /\ x.stream = messages[m].stream /\ x.script = messages[m].script
    BY <1>1, <2>2 DEF MessageTypes
  <2> QED
    BY <2>1, <2>3
<1>4. messages' = [messages EXCEPT ![m] = x]
  BY <1>1 DEF Arrives
<1> HIDE DEF x
<1>5. /\ messages' \in Seq(MessageTypes) /\ messages'[m] = x /\ DOMAIN messages' = DOMAIN messages
      /\ \A k \in DOMAIN messages : k # m => messages'[k] = messages[k]
  BY <1>1, <1>3, <1>4
<1>6. Grow
  <2>1. \A k \in DOMAIN messages : messages[k].sent \in Nat
    BY MessageShape
  <2>2. \A k \in DOMAIN messages : /\ messages'[k].stream = messages[k].stream
                                   /\ messages'[k].script = messages[k].script
                                   /\ messages[k].sent <= messages'[k].sent
    BY <1>2, <1>3, <1>5, <2>1
  <2>3. \A k \in DOMAIN messages' : messages'[k].script \in traffic.scripts
                                    /\ messages'[k].sent <= Len(messages'[k].script)
    BY <1>3, <1>5 DEF Shape, Arrives
  <2> QED
    BY <1>1, <1>5, <2>2, <2>3 DEF Grow, Arrives
<1>7. Len(new) = n /\ DOMAIN new = 1 .. n /\ \A i \in 1 .. n : new[i] = <<m, sent + i>>
  BY <1>2 DEF Arriving
<1> HIDE DEF new
<1>8. \A e : e \in Range(new) <=> \E i \in 1 .. n : e = <<m, sent + i>>
  BY <1>7 DEF Range
<1>9. ASSUME NEW e
      PROVE  e \in Sent' <=> e \in Sent \/ e \in Range(new)
  <2>1. e \in Sent' <=> \E k \in DOMAIN messages : \E i \in 1 .. messages'[k].sent : e = <<k, i>>
    BY <1>5 DEF Sent
  <2>2. e \in Sent <=> \E k \in DOMAIN messages : \E i \in 1 .. messages[k].sent : e = <<k, i>>
    BY SentHas
  <2>3. ASSUME NEW i
        PROVE  i \in 1 .. messages'[m].sent <=> i \in 1 .. sent \/ \E j \in 1 .. n : i = sent + j
    <3>1. messages'[m].sent = sent + n
      BY <1>3, <1>5
    <3>2. i \in 1 .. sent + n => i \in 1 .. sent \/ (i - sent \in 1 .. n /\ i = sent + (i - sent))
      BY <1>2
    <3>3. \A j \in 1 .. n : sent + j \in 1 .. sent + n
      BY <1>2
    <3>4. i \in 1 .. sent => i \in 1 .. sent + n
      BY <1>2
    <3> QED
      BY <3>1, <3>2, <3>3, <3>4
  <2>4. CASE e \in Sent'
    <3>1. PICK k \in DOMAIN messages : \E i \in 1 .. messages'[k].sent : e = <<k, i>>
      BY <2>1, <2>4
    <3>2. PICK i \in 1 .. messages'[k].sent : e = <<k, i>>
      BY <3>1
    <3>3. CASE k = m
      BY <1>8, <2>2, <2>3, <2>4, <3>2, <3>3
    <3>4. CASE k # m
      BY <1>5, <2>2, <2>4, <3>2, <3>4
    <3> QED
      BY <3>3, <3>4
  <2>5. CASE e \in Sent \/ e \in Range(new)
    BY <1>5, <1>8, <2>1, <2>2, <2>3, <2>5
  <2> QED
    BY <2>4, <2>5
<1>10. Range(new) \cap Sent = {}
  <2> SUFFICES ASSUME NEW i \in 1 .. n, <<m, sent + i>> \in Sent
               PROVE  FALSE
    BY <1>8
  <2>1. PICK k \in DOMAIN messages : \E j \in 1 .. messages[k].sent : <<m, sent + i>> = <<k, j>>
    BY SentHas
  <2>2. sent + i \in 1 .. sent
    BY <2>1
  <2> QED
    BY <1>2, <2>2
<1>11. Sent' = Sent \cup Range(new)
  BY <1>9
<1>12. new \in Seq(Sent') \ {<<>>}
  <2>1. \A i \in 1 .. n : new[i] \in Sent'
    BY <1>7, <1>8, <1>11
  <2>2. new \in Seq(Sent')
    <3>1. new = [i \in 1 .. n |-> new[i]]
      BY DEF new, Arriving
    <3> QED
      BY <1>2, <2>1, <3>1
  <2> QED
    BY <1>2, <1>7, <2>2
<1>13. \A e \in Range(new) : e[1] = m
  BY <1>8
<1> QED
  BY <1>3, <1>5, <1>6, <1>7, <1>10, <1>11, <1>12, <1>13 DEF new

\* The accumulators that a chunk leaves are fresh, and fewer than the limit allows.
LEMMA KeptAreFresh ==
  ASSUME IsFiniteSet(DOMAIN buffers), NEW time, NEW kept \in Kept(Fresh(time))
  PROVE  /\ kept \subseteq DOMAIN buffers /\ IsFiniteSet(kept) /\ Cardinality(kept) <= MaxBuffers
         /\ \A c \in kept : time <= buffers[c].last + Timeout
<1>1. Fresh(time) \subseteq DOMAIN buffers
  BY DEF Fresh
<1>2. IsFiniteSet(Fresh(time))
  BY <1>1, FS_Subset
<1>3. kept \subseteq Fresh(time) /\ Cardinality(kept) <= MaxBuffers
  <2>1. CASE Cardinality(Fresh(time)) <= MaxBuffers
    BY <2>1 DEF Kept
  <2>2. CASE ~(Cardinality(Fresh(time)) <= MaxBuffers)
    <3>1. kept \in SUBSET Fresh(time) /\ Cardinality(kept) = MaxBuffers
      BY <2>2 DEF Kept, kSubset
    <3> QED
      BY <3>1, SseAssumption
  <2> QED
    BY <2>1, <2>2
<1> QED
  BY <1>1, <1>2, <1>3, FS_Subset DEF Fresh

-----------------------------------------------------------------------------
\* All events are where they should be only if they have been sent.
LEMMA PlacesAreSent ==
  ASSUME Tidy, NEW e, e \notin Sent
  PROVE  /\ \A c \in DOMAIN buffers : e \notin Range(buffers[c].events)
         /\ \A x \in merged : e \notin Range(x)
         /\ e \notin dropped
<1>1. \A c \in DOMAIN buffers : Range(buffers[c].events) \subseteq Sent
  BY RangeOfSeq DEF Tidy, Accumulators
<1>2. \A x \in merged : Range(x) \subseteq Sent
  BY RangeOfSeq DEF Tidy, MergedEvents
<1> QED
  BY <1>1, <1>2 DEF Tidy

\* What the accumulator of a chunk holds: what it held, if it is kept, and the chunk.
Takes(kept, c, acc, new) ==
  /\ kept \subseteq DOMAIN buffers
  /\ \A e : e \in Range(acc.events) <=>
              (c \in kept /\ e \in Range(buffers[c].events)) \/ e \in Range(new)

\* The events of the accumulators that a chunk finds too old or too many.
LEMMA GoneAre ==
  ASSUME NEW kept, NEW e
  PROVE  e \in EventsOf(DOMAIN buffers \ kept) <=>
           \E d \in DOMAIN buffers : d \notin kept /\ e \in Range(buffers[d].events)
BY DEF EventsOf

\* Events stay in one place when the accumulator is stored,
LEMMA OnePlaceByStore ==
  ASSUME Tidy, NEW kept, NEW c, NEW acc, NEW new, Takes(kept, c, acc, new),
         Range(new) \cap Sent = {}, Sent' = Sent \cup Range(new),
         Store(kept, c, acc), dropped' = dropped \cup EventsOf(DOMAIN buffers \ kept)
  PROVE  \A e \in Sent' : InOnePlace(e)'
<1>1. /\ DOMAIN buffers' = kept \cup {c} /\ buffers'[c] = acc /\ merged' = merged
      /\ \A d \in kept : d # c => buffers'[d] = buffers[d]
  BY DEF Store
<1>2. \A e : e \in dropped' <=>
        e \in dropped \/ \E d \in DOMAIN buffers : d \notin kept /\ e \in Range(buffers[d].events)
  BY GoneAre
<1>3. ASSUME NEW e \in Sent
      PROVE  InOnePlace(e)'
  <2>1. e \notin Range(new) /\ InOnePlace(e)
    BY DEF Tidy
  <2>2. \A d \in kept \cup {c} :
          e \in Range(buffers'[d].events) <=> d \in kept /\ e \in Range(buffers[d].events)
    BY <1>1, <2>1 DEF Takes
  <2> QED
    BY <1>1, <1>2, <2>1, <2>2 DEF InOnePlace, Takes
<1>4. ASSUME NEW e \in Range(new)
      PROVE  InOnePlace(e)'
  <2>1. /\ \A d \in DOMAIN buffers : e \notin Range(buffers[d].events)
        /\ \A x \in merged : e \notin Range(x)
        /\ e \notin dropped
    BY PlacesAreSent
  <2>2. \A d \in kept \cup {c} : e \in Range(buffers'[d].events) <=> d = c
    BY <1>1, <2>1 DEF Takes
  <2> QED
    BY <1>1, <1>2, <2>1, <2>2 DEF InOnePlace, Takes
<1> QED
  BY <1>3, <1>4

\* when it is complete and merged,
LEMMA OnePlaceByMerging ==
  ASSUME Tidy, NEW kept, NEW c, NEW acc, NEW new, Takes(kept, c, acc, new),
         Range(new) \cap Sent = {}, Sent' = Sent \cup Range(new),
         buffers' = [d \in kept \ {c} |-> buffers[d]], merged' = merged \cup {acc.events},
         dropped' = dropped \cup EventsOf(DOMAIN buffers \ kept)
  PROVE  \A e \in Sent' : InOnePlace(e)'
<1>1. /\ DOMAIN buffers' = kept \ {c}
      /\ \A d \in kept : d # c => buffers'[d] = buffers[d]
  OBVIOUS
<1>2. \A e : e \in dropped' <=>
        e \in dropped \/ \E d \in DOMAIN buffers : d \notin kept /\ e \in Range(buffers[d].events)
  BY GoneAre
<1>3. ASSUME NEW e \in Sent
      PROVE  InOnePlace(e)'
  <2>1. e \notin Range(new) /\ InOnePlace(e)
    BY DEF Tidy
  <2>2. e \in Range(acc.events) <=> c \in kept /\ e \in Range(buffers[c].events)
    BY <2>1 DEF Takes
  <2>3. CASE c \in kept /\ e \in Range(buffers[c].events)
    <3>1. /\ \A d \in DOMAIN buffers : d # c => e \notin Range(buffers[d].events)
          /\ \A x \in merged : e \notin Range(x)
          /\ e \notin dropped
      BY <2>1, <2>3 DEF InOnePlace, Takes
    <3> QED
      BY <1>1, <1>2, <2>2, <2>3, <3>1 DEF InOnePlace, Takes
  <2>4. CASE ~(c \in kept /\ e \in Range(buffers[c].events))
    <3>1. e \notin Range(acc.events)
      BY <2>2, <2>4
    <3>2. \A x \in merged' : e \in Range(x) => x \in merged
      BY <3>1
    <3>3. \A d \in DOMAIN buffers' : d \in DOMAIN buffers /\ buffers'[d] = buffers[d]
      BY <1>1 DEF Takes
    <3>4. \A d \in DOMAIN buffers : d \in DOMAIN buffers' \/ d \notin kept
                                    \/ e \notin Range(buffers[d].events)
      BY <1>1, <2>4
    <3>5. merged \subseteq merged'
      OBVIOUS
    <3>6. \A d \in DOMAIN buffers' :
            e \in Range(buffers'[d].events) <=> e \in Range(buffers[d].events)
      BY <3>3
    <3>7. e \in dropped' => /\ \A d \in DOMAIN buffers' : e \notin Range(buffers'[d].events)
                           /\ \A x \in merged' : e \notin Range(x)
      <4>1. DOMAIN buffers' \subseteq kept
        BY <1>1
      <4>2. CASE e \in dropped
        BY <2>1, <3>2, <3>3, <4>2 DEF InOnePlace
      <4>3. ASSUME NEW b \in DOMAIN buffers, b \notin kept, e \in Range(buffers[b].events)
            PROVE  /\ \A d \in DOMAIN buffers' : e \notin Range(buffers'[d].events)
                   /\ \A x \in merged' : e \notin Range(x)
        <5>1. /\ \A d \in DOMAIN buffers : e \in Range(buffers[d].events) => d = b
              /\ \A x \in merged : e \notin Range(x)
          BY <2>1, <4>3 DEF InOnePlace
        <5> QED
          BY <3>2, <3>3, <4>1, <4>3, <5>1
      <4> QED
        BY <1>2, <4>2, <4>3
    <3>8. \/ e \in dropped'
          \/ \E d \in DOMAIN buffers' : e \in Range(buffers'[d].events)
          \/ \E x \in merged' : e \in Range(x)
      BY <1>2, <2>1, <3>4, <3>5, <3>6 DEF InOnePlace
    <3>9. /\ \A b, d \in DOMAIN buffers' :
               e \in Range(buffers'[b].events) /\ e \in Range(buffers'[d].events) => b = d
          /\ \A x, y \in merged' : e \in Range(x) /\ e \in Range(y) => x = y
          /\ \A d \in DOMAIN buffers', x \in merged' :
               e \in Range(buffers'[d].events) => e \notin Range(x)
      BY <2>1, <3>2, <3>3, <3>6 DEF InOnePlace
    <3> QED
      BY <3>7, <3>8, <3>9 DEF InOnePlace
  <2> QED
    BY <2>3, <2>4
<1>4. ASSUME NEW e \in Range(new)
      PROVE  InOnePlace(e)'
  <2>1. /\ \A d \in DOMAIN buffers : e \notin Range(buffers[d].events)
        /\ \A x \in merged : e \notin Range(x)
        /\ e \notin dropped /\ e \in Range(acc.events)
    BY PlacesAreSent DEF Takes
  <2> QED
    BY <1>1, <1>2, <2>1 DEF InOnePlace, Takes
<1> QED
  BY <1>3, <1>4

\* and when it is complete without content.
LEMMA OnePlaceByDropping ==
  ASSUME Tidy, NEW kept, NEW c, NEW acc, NEW new, Takes(kept, c, acc, new),
         Range(new) \cap Sent = {}, Sent' = Sent \cup Range(new),
         buffers' = [d \in kept \ {c} |-> buffers[d]], merged' = merged,
         dropped' = dropped \cup EventsOf(DOMAIN buffers \ kept) \cup Range(acc.events)
  PROVE  \A e \in Sent' : InOnePlace(e)'
<1>1. /\ DOMAIN buffers' = kept \ {c}
      /\ \A d \in kept : d # c => buffers'[d] = buffers[d]
  OBVIOUS
<1>2. \A e : e \in dropped' <=>
        \/ e \in dropped \/ e \in Range(acc.events)
        \/ \E d \in DOMAIN buffers : d \notin kept /\ e \in Range(buffers[d].events)
  BY GoneAre
<1>3. ASSUME NEW e \in Sent
      PROVE  InOnePlace(e)'
  <2>1. e \notin Range(new) /\ InOnePlace(e)
    BY DEF Tidy
  <2>2. e \in Range(acc.events) <=> c \in kept /\ e \in Range(buffers[c].events)
    BY <2>1 DEF Takes
  <2> QED
    BY <1>1, <1>2, <2>1, <2>2 DEF InOnePlace, Takes
<1>4. ASSUME NEW e \in Range(new)
      PROVE  InOnePlace(e)'
  <2>1. /\ \A d \in DOMAIN buffers : e \notin Range(buffers[d].events)
        /\ \A x \in merged : e \notin Range(x)
        /\ e \notin dropped /\ e \in Range(acc.events)
    BY PlacesAreSent DEF Takes
  <2> QED
    BY <1>1, <1>2, <2>1 DEF InOnePlace, Takes
<1> QED
  BY <1>3, <1>4

-----------------------------------------------------------------------------
\* A chunk is skipped,
Skipped(m, new) ==
  /\ Skippable(new) /\ ConnectionId(messages[m].stream, m, new) \notin DOMAIN buffers
  /\ buffers' = buffers /\ merged' = merged /\ dropped' = dropped \cup Range(new)

\* or it joins an accumulator, or starts one,
Joins(m, new, time, kept, c, acc) ==
  /\ ~Skippable(new) \/ ConnectionId(messages[m].stream, m, new) \in DOMAIN buffers
  /\ Takes(kept, c, acc, new) /\ IsFiniteSet(kept) /\ Cardinality(kept) <= MaxBuffers
  /\ \A d \in kept : time <= buffers[d].last + Timeout
  /\ c \in Targets(kept, messages[m].stream, ConnectionId(messages[m].stream, m, new))
  /\ c[1] = messages[m].stream
  /\ acc.events \in Seq(Sent') \ {<<>>} /\ acc.last = time
  /\ acc.events = (IF c \in kept THEN buffers[c].events ELSE <<>>) \o new

\* which is merged, or is complete without content, or waits.
Merges(kept, c, acc) ==
  /\ \E e \in Range(acc.events) : Completes(e)
  /\ Meaningful(acc.events)
  /\ buffers' = [d \in kept \ {c} |-> buffers[d]] /\ merged' = merged \cup {acc.events}
  /\ dropped' = dropped \cup EventsOf(DOMAIN buffers \ kept)

Drops(kept, c, acc) ==
  /\ \E e \in Range(acc.events) : Completes(e)
  /\ ~Meaningful(acc.events)
  /\ buffers' = [d \in kept \ {c} |-> buffers[d]] /\ merged' = merged
  /\ dropped' = dropped \cup EventsOf(DOMAIN buffers \ kept) \cup Range(acc.events)

Waits(kept, c, acc) ==
  /\ \A e \in Range(acc.events) : ~Completes(e)
  /\ Store(kept, c, acc) /\ dropped' = dropped \cup EventsOf(DOMAIN buffers \ kept)

LEMMA ChunkOutcomes ==
  ASSUME Tidy, NEW m \in DOMAIN messages, NEW n \in 1 .. Len(messages[m].script), Arrives(m, n),
         NEW time, Process(m, Arriving(m, n), time)
  PROVE  LET new == Arriving(m, n) IN
           \/ Skipped(m, new)
           \/ \E kept, c, acc : /\ Joins(m, new, time, kept, c, acc)
                                /\ \/ Merges(kept, c, acc)
                                   \/ Drops(kept, c, acc) \/ Waits(kept, c, acc)
<1> DEFINE new == Arriving(m, n)
           s == messages[m].stream
           id == ConnectionId(s, m, new)
<1>1. new \in Seq(Sent') \ {<<>>} /\ Sent \subseteq Sent'
  BY ArrivingIsNew, GrowKeeps DEF Tidy
<1> HIDE DEF new
<1>2. id[1] = s
  BY DEF ConnectionId
<1> HIDE DEF id
<1>3. CASE Skippable(new) /\ id \notin DOMAIN buffers
  BY <1>3 DEF Process, Skipped, new, id
<1>4. CASE ~(Skippable(new) /\ id \notin DOMAIN buffers)
  <2>1. PICK kept \in Kept(Fresh(time)) : \E c \in Targets(kept, s, id) :
              LET before == IF c \in kept THEN buffers[c].events ELSE <<>>
                  acc    == [events |-> before \o new, last |-> time]
                  gone   == EventsOf(DOMAIN buffers \ kept)
              IN  IF \E i \in DOMAIN acc.events : Completes(acc.events[i])
                    THEN /\ Emit(kept, c, acc)
                         /\ dropped' = dropped \cup gone \cup
                              (IF Meaningful(acc.events) THEN {} ELSE Range(acc.events))
                    ELSE /\ Store(kept, c, acc)
                         /\ dropped' = dropped \cup gone
    BY <1>4 DEF Process, new, id
  <2>2. PICK c \in Targets(kept, s, id) :
              LET before == IF c \in kept THEN buffers[c].events ELSE <<>>
                  acc    == [events |-> before \o new, last |-> time]
                  gone   == EventsOf(DOMAIN buffers \ kept)
              IN  IF \E i \in DOMAIN acc.events : Completes(acc.events[i])
                    THEN /\ Emit(kept, c, acc)
                         /\ dropped' = dropped \cup gone \cup
                              (IF Meaningful(acc.events) THEN {} ELSE Range(acc.events))
                    ELSE /\ Store(kept, c, acc)
                         /\ dropped' = dropped \cup gone
    BY <2>1
  <2> DEFINE before == IF c \in kept THEN buffers[c].events ELSE <<>>
             acc == [events |-> before \o new, last |-> time]
             gone == EventsOf(DOMAIN buffers \ kept)
  <2>3. /\ kept \subseteq DOMAIN buffers /\ IsFiniteSet(kept) /\ Cardinality(kept) <= MaxBuffers
        /\ \A d \in kept : time <= buffers[d].last + Timeout
    BY KeptAreFresh DEF Tidy, Accumulators
  <2>4. c[1] = s
    BY <1>2 DEF Targets
  <2>5. before \in Seq(Sent')
    <3>1. CASE c \in kept
      <4>1. buffers[c].events \in Seq(Sent)
        BY <2>3, <3>1 DEF Tidy, Accumulators
      <4> QED
        BY <1>1, <3>1, <4>1
    <3>2. CASE c \notin kept
      BY <3>2
    <3> QED
      BY <3>1, <3>2
  <2>6. Range(before) = IF c \in kept THEN Range(buffers[c].events) ELSE {}
    BY DEF Range
  <2> HIDE DEF before
  <2>7. /\ acc.events \in Seq(Sent') /\ Range(acc.events) = Range(before) \cup Range(new)
        /\ acc.events # <<>>
    <3>1. before \o new \in Seq(Sent') /\ Len(before \o new) = Len(before) + Len(new)
      BY <1>1, <2>5, ConcatProperties
    <3>2. Range(before \o new) = Range(before) \cup Range(new)
      BY <1>1, <2>5, RangeConcatenation
    <3>3. Len(before) \in Nat /\ Len(new) \in Nat /\ Len(new) # 0
      BY <1>1, <2>5
    <3>4. before \o new # <<>>
      BY <3>1, <3>3
    <3> QED
      BY <3>1, <3>2, <3>4
  <2>8. acc.last = time /\ acc.events = before \o new
    OBVIOUS
  <2>9. IF \E i \in DOMAIN acc.events : Completes(acc.events[i])
                    THEN /\ Emit(kept, c, acc)
                         /\ dropped' = dropped \cup gone \cup
                              (IF Meaningful(acc.events) THEN {} ELSE Range(acc.events))
                    ELSE /\ Store(kept, c, acc)
                         /\ dropped' = dropped \cup gone
    BY <2>2 DEF before
  <2> HIDE DEF acc
  <2>10. Joins(m, new, time, kept, c, acc)
    BY <1>4, <2>3, <2>4, <2>6, <2>7, <2>8 DEF Joins, Takes, before, id
  <2>11. (\E i \in DOMAIN acc.events : Completes(acc.events[i]))
            <=> \E e \in Range(acc.events) : Completes(e)
    BY DEF Range
  <2>12. Merges(kept, c, acc) \/ Drops(kept, c, acc) \/ Waits(kept, c, acc)
    BY <2>9, <2>11 DEF Merges, Drops, Waits, Emit
  <2> QED
    BY <2>10, <2>12 DEF new
<1> QED
  BY <1>3, <1>4

-----------------------------------------------------------------------------
\* A chunk changes what is sent, not what is said of its events.
LEMMA ChunkKeeps ==
  ASSUME Grow, DOMAIN messages' = DOMAIN messages, NEW e \in Sent'
  PROVE  /\ ((Completes(e))' <=> Completes(e)) /\ Kind(e)' = Kind(e)
         /\ messages'[e[1]].stream = messages[e[1]].stream
<1>1. PICK m \in DOMAIN messages' : \E i \in 1 .. messages'[m].sent : e = <<m, i>>
  BY DEF Sent
<1>2. e[1] = m
  BY <1>1
<1> QED
  BY <1>1, <1>2 DEF Grow, Completes, Kind

\* The accumulators are as they should be after a chunk,
LEMMA AccumulatorsByChunk ==
  ASSUME Tidy, NEW m \in DOMAIN messages, NEW n \in 1 .. Len(messages[m].script), Arrives(m, n),
         NEW time \in 0 .. now, NEW kept, NEW c, NEW acc,
         Joins(m, Arriving(m, n), time, kept, c, acc),
         Merges(kept, c, acc) \/ Drops(kept, c, acc) \/ Waits(kept, c, acc)
  PROVE  Accumulators'
<1> DEFINE new == Arriving(m, n)
<1>1. /\ Grow /\ DOMAIN messages' = DOMAIN messages /\ Sent' = Sent \cup Range(new)
      /\ \A e \in Range(new) : e[1] = m
  BY ArrivingIsNew DEF Tidy
<1> HIDE DEF new
<1>2. /\ Takes(kept, c, acc, new) /\ IsFiniteSet(kept) /\ Cardinality(kept) <= MaxBuffers
      /\ c[1] = messages[m].stream /\ acc.events \in Seq(Sent') \ {<<>>} /\ acc.last = time
  BY DEF Joins, new
<1>3. /\ DOMAIN buffers' \subseteq kept \cup {c}
      /\ \A d \in kept : d # c => buffers'[d] = buffers[d]
      /\ c \in DOMAIN buffers' => buffers'[c] = acc /\ \A e \in Range(acc.events) : ~Completes(e)
  BY DEF Merges, Drops, Waits, Store
<1>4. IsFiniteSet(DOMAIN buffers') /\ Cardinality(DOMAIN buffers') <= MaxBuffers + 1
  <2>1. /\ IsFiniteSet(kept \cup {c})
        /\ Cardinality(kept \cup {c})
             = IF c \in kept THEN Cardinality(kept) ELSE Cardinality(kept) + 1
        /\ Cardinality(kept) \in Nat
    BY <1>2, FS_AddElement, FS_CardinalityType
  <2>2. IsFiniteSet(DOMAIN buffers') /\ Cardinality(DOMAIN buffers') <= Cardinality(kept \cup {c})
        /\ Cardinality(DOMAIN buffers') \in Nat
    BY <1>3, <2>1, FS_Subset, FS_CardinalityType
  <2> QED
    BY <1>2, <2>1, <2>2, SseAssumption
<1>5. ASSUME NEW d \in DOMAIN buffers'
      PROVE  /\ buffers'[d].events \in Seq(Sent') \ {<<>>} /\ buffers'[d].last \in 0 .. now'
             /\ \A e \in Range(buffers'[d].events) :
                  ~(Completes(e))' /\ messages'[e[1]].stream = d[1]
  <2>1. CASE d = c
    <3>1. Range(acc.events) \subseteq Sent' /\ now' = now
      BY <1>2, RangeOfSeq DEF Arrives
    <3>2. \A e \in Range(acc.events) : messages[e[1]].stream = c[1]
      BY <1>1, <1>2 DEF Takes, Tidy, Accumulators
    <3> QED
      BY <1>1, <1>2, <1>3, <2>1, <3>1, <3>2, ChunkKeeps
  <2>2. CASE d # c
    <3>1. d \in DOMAIN buffers /\ buffers'[d] = buffers[d]
      BY <1>2, <1>3, <2>2 DEF Takes
    <3>2. buffers[d].events \in Seq(Sent) \ {<<>>} /\ buffers[d].last \in 0 .. now
      BY <3>1 DEF Tidy, Accumulators
    <3>3. Range(buffers[d].events) \subseteq Sent
      BY <3>2, RangeOfSeq
    <3>4. buffers[d].events \in Seq(Sent') \ {<<>>} /\ buffers[d].last \in 0 .. now'
      BY <1>1, <3>2 DEF Arrives
    <3> QED
      BY <1>1, <3>1, <3>3, <3>4, GrowKeeps DEF Tidy, Accumulators
  <2> QED
    BY <2>1, <2>2
<1> QED
  BY <1>4, <1>5 DEF Accumulators

\* and so are the merged events.
LEMMA MergedByChunk ==
  ASSUME Tidy, NEW m \in DOMAIN messages, NEW n \in 1 .. Len(messages[m].script), Arrives(m, n),
         NEW time \in 0 .. now, NEW kept, NEW c, NEW acc,
         Joins(m, Arriving(m, n), time, kept, c, acc),
         Merges(kept, c, acc) \/ Drops(kept, c, acc) \/ Waits(kept, c, acc)
  PROVE  MergedEvents'
<1> DEFINE new == Arriving(m, n)
<1>1. /\ Grow /\ DOMAIN messages' = DOMAIN messages /\ Sent' = Sent \cup Range(new)
      /\ \A e \in Range(new) : e[1] = m
  BY ArrivingIsNew DEF Tidy
<1> HIDE DEF new
<1>2. /\ Takes(kept, c, acc, new) /\ c[1] = messages[m].stream /\ acc.events \in Seq(Sent') \ {<<>>}
  BY DEF Joins, new
<1>3. merged' \subseteq merged \cup {acc.events}
  BY DEF Merges, Drops, Waits, Store
<1>4. \A x \in merged : /\ x \in Seq(Sent') \ {<<>>}
                        /\ \A d, e \in Range(x) : messages'[d[1]].stream = messages'[e[1]].stream
  BY <1>1, MergedEventsStay DEF Tidy, MergedEvents
<1>5. \A e \in Range(acc.events) : messages'[e[1]].stream = c[1]
  <2>1. \A e \in Range(acc.events) : messages[e[1]].stream = c[1]
    BY <1>1, <1>2 DEF Takes, Tidy, Accumulators
  <2>2. Range(acc.events) \subseteq Sent'
    BY <1>2, RangeOfSeq
  <2> QED
    BY <1>1, <2>1, <2>2, ChunkKeeps
<1> QED
  BY <1>2, <1>3, <1>4, <1>5 DEF MergedEvents

\* All of it stays when a chunk arrives,
LEMMA TidyByChunk ==
  ASSUME Tidy, NEW m \in DOMAIN messages, NEW n \in 1 .. Len(messages[m].script),
         NEW time \in 0 .. now, Chunk(m, n, time)
  PROVE  Tidy'
<1> DEFINE new == Arriving(m, n)
<1>1. Arrives(m, n) /\ Process(m, Arriving(m, n), time)
  BY DEF Chunk, Arrives
<1>2. /\ Grow /\ Sent' = Sent \cup Range(new) /\ Range(new) \cap Sent = {} /\ Shape'
  BY <1>1, ArrivingIsNew, GrowKeeps DEF Tidy
<1> HIDE DEF new
<1>3. \/ Skipped(m, new)
      \/ \E kept, c, acc : /\ Joins(m, new, time, kept, c, acc)
                           /\ Merges(kept, c, acc) \/ Drops(kept, c, acc) \/ Waits(kept, c, acc)
  BY <1>1, ChunkOutcomes DEF new
<1>4. CASE Skipped(m, new)
  <2>1. buffers' = buffers /\ merged' = merged /\ dropped' = dropped \cup Range(new)
    BY <1>4 DEF Skipped
  <2>2. Accumulators' /\ MergedEvents' /\ dropped' \subseteq Sent'
    BY <1>2, <2>1, AccumulatorsStay, MergedEventsStay DEF Tidy, MergedEvents
  <2>3. \A e \in Sent' : InOnePlace(e)'
    <3>1. \A e \in Sent : e \notin Range(new) /\ InOnePlace(e)
      BY <1>2 DEF Tidy
    <3>2. \A e \in Range(new) : /\ \A d \in DOMAIN buffers : e \notin Range(buffers[d].events)
                                /\ \A x \in merged : e \notin Range(x)
      BY <1>2, PlacesAreSent
    <3> QED
      BY <1>2, <2>1, <3>1, <3>2 DEF InOnePlace
  <2> QED
    BY <1>2, <2>2, <2>3 DEF Tidy
<1>5. ASSUME NEW kept, NEW c, NEW acc, Joins(m, new, time, kept, c, acc),
             Merges(kept, c, acc) \/ Drops(kept, c, acc) \/ Waits(kept, c, acc)
      PROVE  Tidy'
  <2>1. Accumulators' /\ MergedEvents'
    BY <1>1, <1>5, AccumulatorsByChunk, MergedByChunk DEF new
  <2>2. Takes(kept, c, acc, new) /\ Range(acc.events) \subseteq Sent'
    BY <1>5, RangeOfSeq DEF Joins
  <2>3. \A e \in Sent' : InOnePlace(e)'
    BY <1>2, <1>5, <2>2, OnePlaceByStore, OnePlaceByMerging, OnePlaceByDropping
       DEF Merges, Drops, Waits
  <2>4. dropped' \subseteq Sent'
    <3>1. EventsOf(DOMAIN buffers \ kept) \subseteq Sent
      <4>1. \A d \in DOMAIN buffers : Range(buffers[d].events) \subseteq Sent
        BY RangeOfSeq DEF Tidy, Accumulators
      <4> QED
        BY <4>1 DEF EventsOf
    <3> QED
      BY <1>2, <1>5, <2>2, <3>1 DEF Tidy, Merges, Drops, Waits
  <2> QED
    BY <1>2, <2>1, <2>3, <2>4 DEF Tidy
<1> QED
  BY <1>3, <1>4, <1>5

\* when one is lost,
LEMMA TidyByLose ==
  ASSUME Tidy, NEW m \in DOMAIN messages, NEW n \in 1 .. Len(messages[m].script), Lose(m, n)
  PROVE  Tidy'
<1> DEFINE new == Arriving(m, n)
<1>1. Arrives(m, n) /\ buffers' = buffers /\ merged' = merged /\ dropped' = dropped \cup Range(new)
  BY DEF Lose, Arrives
<1>2. /\ Grow /\ Sent' = Sent \cup Range(new) /\ Range(new) \cap Sent = {} /\ Shape'
  BY <1>1, ArrivingIsNew, GrowKeeps DEF Tidy
<1> HIDE DEF new
<1>3. Accumulators' /\ MergedEvents' /\ dropped' \subseteq Sent'
  BY <1>1, <1>2, AccumulatorsStay, MergedEventsStay DEF Tidy, MergedEvents
<1>4. \A e \in Sent' : InOnePlace(e)'
  <2>1. \A e \in Sent : e \notin Range(new) /\ InOnePlace(e)
    BY <1>2 DEF Tidy
  <2>2. \A e \in Range(new) : /\ \A d \in DOMAIN buffers : e \notin Range(buffers[d].events)
                              /\ \A x \in merged : e \notin Range(x)
    BY <1>2, PlacesAreSent
  <2> QED
    BY <1>1, <1>2, <2>1, <2>2 DEF InOnePlace
<1> QED
  BY <1>2, <1>3, <1>4 DEF Tidy

\* A message is begun.
LEMMA BeginGrows ==
  ASSUME Shape, NEW s \in traffic.streams, NEW script \in traffic.scripts, Begin(s, script)
  PROVE  LET m == Len(messages) + 1 IN
           /\ Grow /\ Sent' = Sent /\ DOMAIN messages' = DOMAIN messages \cup {m}
           /\ m \notin DOMAIN messages /\ m # Window
           /\ messages'[m] = [stream |-> s, script |-> script, sent |-> 0]
           /\ \A k \in DOMAIN messages : messages'[k] = messages[k]
<1> DEFINE m == Len(messages) + 1
           x == [stream |-> s, script |-> script, sent |-> 0]
<1>1. messages \in Seq(MessageTypes) /\ now \in Nat /\ traffic \in Traffics
  BY DEF Shape
<1>2. x \in MessageTypes /\ x.sent = 0 /\ x.script = script /\ script \in Seq(Kinds)
  <2>1. s \in Streams /\ script \in Seq(Kinds)
    BY <1>1, SseAssumption DEF Streams
  <2> QED
    BY <2>1 DEF MessageTypes
<1> HIDE DEF x
<1>3. /\ messages' \in Seq(MessageTypes) /\ DOMAIN messages' = DOMAIN messages \cup {m}
      /\ m \notin DOMAIN messages /\ m # Window /\ messages'[m] = x
      /\ \A k \in DOMAIN messages : messages'[k] = messages[k]
  <2>1. messages' = Append(messages, x)
    BY DEF Begin, x
  <2>2. /\ messages' \in Seq(MessageTypes) /\ Len(messages') = Len(messages) + 1 /\ messages'[m] = x
        /\ \A k \in 1 .. Len(messages) : messages'[k] = messages[k]
        /\ Len(messages) \in Nat
    BY <1>1, <1>2, <2>1
  <2>3. DOMAIN messages = 1 .. Len(messages) /\ DOMAIN messages' = 1 .. Len(messages')
    BY <1>1, <2>2
  <2> QED
    BY <2>2, <2>3 DEF Window
<1>4. \A k \in DOMAIN messages : messages[k].sent \in Nat
  BY MessageShape
<1>5. Grow
  <2>1. Len(script) \in Nat
    BY <1>2
  <2>2. \A k \in DOMAIN messages' : /\ messages'[k].script \in traffic.scripts
                                    /\ messages'[k].sent <= Len(messages'[k].script)
    BY <1>2, <1>3, <2>1 DEF Shape
  <2>3. traffic' = traffic /\ now' = now
    BY DEF Begin
  <2> QED
    BY <1>1, <1>3, <1>4, <2>2, <2>3 DEF Grow
<1>6. Sent' = Sent
  <2>1. \A e : e \in Sent' <=>
          \E k \in DOMAIN messages' : \E i \in 1 .. messages'[k].sent : e = <<k, i>>
    BY DEF Sent
  <2>2. \A e : e \in Sent <=>
          \E k \in DOMAIN messages : \E i \in 1 .. messages[k].sent : e = <<k, i>>
    BY SentHas
  <2>3. \A i : i \notin 1 .. messages'[m].sent
    BY <1>2, <1>3
  <2>4. \A e : e \in Sent' <=> e \in Sent
    BY <1>3, <2>1, <2>2, <2>3
  <2> QED
    BY <2>4
<1> QED
  BY <1>3, <1>5, <1>6 DEF x

\* when a message is begun,
LEMMA TidyByBegin ==
  ASSUME Tidy, NEW s \in traffic.streams, NEW script \in traffic.scripts, Begin(s, script)
  PROVE  Tidy'
<1>1. Grow /\ Sent' = Sent /\ Shape'
  BY BeginGrows, GrowKeeps DEF Tidy
<1>2. buffers' = buffers /\ merged' = merged /\ dropped' = dropped
  BY DEF Begin
<1>3. Accumulators' /\ MergedEvents'
  BY <1>1, <1>2, AccumulatorsStay, MergedEventsStay DEF Tidy, MergedEvents
<1> QED
  BY <1>1, <1>2, <1>3 DEF Tidy, InOnePlace

\* when time passes and when nothing happens,
LEMMA TidyByTick ==
  ASSUME Tidy, Tick \/ UNCHANGED vars
  PROVE  Tidy'
<1>1. /\ UNCHANGED <<traffic, messages, buffers, merged, dropped>> /\ now' \in Nat /\ now <= now'
      /\ now \in Nat
  BY DEF Tick, vars, Tidy, Shape
<1>2. Sent' = Sent /\ Shape'
  BY <1>1 DEF Sent, Tidy, Shape
<1>3. Grow
  BY <1>1, <1>2, MessageShape DEF Grow, Tidy, Shape
<1>4. Accumulators' /\ MergedEvents'
  BY <1>1, <1>3, AccumulatorsStay, MergedEventsStay DEF Tidy, MergedEvents
<1> QED
  BY <1>1, <1>2, <1>4 DEF Tidy, InOnePlace

\* and at first, so that it always holds.
LEMMA AlwaysTidy == Spec => []Tidy
<1>1. Init => Tidy
  <2> SUFFICES ASSUME Init
               PROVE  Tidy
    OBVIOUS
  <2>1. DOMAIN messages = {} /\ messages \in Seq(MessageTypes) /\ Sent = {} /\ DOMAIN buffers = {}
    BY DEF Init, Sent
  <2>2. Shape /\ MergedEvents
    BY <2>1 DEF Init, Shape, MergedEvents
  <2>3. Accumulators
    BY <2>1, FS_EmptySet, SseAssumption DEF Accumulators
  <2> QED
    BY <2>1, <2>2, <2>3 DEF Init, Tidy
<1>2. Tidy /\ [Next]_vars => Tidy'
  BY TidyByChunk, TidyByLose, TidyByBegin, TidyByTick DEF Next
<1> QED
  BY <1>1, <1>2, PTL DEF Spec

\* Every event that was sent is in exactly one place (retain,
\* evict_over_capacity, and what process returns and removes).
THEOREM NothingIsLost == Spec => []Accounted
<1>1. Tidy => Accounted
  <2> SUFFICES ASSUME Tidy, NEW e \in Sent
               PROVE  Cardinality({c \in DOMAIN buffers : e \in Range(buffers[c].events)})
                        + Cardinality({x \in merged : e \in Range(x)})
                        + (IF e \in dropped THEN 1 ELSE 0) = 1
    BY DEF Accounted
  <2> DEFINE A == {c \in DOMAIN buffers : e \in Range(buffers[c].events)}
             M == {x \in merged : e \in Range(x)}
  <2>1. InOnePlace(e)
    BY DEF Tidy
  <2>2. CASE e \in dropped
    <3>1. A = {} /\ M = {}
      BY <2>1, <2>2 DEF InOnePlace
    <3>2. Cardinality(A) = 0 /\ Cardinality(M) = 0
      BY <3>1, FS_EmptySet
    <3> QED
      BY <2>2, <3>2
  <2>3. CASE \E c \in DOMAIN buffers : e \in Range(buffers[c].events)
    <3>1. PICK c \in DOMAIN buffers : e \in Range(buffers[c].events)
      BY <2>3
    <3>2. A = {c} /\ M = {} /\ e \notin dropped
      BY <2>1, <3>1 DEF InOnePlace
    <3>3. Cardinality(A) = 1 /\ Cardinality(M) = 0
      BY <3>2, FS_EmptySet, FS_Singleton
    <3> QED
      BY <3>2, <3>3
  <2>4. CASE \E x \in merged : e \in Range(x)
    <3>1. PICK x \in merged : e \in Range(x)
      BY <2>4
    <3>2. A = {} /\ M = {x} /\ e \notin dropped
      BY <2>1, <3>1 DEF InOnePlace
    <3>3. Cardinality(A) = 0 /\ Cardinality(M) = 1
      BY <3>2, FS_EmptySet, FS_Singleton
    <3> QED
      BY <3>2, <3>3
  <2> QED
    BY <2>1, <2>2, <2>3, <2>4 DEF InOnePlace
<1> QED
  BY AlwaysTidy, <1>1, PTL

\* Events of different threads are never put together (the prefix of the
\* connection ids that final_connection_id is chosen by).
THEOREM ThreadsStayApart == Spec => []ThreadsApart
<1>1. Tidy => ThreadsApart
  <2> SUFFICES ASSUME Tidy
               PROVE  ThreadsApart
    OBVIOUS
  <2>1. \A c \in DOMAIN buffers : Range(buffers[c].events) \subseteq Sent
    BY RangeOfSeq DEF Tidy, Accumulators
  <2>2. \A x \in merged : Range(x) \subseteq Sent
    BY RangeOfSeq DEF Tidy, MergedEvents
  <2>3. TypeOK
    BY <2>1, <2>2 DEF TypeOK, Tidy, Accumulators
  <2> QED
    BY <2>3 DEF ThreadsApart, Tidy, MergedEvents
<1> QED
  BY AlwaysTidy, <1>1, PTL

\* No chunk joins an accumulator that has waited longer than the timeout
\* (retain comes before the choice of an accumulator).
THEOREM JoinedAreFresh == Spec => JoinsFresh
<1> DEFINE Fine(c) == LET old == buffers[c]
                          new == buffers'[c]
                      IN  \/ new = old
                          \/ /\ IsPrefix(old.events, new.events)
                             /\ Len(old.events) < Len(new.events)
                             /\ new.last <= old.last + Timeout
                          \/ Range(old.events) \subseteq dropped'
<1>1. ASSUME Tidy, [Next]_vars, NEW c \in DOMAIN buffers \cap DOMAIN buffers'
      PROVE  Fine(c)
  <2>1. CASE buffers' = buffers
    BY <2>1
  <2>2. ASSUME NEW m \in DOMAIN messages, NEW n \in 1 .. Len(messages[m].script),
               NEW time \in 0 .. now, Chunk(m, n, time)
        PROVE  Fine(c)
    <3> DEFINE chunk == Arriving(m, n)
    <3>1. Arrives(m, n) /\ Process(m, chunk, time)
      BY <2>2 DEF Chunk, Arrives
    <3>2. chunk \in Seq(Sent') \ {<<>>} /\ Sent \subseteq Sent'
      BY <1>1, <3>1, ArrivingIsNew, GrowKeeps DEF Tidy
    <3>3. \/ Skipped(m, chunk)
          \/ \E kept, d, acc : /\ Joins(m, chunk, time, kept, d, acc)
                               /\ Merges(kept, d, acc) \/ Drops(kept, d, acc) \/ Waits(kept, d, acc)
      BY <1>1, <3>1, ChunkOutcomes
    <3> HIDE DEF chunk
    <3>4. CASE Skipped(m, chunk)
      BY <3>4 DEF Skipped
    <3>5. ASSUME NEW kept, NEW d, NEW acc, Joins(m, chunk, time, kept, d, acc),
                 Merges(kept, d, acc) \/ Drops(kept, d, acc) \/ Waits(kept, d, acc)
          PROVE  Fine(c)
      <4>1. CASE c # d
        BY <1>1, <3>5, <4>1 DEF Merges, Drops, Waits, Store
      <4>2. CASE c = d /\ c \notin kept
        <5>1. Range(buffers[c].events) \subseteq dropped'
          BY <1>1, <3>5, <4>2, GoneAre DEF Merges, Drops, Waits
        <5> QED
          BY <5>1
      <4>3. CASE c = d /\ c \in kept
        <5> DEFINE before == buffers[c].events
        <5>1. /\ buffers'[c].events = before \o chunk /\ buffers'[c].last = time
              /\ time <= buffers[c].last + Timeout
          BY <1>1, <3>5, <4>3 DEF Joins, Merges, Drops, Waits, Store
        <5>2. before \in Seq(Sent) /\ before # <<>>
          BY <1>1 DEF Tidy, Accumulators
        <5>3. before \in Seq(Sent')
          BY <3>2, <5>2
        <5> HIDE DEF before
        <5>4. /\ Len(before) \in Nat /\ Len(chunk) \in Nat /\ Len(chunk) # 0 /\ Len(before) # 0
              /\ Len(before \o chunk) = Len(before) + Len(chunk)
          BY <3>2, <5>2, <5>3, ConcatProperties
        <5>5. 1 \in 1 .. Len(before) /\ Len(before) \in 1 .. Len(before)
          BY <5>4
        <5>6. SubSeq(before \o chunk, 1, Len(before)) = SubSeq(before, 1, Len(before))
          BY <3>2, <5>3, <5>5, SubSeqOfConcat1
        <5>7. IsPrefix(before, before \o chunk) /\ Len(before) < Len(before \o chunk)
          BY <5>4, <5>6 DEF IsPrefix
        <5> QED
          BY <5>1, <5>7 DEF before
      <4> QED
        BY <4>1, <4>2, <4>3
    <3> QED
      BY <3>3, <3>4, <3>5
  <2> QED
    BY <1>1, <2>1, <2>2 DEF Next, Tick, Begin, Lose, vars
<1>2. Tidy /\ [Next]_vars =>
        [\A c \in DOMAIN buffers \cap DOMAIN buffers' :
           LET old == buffers[c]
               new == buffers'[c]
           IN  \/ new = old
               \/ /\ IsPrefix(old.events, new.events) /\ Len(old.events) < Len(new.events)
                  /\ new.last <= old.last + Timeout
               \/ Range(old.events) \subseteq dropped']_vars
  BY <1>1
<1> QED
  BY AlwaysTidy, <1>2, PTL DEF Spec, JoinsFresh

-----------------------------------------------------------------------------
\* Events are of message m, in order: those among the first n that are not lost.
InOrder(events, m, n, lost) ==
  /\ Range(events) = {<<m, i>> : i \in 1 .. n} \ lost
  /\ \A i, j \in DOMAIN events : i < j => events[i][2] < events[j][2]

Unfinished(m) == messages[m].sent < Len(messages[m].script)

\* The accumulator holds what has come of a message that goes on.
OfMessage(c, m) ==
  /\ messages[m].stream = c[1] /\ Unfinished(m)
  /\ InOrder(buffers[c].events, m, messages[m].sent, dropped)
  /\ \A x \in merged : x[1][1] # m

\* The merged event is of message m, which it completes.
MergedOf(x, m) ==
  /\ \E n \in 1 .. messages[m].sent : Last(x) = <<m, n>> /\ InOrder(x, m, n, dropped)
  /\ \E e \in Range(x) : Completes(e)

\* In orderly traffic a thread has one message that goes on, one accumulator,
\* which is that message's, and merged events of other messages, one of each.
OneAtATime ==
  /\ \A k, m \in DOMAIN messages :
       Unfinished(k) /\ Unfinished(m) /\ messages[k].stream = messages[m].stream => k = m
  /\ \A c, d \in DOMAIN buffers : c[1] = d[1] => c = d
  /\ \A c \in DOMAIN buffers : \E m \in DOMAIN messages : OfMessage(c, m)
  /\ \A x \in merged : \E m \in DOMAIN messages : MergedOf(x, m)
  /\ \A x, y \in merged : x[1][1] = y[1][1] => x = y

\* The first event of a sequence is of the message that all are of.
LEMMA FirstIsOf ==
  ASSUME NEW S, NEW x \in Seq(S) \ {<<>>}, NEW m, NEW n, NEW lost, InOrder(x, m, n, lost)
  PROVE  /\ x[1][1] = m /\ \A e \in Range(x) : e[1] = m
         /\ \E i \in 1 .. n : <<m, i>> \in Range(x)
<1>1. x[1] \in Range(x)
  <2>1. x \in Seq(S) /\ Len(x) \in Nat \ {0}
    BY EmptySeq
  <2>2. 1 \in DOMAIN x
    BY <2>1
  <2> QED
    BY <2>2 DEF Range
<1>2. \A e \in Range(x) : e[1] = m /\ \E i \in 1 .. n : e = <<m, i>>
  BY DEF InOrder
<1> QED
  BY <1>1, <1>2

\* Events stay in order while none of them is lost.
LEMMA InOrderStays ==
  ASSUME NEW x, NEW m, NEW n, NEW lost, NEW more, InOrder(x, m, n, lost), lost \subseteq more,
         \A e \in Range(x) : e \notin more
  PROVE  InOrder(x, m, n, more)
BY DEF InOrder

\* A chunk goes on where the events before it end.
LEMMA InOrderWithChunk ==
  ASSUME Shape, NEW m \in DOMAIN messages, NEW n \in 1 .. Len(messages[m].script), Arrives(m, n),
         NEW before \in Seq(Sent'), NEW lost,
         \A i, j \in DOMAIN before : i < j => before[i][2] < before[j][2],
         \A i \in 1 .. messages[m].sent : <<m, i>> \in lost <=> <<m, i>> \notin Range(before),
         Range(before) \subseteq {<<m, i>> : i \in 1 .. messages[m].sent},
         \A e \in Range(Arriving(m, n)) : e \notin lost
  PROVE  /\ InOrder(before \o Arriving(m, n), m, messages[m].sent + n, lost)
         /\ Last(before \o Arriving(m, n)) = <<m, messages[m].sent + n>>
<1> DEFINE new == Arriving(m, n)
           sent == messages[m].sent
           all == before \o new
<1>1. /\ new \in Seq(Sent') /\ Len(new) = n /\ \A i \in 1 .. n : new[i] = <<m, sent + i>>
  BY ArrivingIsNew
<1>2. sent \in Nat /\ n \in Nat /\ n >= 1
  BY MessageShape
<1>3. \A e : e \in Range(new) <=> \E i \in 1 .. n : e = <<m, sent + i>>
  <2>1. DOMAIN new = 1 .. n
    BY <1>1
  <2> QED
    BY <1>1, <2>1 DEF Range
<1> HIDE DEF new
<1>4. /\ all \in Seq(Sent') /\ Len(all) = Len(before) + n
      /\ Range(all) = Range(before) \cup Range(new)
      /\ \A i \in 1 .. Len(before) + n :
           all[i] = IF i <= Len(before) THEN before[i] ELSE new[i - Len(before)]
      /\ Len(before) \in Nat /\ DOMAIN before = 1 .. Len(before)
  <2>1. /\ all \in Seq(Sent') /\ Len(all) = Len(before) + Len(new)
        /\ \A i \in 1 .. Len(before) + Len(new) :
             all[i] = IF i <= Len(before) THEN before[i] ELSE new[i - Len(before)]
    BY <1>1, ConcatProperties
  <2>2. Range(all) = Range(before) \cup Range(new)
    BY <1>1, RangeConcatenation
  <2>3. Len(before) \in Nat /\ DOMAIN before = 1 .. Len(before)
    OBVIOUS
  <2> QED
    BY <1>1, <2>1, <2>2, <2>3
<1>5. DOMAIN all = 1 .. Len(before) + n
  BY <1>4
<1> HIDE DEF all
<1>6. \A i \in 1 .. Len(before) : all[i] = before[i] /\ before[i][2] \in 1 .. sent
  <2> SUFFICES ASSUME NEW i \in 1 .. Len(before)
               PROVE  all[i] = before[i] /\ before[i][2] \in 1 .. sent
    OBVIOUS
  <2>1. before[i] \in Range(before)
    BY <1>4 DEF Range
  <2>2. before[i][2] \in 1 .. sent
    BY <2>1
  <2> QED
    BY <1>2, <1>4, <2>2
<1>7. \A i \in Len(before) + 1 .. Len(before) + n : all[i] = <<m, sent + (i - Len(before))>>
  <2> SUFFICES ASSUME NEW i \in Len(before) + 1 .. Len(before) + n
               PROVE  all[i] = <<m, sent + (i - Len(before))>>
    OBVIOUS
  <2>1. i \in 1 .. Len(before) + n /\ ~(i <= Len(before)) /\ i - Len(before) \in 1 .. n
    BY <1>2, <1>4
  <2> QED
    BY <1>1, <1>4, <2>1
<1>8. Last(all) = <<m, sent + n>>
  <2>1. Len(all) \in Len(before) + 1 .. Len(before) + n /\ Len(all) - Len(before) = n
    BY <1>2, <1>4
  <2> QED
    BY <1>7, <2>1 DEF Last
<1>9. ASSUME NEW i \in DOMAIN all, NEW j \in DOMAIN all, i < j
      PROVE  all[i][2] < all[j][2]
  <2>1. i \in 1 .. Len(before) + n /\ j \in 1 .. Len(before) + n
    BY <1>5
  <2>2. CASE j <= Len(before)
    <3>1. i \in 1 .. Len(before) /\ j \in 1 .. Len(before)
      BY <1>2, <1>4, <1>9, <2>1, <2>2
    <3> QED
      BY <1>4, <1>6, <1>9, <3>1
  <2>3. CASE ~(j <= Len(before))
    <3>1. j \in Len(before) + 1 .. Len(before) + n
      BY <1>2, <1>4, <2>1, <2>3
    <3>2. all[j][2] = sent + (j - Len(before))
      BY <1>7, <3>1
    <3>3. CASE i <= Len(before)
      <4>1. all[i][2] \in 1 .. sent
        BY <1>4, <1>6, <2>1, <3>3
      <4> QED
        BY <1>2, <1>4, <3>1, <3>2, <4>1
    <3>4. CASE ~(i <= Len(before))
      <4>1. all[i][2] = sent + (i - Len(before))
        BY <1>2, <1>4, <1>7, <2>1, <3>4
      <4> QED
        BY <1>2, <1>4, <1>9, <2>1, <3>2, <4>1
    <3> QED
      BY <3>3, <3>4
  <2> QED
    BY <2>2, <2>3
<1>10. Range(all) = {<<m, i>> : i \in 1 .. sent + n} \ lost
  <2>1. ASSUME NEW e \in Range(all)
        PROVE  e \notin lost /\ \E i \in 1 .. sent + n : e = <<m, i>>
    <3>1. CASE e \in Range(before)
      <4>1. PICK i \in 1 .. sent : e = <<m, i>>
        BY <3>1
      <4>2. i \in 1 .. sent + n
        BY <1>2
      <4> QED
        BY <3>1, <4>1, <4>2
    <3>2. CASE e \in Range(new)
      <4>1. PICK i \in 1 .. n : e = <<m, sent + i>>
        BY <1>3, <3>2
      <4>2. sent + i \in 1 .. sent + n
        BY <1>2
      <4> QED
        BY <3>2, <4>1, <4>2 DEF new
    <3> QED
      BY <1>4, <3>1, <3>2
  <2>2. ASSUME NEW i \in 1 .. sent + n, <<m, i>> \notin lost
        PROVE  <<m, i>> \in Range(all)
    <3>1. CASE i \in 1 .. sent
      BY <1>4, <2>2, <3>1
    <3>2. CASE i \notin 1 .. sent
      <4>1. i - sent \in 1 .. n /\ i = sent + (i - sent)
        BY <1>2, <3>2
      <4>2. <<m, i>> \in Range(new)
        BY <1>3, <4>1
      <4> QED
        BY <1>4, <4>2
    <3> QED
      BY <3>1, <3>2
  <2> QED
    BY <2>1, <2>2
<1> QED
  BY <1>8, <1>9, <1>10 DEF InOrder, all, new

\* The events of a chunk, as its message has them.
LEMMA ChunkKinds ==
  ASSUME Shape, traffic.orderly, NEW m \in DOMAIN messages,
         NEW n \in 1 .. Len(messages[m].script), Arrives(m, n)
  PROVE  LET new == Arriving(m, n)
             script == messages[m].script
         IN  /\ Regular(script) /\ script \in Seq(Kinds) /\ Unfinished(m)
             /\ \A e : e \in Range(new) <=> \E i \in DOMAIN new : e = new[i]
             /\ DOMAIN new = 1 .. n
             /\ \A i \in 1 .. n : /\ Kind(new[i]) = script[messages[m].sent + i]
                                  /\ messages[m].sent + i \in 1 .. Len(script)
<1> DEFINE new == Arriving(m, n)
           script == messages[m].script
           sent == messages[m].sent
<1>1. Regular(script) /\ script \in Seq(Kinds)
  BY SseAssumption, MessageShape DEF Shape
<1>2. sent \in Nat /\ n \in Nat /\ n >= 1 /\ sent + n <= Len(script) /\ Len(script) \in Nat
  BY MessageShape DEF Arrives
<1>3. new \in Seq(Sent') /\ Len(new) = n /\ \A i \in 1 .. n : new[i] = <<m, sent + i>>
  BY ArrivingIsNew
<1> HIDE DEF new
<1>4. DOMAIN new = 1 .. n
  BY <1>3
<1>5. Unfinished(m)
  BY <1>2 DEF Unfinished
<1>6. \A i \in 1 .. n : Kind(new[i]) = script[sent + i] /\ sent + i \in 1 .. Len(script)
  BY <1>2, <1>3 DEF Kind
<1> QED
  BY <1>1, <1>4, <1>5, <1>6 DEF Range, new

\* The accumulator of a thread holds its message that goes on.
LEMMA OwnMessage ==
  ASSUME OneAtATime, NEW m \in DOMAIN messages, Unfinished(m), NEW c \in DOMAIN buffers,
         c[1] = messages[m].stream
  PROVE  OfMessage(c, m)
BY DEF OneAtATime, OfMessage

\* A chunk joins that accumulator, or the thread has none that is kept.
LEMMA JoinsOwn ==
  ASSUME Tidy, OneAtATime, traffic.orderly, NEW m \in DOMAIN messages,
         NEW n \in 1 .. Len(messages[m].script), Arrives(m, n), NEW time,
         NEW kept, NEW c, NEW acc, Joins(m, Arriving(m, n), time, kept, c, acc)
  PROVE  \/ c \in kept /\ OfMessage(c, m)
         \/ c \notin kept /\ \A d \in kept : d[1] # messages[m].stream
<1> DEFINE new == Arriving(m, n)
           s == messages[m].stream
           id == ConnectionId(s, m, new)
<1>1. /\ Unfinished(m) /\ Regular(messages[m].script) /\ DOMAIN new = 1 .. n
      /\ \A i \in 1 .. n : /\ Kind(new[i]) = messages[m].script[messages[m].sent + i]
                           /\ messages[m].sent + i \in 1 .. Len(messages[m].script)
  BY ChunkKinds DEF Tidy
<1>2. kept \subseteq DOMAIN buffers /\ c \in Targets(kept, s, id)
  BY DEF Joins, Takes
<1>3. id[1] = s
  BY DEF ConnectionId
<1>4. CASE \E d \in kept : d[1] = s
  <2>1. PICK d \in kept : d[1] = s
    BY <1>4
  <2>2. InOrder(buffers[d].events, m, messages[m].sent, dropped)
    BY <1>1, <1>2, <2>1, OwnMessage DEF OfMessage
  <2>3. buffers[d].events \in Seq(Sent) \ {<<>>}
    BY <1>2, <2>1 DEF Tidy, Accumulators
  <2>4. \E i \in 1 .. messages[m].sent : TRUE
    BY <2>2, <2>3, FirstIsOf
  <2>5. \A i \in 1 .. n : messages[m].sent + i \in 2 .. Len(messages[m].script)
    <3>1. messages[m].sent \in Nat /\ Len(messages[m].script) \in Nat
      BY MessageShape DEF Tidy
    <3> QED
      BY <1>1, <2>4, <3>1
  <2>6. ~Named(new)
    BY <1>1, <2>5 DEF Named, Regular
  <2>7. id = <<s, Window>>
    BY <2>6 DEF ConnectionId
  <2>8. c \in kept /\ c[1] = s
    BY <1>2, <2>1, <2>7 DEF Targets
  <2> QED
    BY <1>1, <1>2, <2>8, OwnMessage
<1>5. CASE \A d \in kept : d[1] # s
  <2>1. c = id
    BY <1>2, <1>5 DEF Targets
  <2> QED
    BY <1>3, <1>5, <2>1
<1> QED
  BY <1>4, <1>5

\* What comes of a message after it was merged is complete without content.
LEMMA RestIsDropped ==
  ASSUME Tidy, OneAtATime, traffic.orderly, NEW m \in DOMAIN messages,
         NEW n \in 1 .. Len(messages[m].script), Arrives(m, n), NEW time,
         NEW kept, NEW c, NEW acc, Joins(m, Arriving(m, n), time, kept, c, acc),
         NEW x \in merged, x[1][1] = m
  PROVE  ~Meaningful(acc.events) /\ \E e \in Range(acc.events) : Completes(e)
<1> DEFINE new == Arriving(m, n)
           s == messages[m].stream
           script == messages[m].script
           sent == messages[m].sent
<1>1. /\ Unfinished(m) /\ Regular(script) /\ DOMAIN new = 1 .. n
      /\ \A e : e \in Range(new) <=> \E i \in DOMAIN new : e = new[i]
      /\ \A i \in 1 .. n : Kind(new[i]) = script[sent + i] /\ sent + i \in 1 .. Len(script)
  BY ChunkKinds DEF Tidy
<1>2. sent \in Nat /\ Len(script) \in Nat
  BY MessageShape DEF Tidy
<1>3. \A d \in DOMAIN buffers : d[1] # s
  BY <1>1, OwnMessage DEF OfMessage
<1>4. acc.events = new
  <2>1. c \notin kept
    BY <1>3 DEF Joins, Takes
  <2>2. acc.events = <<>> \o new /\ new \in Seq(Sent')
    BY <2>1, ArrivingIsNew DEF Joins, Tidy
  <2> QED
    BY <2>2, ConcatEmptySeq
<1>5. \E i \in 1 .. sent : script[i] \in Completing
  <2>1. PICK k \in DOMAIN messages : MergedOf(x, k)
    BY DEF OneAtATime
  <2>2. PICK l \in 1 .. messages[k].sent : InOrder(x, k, l, dropped)
    BY <2>1 DEF MergedOf
  <2>3. k = m
    BY <2>2, FirstIsOf DEF Tidy, MergedEvents
  <2>4. PICK e \in Range(x) : Completes(e)
    BY <2>1 DEF MergedOf
  <2>5. PICK i \in 1 .. l : e = <<m, i>>
    BY <2>2, <2>3, <2>4 DEF InOrder
  <2>6. i \in 1 .. sent
    BY <1>2, <2>2, <2>3, <2>5
  <2> QED
    BY <2>4, <2>5, <2>6 DEF Completes, Kind
<1>6. \A i \in 1 .. n : Kind(new[i]) \in {"ping", "stop", "error", "done"}
  <2>1. PICK k \in 1 .. sent : script[k] \in Completing
    BY <1>5
  <2>2. k \in 1 .. Len(script) /\ \A i \in 1 .. n : sent + i \in k + 1 .. Len(script)
    <3>1. n \in Nat /\ sent + n <= Len(script) /\ k \in Nat /\ k >= 1 /\ k <= sent
      BY <1>2 DEF Arrives
    <3> HIDE DEF sent, script
    <3> QED
      BY <1>2, <3>1
  <2> QED
    BY <1>1, <2>1, <2>2 DEF Regular
<1>7. ~Meaningful(new)
  <2> DEFINE kinds == {Kind(new[i]) : i \in DOMAIN new}
  <2>1. kinds \subseteq {"ping", "stop", "error", "done"}
    BY <1>1, <1>6
  <2>2. Meaningful(new) => kinds \cap {"delta", "bulk", "startUsage", "usage", "dataUsage"} # {}
                           \/ "start" \in kinds
    BY DEF Meaningful
  <2> HIDE DEF kinds
  <2> QED
    BY <2>1, <2>2
<1>8. \E e \in Range(new) : Completes(e)
  <2>1. ConnectionId(s, m, new) \notin DOMAIN buffers
    BY <1>3 DEF ConnectionId
  <2>2. ~Skippable(new)
    BY <2>1 DEF Joins
  <2>3. PICK i \in 1 .. n : Kind(new[i]) \notin {"ping", "usage"}
    BY <1>1, <2>2 DEF Skippable
  <2>4. Completes(new[i])
    BY <1>6, <2>3 DEF Completes, Completing
  <2> QED
    BY <1>1, <2>4
<1> QED
  BY <1>4, <1>7, <1>8

-----------------------------------------------------------------------------
\* A chunk is of its message only: what is said of the accumulator of another,
LEMMA OthersGoOn ==
  ASSUME Tidy, Tidy', NEW m \in DOMAIN messages, NEW n \in 1 .. Len(messages[m].script),
         Arrives(m, n), dropped \subseteq dropped', \A x \in merged' : x \in merged \/ x[1][1] = m,
         NEW k \in DOMAIN messages, k # m, NEW c \in DOMAIN buffers, OfMessage(c, k),
         c \in DOMAIN buffers', buffers'[c] = buffers[c]
  PROVE  OfMessage(c, k)'
<1>1. messages'[k] = messages[k]
  BY ArrivingIsNew DEF Tidy
<1>2. \A e \in Range(buffers[c].events) : e \notin dropped'
  <2>1. Range(buffers[c].events) \subseteq Sent'
    BY RangeOfSeq DEF Tidy, Accumulators
  <2> QED
    BY <2>1 DEF Tidy, InOnePlace
<1>3. InOrder(buffers'[c].events, k, messages'[k].sent, dropped')
  BY <1>1, <1>2, InOrderStays DEF OfMessage
<1> QED
  BY <1>1, <1>3 DEF OfMessage, Unfinished

\* and of the merged events.
LEMMA MergedGoOn ==
  ASSUME Tidy, Tidy', Grow, dropped \subseteq dropped', NEW k \in DOMAIN messages,
         NEW x \in merged, x \in merged', MergedOf(x, k)
  PROVE  MergedOf(x, k)'
<1>1. PICK n \in 1 .. messages[k].sent : Last(x) = <<k, n>> /\ InOrder(x, k, n, dropped)
  BY DEF MergedOf
<1>2. n \in 1 .. messages'[k].sent
  <2>1. /\ messages[k].sent \in Nat /\ messages'[k].sent \in Nat
        /\ messages[k].sent <= messages'[k].sent
    BY GrowKeeps DEF Grow, Tidy
  <2> QED
    BY <2>1
<1>3. Range(x) \subseteq Sent /\ Sent \subseteq Sent'
  BY RangeOfSeq, GrowKeeps DEF Tidy, MergedEvents
<1>4. \A e \in Range(x) : e \notin dropped'
  BY <1>3 DEF Tidy, InOnePlace
<1>5. InOrder(x, k, n, dropped')
  BY <1>1, <1>4, InOrderStays
<1>6. \E e \in Range(x) : Completes(e)'
  BY <1>3, GrowKeeps DEF MergedOf, Tidy
<1> QED
  BY <1>1, <1>2, <1>5, <1>6 DEF MergedOf

\* Orderly traffic gives an orderly state when a chunk is skipped,
LEMMA OneAtATimeBySkipping ==
  ASSUME Tidy, Tidy', OneAtATime, traffic.orderly, NEW m \in DOMAIN messages,
         NEW n \in 1 .. Len(messages[m].script), Arrives(m, n), Skipped(m, Arriving(m, n))
  PROVE  OneAtATime'
<1> DEFINE new == Arriving(m, n)
           script == messages[m].script
           sent == messages[m].sent
<1>1. /\ Grow /\ DOMAIN messages' = DOMAIN messages /\ messages'[m].sent = sent + n
      /\ \A k \in DOMAIN messages : k # m => messages'[k] = messages[k]
      /\ messages'[m].script = script /\ messages'[m].stream = messages[m].stream
  BY ArrivingIsNew DEF Tidy, Grow
<1>2. buffers' = buffers /\ merged' = merged /\ dropped' = dropped \cup Range(new)
  BY DEF Skipped
<1>3. /\ Unfinished(m) /\ Regular(script) /\ DOMAIN new = 1 .. n
      /\ \A i \in 1 .. n : Kind(new[i]) = script[sent + i]
  BY ChunkKinds DEF Tidy
<1>4. sent \in Nat /\ n \in Nat /\ n >= 1 /\ sent + n <= Len(script) /\ Len(script) \in Nat
  BY MessageShape DEF Tidy, Arrives
<1>5. Unfinished(m)'
  <2>1. script[sent + n] \in {"ping", "usage"}
    BY <1>3, <1>4 DEF Skipped, Skippable
  <2>2. sent + n # Len(script)
    BY <1>3, <2>1 DEF Regular, Completing
  <2> QED
    BY <1>1, <1>4, <2>2 DEF Unfinished
<1>6. ASSUME NEW c \in DOMAIN buffers
      PROVE  \E k \in DOMAIN messages : OfMessage(c, k)'
  <2>1. PICK k \in DOMAIN messages : OfMessage(c, k)
    BY DEF OneAtATime
  <2>2. CASE k # m
    BY <1>2, <2>1, <2>2, OthersGoOn
  <2>3. CASE k = m
    <3> DEFINE before == buffers[c].events
    <3>1. /\ InOrder(before, m, sent, dropped)
          /\ before \in Seq(Sent') /\ Range(before) \subseteq Sent'
      BY <1>2, <2>1, <2>3, RangeOfSeq DEF OfMessage, Tidy, Accumulators
    <3>2. \A e \in Range(before) : e \notin dropped'
      BY <1>2, <3>1 DEF Tidy, InOnePlace
    <3>3. \A i \in sent + 1 .. sent + n : <<m, i>> \in Range(new)
      <4>1. \A i \in sent + 1 .. sent + n : i - sent \in 1 .. n /\ sent + (i - sent) = i
        BY <1>4
      <4>2. \A i \in 1 .. n : new[i] = <<m, sent + i>>
        BY ArrivingIsNew DEF Tidy
      <4> QED
        BY <1>3, <4>1, <4>2 DEF Range
    <3>4. InOrder(before, m, sent, dropped')
      BY <1>2, <3>1, <3>2, InOrderStays
    <3> HIDE DEF before, new
    <3>5. {<<m, i>> : i \in 1 .. sent + n} \ dropped' = {<<m, i>> : i \in 1 .. sent} \ dropped'
      <4>1. \A i \in 1 .. sent + n : i \in 1 .. sent \/ i \in sent + 1 .. sent + n
        BY <1>4
      <4>2. \A i \in 1 .. sent : i \in 1 .. sent + n
        BY <1>4
      <4> QED
        BY <1>2, <3>3, <4>1, <4>2
    <3>6. InOrder(before, m, sent + n, dropped')
      BY <3>4, <3>5 DEF InOrder
    <3> QED
      BY <1>1, <1>2, <1>5, <2>1, <2>3, <3>6 DEF OfMessage, before
  <2> QED
    BY <2>2, <2>3
<1>7. \A x \in merged : \E k \in DOMAIN messages : MergedOf(x, k)'
  BY <1>1, <1>2, MergedGoOn DEF OneAtATime
<1>8. \A k, l \in DOMAIN messages : (Unfinished(k) /\ Unfinished(l))' /\
        messages'[k].stream = messages'[l].stream => k = l
  BY <1>1, <1>3 DEF OneAtATime, Unfinished
<1> QED
  BY <1>1, <1>2, <1>6, <1>7, <1>8 DEF OneAtATime

\* when it is joined to what has come before,
LEMMA JoinedInOrder ==
  ASSUME Tidy, Tidy', OneAtATime, traffic.orderly, NEW m \in DOMAIN messages,
         NEW n \in 1 .. Len(messages[m].script), Arrives(m, n), NEW time \in 0 .. now,
         NEW kept, NEW c, NEW acc, Joins(m, Arriving(m, n), time, kept, c, acc),
         Merges(kept, c, acc) \/ Waits(kept, c, acc)
  PROVE  /\ InOrder(acc.events, m, messages[m].sent + n, dropped')
         /\ Last(acc.events) = <<m, messages[m].sent + n>>
         /\ \A x \in merged : x[1][1] # m
<1> DEFINE new == Arriving(m, n)
           s == messages[m].stream
           sent == messages[m].sent
           before == IF c \in kept THEN buffers[c].events ELSE <<>>
<1>1. /\ Grow /\ Sent' = Sent \cup Range(new) /\ Range(new) \cap Sent = {} /\ new \in Seq(Sent')
      /\ Shape /\ Sent \subseteq Sent'
  BY ArrivingIsNew, GrowKeeps DEF Tidy
<1>2. /\ Takes(kept, c, acc, new) /\ c[1] = s /\ acc.events = before \o new
      /\ acc.events \in Seq(Sent') \ {<<>>}
  BY DEF Joins
<1>3. \A x \in merged : x[1][1] # m
  BY RestIsDropped DEF Merges, Waits
<1>4. /\ dropped \subseteq dropped' /\ merged' \subseteq merged \cup {acc.events}
      /\ DOMAIN buffers' \subseteq kept \cup {c}
      /\ \A d \in kept : d # c => buffers'[d] = buffers[d]
      /\ c \in DOMAIN buffers' => buffers'[c] = acc
      /\ (c \in DOMAIN buffers' /\ buffers'[c] = acc) \/ acc.events \in merged'
  BY DEF Merges, Waits, Store
<1>5. \A e \in Range(acc.events) : e \notin dropped'
  <2>1. Range(acc.events) \subseteq Sent'
    BY <1>2, RangeOfSeq
  <2> QED
    BY <1>4, <2>1 DEF Tidy, InOnePlace
<1> HIDE DEF new
<1>6. /\ before \in Seq(Sent') /\ Range(before) \subseteq {<<m, i>> : i \in 1 .. sent}
      /\ \A i, j \in DOMAIN before : i < j => before[i][2] < before[j][2]
      /\ \A i \in 1 .. sent : <<m, i>> \in dropped' <=> <<m, i>> \notin Range(before)
  <2>1. CASE c \in kept
    <3>1. InOrder(before, m, sent, dropped) /\ before \in Seq(Sent')
      BY <1>1, <1>2, <2>1, JoinsOwn DEF OfMessage, Tidy, Accumulators, Takes
    <3>2. \A e \in Range(before) : e \notin dropped'
      BY <1>2, <1>5, <2>1 DEF Takes
    <3> HIDE DEF before
    <3> QED
      BY <1>4, <3>1, <3>2 DEF InOrder
  <2>2. CASE c \notin kept
    <3>1. before = <<>> /\ before \in Seq(Sent') /\ Range(before) = {} /\ DOMAIN before = {}
      BY <2>2 DEF Range
    <3>2. \A e : e \in Range(acc.events) <=> e \in Range(new)
      BY <1>2, <2>2 DEF Takes
    <3>3. ASSUME NEW i \in 1 .. sent
          PROVE  <<m, i>> \in dropped'
      <4> DEFINE e == <<m, i>>
      <4>1. e \in Sent /\ e \in Sent' /\ e \notin Range(acc.events) /\ e[1] = m
        BY <1>1, <3>2 DEF Sent
      <4>2. \A d \in DOMAIN buffers' : e \notin Range(buffers'[d].events)
        <5> SUFFICES ASSUME NEW d \in DOMAIN buffers', d # c, e \in Range(buffers[d].events)
                     PROVE  FALSE
          BY <1>4, <4>1
        <5>1. d \in kept /\ d \in DOMAIN buffers
          BY <1>2, <1>4 DEF Takes
        <5>2. d[1] = s
          BY <4>1, <5>1 DEF Tidy, Accumulators
        <5> QED
          BY <2>2, <5>1, <5>2, JoinsOwn
      <4>3. \A x \in merged' : e \notin Range(x)
        <5> SUFFICES ASSUME NEW x \in merged, e \in Range(x)
                     PROVE  FALSE
          BY <1>4, <4>1
        <5>1. PICK k \in DOMAIN messages : MergedOf(x, k)
          BY DEF OneAtATime
        <5>2. PICK l \in 1 .. messages[k].sent : InOrder(x, k, l, dropped)
          BY <5>1 DEF MergedOf
        <5>3. x[1][1] = k /\ e[1] = k
          BY <5>2, FirstIsOf DEF Tidy, MergedEvents
        <5> QED
          BY <1>3, <4>1, <5>3
      <4>4. InOnePlace(e)'
        BY <4>1 DEF Tidy
      <4> QED
        BY <4>2, <4>3, <4>4 DEF InOnePlace
    <3> QED
      BY <3>1, <3>3
  <2> QED
    BY <2>1, <2>2
<1>7. \A e \in Range(new) : e \notin dropped'
  BY <1>2, <1>5 DEF Takes
<1> HIDE DEF before
<1>8. InOrder(before \o new, m, sent + n, dropped') /\ Last(before \o new) = <<m, sent + n>>
  BY <1>1, <1>6, <1>7, InOrderWithChunk DEF new
<1> QED
  BY <1>2, <1>3, <1>8 DEF before, new

LEMMA OneAtATimeByJoining ==
  ASSUME Tidy, Tidy', OneAtATime, traffic.orderly, NEW m \in DOMAIN messages,
         NEW n \in 1 .. Len(messages[m].script), Arrives(m, n), NEW time \in 0 .. now,
         NEW kept, NEW c, NEW acc, Joins(m, Arriving(m, n), time, kept, c, acc),
         Merges(kept, c, acc) \/ Drops(kept, c, acc) \/ Waits(kept, c, acc)
  PROVE  OneAtATime'
<1> DEFINE new == Arriving(m, n)
           script == messages[m].script
           s == messages[m].stream
           sent == messages[m].sent
<1>1. /\ Grow /\ DOMAIN messages' = DOMAIN messages /\ messages'[m].sent = sent + n
      /\ \A k \in DOMAIN messages : k # m => messages'[k] = messages[k]
      /\ messages'[m].script = script /\ messages'[m].stream = s
      /\ Sent' = Sent \cup Range(new)
  BY ArrivingIsNew DEF Tidy, Grow
<1>2. /\ Unfinished(m) /\ Regular(script) /\ DOMAIN new = 1 .. n
      /\ \A e : e \in Range(new) <=> \E i \in DOMAIN new : e = new[i]
      /\ \A i \in 1 .. n : Kind(new[i]) = script[sent + i]
  BY ChunkKinds DEF Tidy
<1>3. sent \in Nat /\ n \in Nat /\ n >= 1 /\ sent + n <= Len(script) /\ Len(script) \in Nat
  BY MessageShape DEF Tidy, Arrives
<1>4. /\ Takes(kept, c, acc, new) /\ c[1] = s /\ acc.events \in Seq(Sent') \ {<<>>}
  BY DEF Joins
<1>5. /\ dropped \subseteq dropped' /\ merged' \subseteq merged \cup {acc.events}
      /\ DOMAIN buffers' \subseteq kept \cup {c}
      /\ \A d \in kept : d # c => buffers'[d] = buffers[d]
      /\ c \in DOMAIN buffers' => Waits(kept, c, acc) /\ buffers'[c] = acc
      /\ acc.events \in merged' => acc.events \in merged \/ Merges(kept, c, acc)
  BY DEF Merges, Drops, Waits, Store
<1>6. \A d \in kept : d # c => d[1] # s
  BY <1>4, JoinsOwn DEF Takes, OneAtATime
<1>7. Merges(kept, c, acc) \/ Waits(kept, c, acc) =>
        /\ InOrder(acc.events, m, sent + n, dropped') /\ Last(acc.events) = <<m, sent + n>>
        /\ \A x \in merged : x[1][1] # m
        /\ acc.events[1][1] = m
  BY <1>4, JoinedInOrder, FirstIsOf
<1> HIDE DEF new
<1>8. \A x \in merged' : x \in merged \/ (x = acc.events /\ Merges(kept, c, acc) /\ x[1][1] = m)
  BY <1>5, <1>7
<1>9. ASSUME NEW d \in DOMAIN buffers'
      PROVE  \E k \in DOMAIN messages : OfMessage(d, k)'
  <2>1. CASE d # c
    <3>1. d \in kept /\ d \in DOMAIN buffers /\ buffers'[d] = buffers[d]
      BY <1>4, <1>5, <2>1 DEF Takes
    <3>2. PICK k \in DOMAIN messages : OfMessage(d, k)
      BY <3>1 DEF OneAtATime
    <3>3. k # m
      BY <1>6, <2>1, <3>1, <3>2 DEF OfMessage
    <3> QED
      BY <1>5, <1>8, <3>1, <3>2, <3>3, OthersGoOn
  <2>2. CASE d = c
    <3>1. Waits(kept, c, acc) /\ buffers'[c] = acc
      BY <1>5, <2>2
    <3>2. ~Completes(new[n]) /\ Kind(new[n]) = script[sent + n]
      BY <1>2, <1>3, <1>4, <3>1 DEF Waits, Takes
    <3>3. sent + n # Len(script)
      BY <1>2, <3>2 DEF Regular, Completes
    <3>4. Unfinished(m)'
      BY <1>1, <1>3, <3>3 DEF Unfinished
    <3>5. merged' = merged
      BY <3>1 DEF Waits, Store
    <3> QED
      BY <1>1, <1>4, <1>7, <2>2, <3>1, <3>4, <3>5 DEF OfMessage
  <2> QED
    BY <2>1, <2>2
<1>10. ASSUME NEW x \in merged'
       PROVE  \E k \in DOMAIN messages : MergedOf(x, k)'
  <2>1. CASE x \in merged
    BY <1>1, <1>5, <2>1, MergedGoOn DEF OneAtATime
  <2>2. CASE x = acc.events /\ Merges(kept, c, acc)
    <3>1. sent + n \in 1 .. messages'[m].sent
      BY <1>1, <1>3
    <3>2. PICK e \in Range(x) : Completes(e)
      BY <2>2 DEF Merges
    <3>3. e \in Sent'
      BY <1>4, <2>2, <3>2, RangeOfSeq
    <3>4. Completes(e)'
      BY <1>1, <3>2, <3>3, ChunkKeeps
    <3> QED
      BY <1>7, <2>2, <3>1, <3>4 DEF MergedOf
  <2> QED
    BY <1>8, <2>1, <2>2
<1>11. \A d, e \in DOMAIN buffers' : d[1] = e[1] => d = e
  BY <1>4, <1>5, <1>6 DEF OneAtATime, Takes
<1>12. \A x, y \in merged' : x[1][1] = y[1][1] => x = y
  BY <1>7, <1>8 DEF OneAtATime
<1>13. \A k, l \in DOMAIN messages : (Unfinished(k) /\ Unfinished(l))' /\
         messages'[k].stream = messages'[l].stream => k = l
  BY <1>1, <1>2 DEF OneAtATime, Unfinished
<1> QED
  BY <1>1, <1>9, <1>10, <1>11, <1>12, <1>13 DEF OneAtATime

\* and when a message is begun,
LEMMA OneAtATimeByBegin ==
  ASSUME Tidy, Tidy', OneAtATime, traffic.orderly, NEW s \in traffic.streams,
         NEW script \in traffic.scripts, Begin(s, script)
  PROVE  OneAtATime'
<1> DEFINE m == Len(messages) + 1
<1>1. /\ Grow /\ DOMAIN messages' = DOMAIN messages \cup {m} /\ m \notin DOMAIN messages
      /\ messages'[m].stream = s
      /\ \A k \in DOMAIN messages : messages'[k] = messages[k]
      /\ buffers' = buffers /\ merged' = merged /\ dropped' = dropped
      /\ \A k \in DOMAIN messages : messages[k].stream = s => ~Unfinished(k)
  <2>1. \A k \in DOMAIN messages : messages[k].stream = s => ~Unfinished(k)
    BY MessageShape DEF Begin, Tidy, Unfinished
  <2>2. buffers' = buffers /\ merged' = merged /\ dropped' = dropped
    BY DEF Begin
  <2>3. /\ Grow /\ DOMAIN messages' = DOMAIN messages \cup {m} /\ m \notin DOMAIN messages
        /\ messages'[m] = [stream |-> s, script |-> script, sent |-> 0]
        /\ \A k \in DOMAIN messages : messages'[k] = messages[k]
    BY BeginGrows DEF Tidy
  <2> QED
    BY <2>1, <2>2, <2>3
<1> HIDE DEF m
<1>2. \A k, l \in DOMAIN messages' : (Unfinished(k) /\ Unfinished(l))' /\
        messages'[k].stream = messages'[l].stream => k = l
  BY <1>1 DEF OneAtATime, Unfinished
<1>3. \A c \in DOMAIN buffers : \E k \in DOMAIN messages : OfMessage(c, k)'
  BY <1>1 DEF OneAtATime, OfMessage, Unfinished
<1>4. \A x \in merged : \E k \in DOMAIN messages : MergedOf(x, k)'
  BY <1>1, MergedGoOn DEF OneAtATime
<1> QED
  BY <1>1, <1>2, <1>3, <1>4 DEF OneAtATime

\* so that it always does.
LEMMA AlwaysOneAtATime == Spec => [](Tidy /\ (traffic.orderly => OneAtATime))
<1>1. Init => (traffic.orderly => OneAtATime)
  BY DEF Init, OneAtATime
<1>2. Tidy /\ Tidy' /\ (traffic.orderly => OneAtATime) /\ [Next]_vars =>
        (traffic.orderly => OneAtATime)'
  <2> SUFFICES ASSUME Tidy, Tidy', traffic.orderly => OneAtATime, [Next]_vars, traffic'.orderly
               PROVE  OneAtATime'
    OBVIOUS
  <2>1. traffic.orderly /\ OneAtATime
    BY DEF Next, Tick, Begin, Lose, Chunk, vars
  <2>2. CASE UNCHANGED <<messages, buffers, merged, dropped>>
    BY <2>1, <2>2 DEF OneAtATime, OfMessage, MergedOf, Unfinished, Completes, Kind
  <2>3. ASSUME NEW s \in traffic.streams, NEW script \in traffic.scripts, Begin(s, script)
        PROVE  OneAtATime'
    BY <2>1, <2>3, OneAtATimeByBegin
  <2>4. ASSUME NEW m \in DOMAIN messages, NEW n \in 1 .. Len(messages[m].script),
               NEW time \in 0 .. now, Chunk(m, n, time)
        PROVE  OneAtATime'
    <3>1. Arrives(m, n) /\ Process(m, Arriving(m, n), time)
      BY <2>4 DEF Chunk, Arrives
    <3> QED
      BY <2>1, <3>1, ChunkOutcomes, OneAtATimeBySkipping, OneAtATimeByJoining
  <2> QED
    BY <2>1, <2>2, <2>3, <2>4 DEF Next, Tick, Lose, vars
<1> QED
  BY <1>1, <1>2, AlwaysTidy, PTL DEF Spec

\* Of orderly traffic, a merged event is one message, in order and without
\* gaps but for what was dropped, and the only one of its message
\* (final_connection_id and the removal of what is_sse_complete).
THEOREM MergedAreWhole == Spec => []Whole
<1>1. Tidy /\ (traffic.orderly => OneAtATime) => Whole
  <2> SUFFICES ASSUME Tidy, OneAtATime, traffic.orderly
               PROVE  Whole
    BY DEF Whole
  <2>1. ASSUME NEW x \in merged
        PROVE  LET m == x[1][1]
               IN  /\ Range(x) = {<<m, i>> : i \in 1 .. Last(x)[2]} \ dropped
                   /\ \A i, j \in DOMAIN x : i < j => x[i][2] < x[j][2]
    <3>1. PICK m \in DOMAIN messages : MergedOf(x, m)
      BY DEF OneAtATime
    <3>2. PICK n \in 1 .. messages[m].sent : Last(x) = <<m, n>> /\ InOrder(x, m, n, dropped)
      BY <3>1 DEF MergedOf
    <3>3. x[1][1] = m /\ Last(x)[2] = n
      BY <3>2, FirstIsOf DEF Tidy, MergedEvents
    <3> QED
      BY <3>2, <3>3 DEF InOrder
  <2> QED
    BY <2>1 DEF Whole, OneAtATime
<1> QED
  BY <1>1, AlwaysOneAtATime, PTL

-----------------------------------------------------------------------------
\* HTTP/2 streams

\* Induction on natural numbers: a least counterexample, as in every set of them.
LEMMA LeastOf ==
  ASSUME NEW T, T \subseteq Nat, T # {}
  PROVE  \E x \in T : \A y \in T : x <= y
<1>1. IsWellFoundedOn(OpToRel(<, Nat), Nat)
  BY NatLessThanWellFounded
<1>2. PICK x \in T : \A y \in T : ~ (<<y, x>> \in OpToRel(<, Nat))
  BY <1>1, WFMin
<1>3. \A y \in T : ~ (y < x)
  BY <1>2 DEF OpToRel
<1> QED
  BY <1>3

LEMMA H2Assumed ==
  /\ H2MaxStreams \in Nat /\ H2MaxBody \in Nat \ {0} /\ H2Losses \in Nat
  /\ \A t \in H2Traffics, c \in H2Conns : /\ t[c].frames \in Seq(H2!Frames)
                                          /\ t[c].threads \subseteq H2Threads
BY ReassemblyAssumption DEF H2!Http2Assumption

\* What a connection has sent of a stream's side, as a walk along its frames
H2Is(tr, f, sid, d, type) ==
  /\ tr[f[1]].frames[f[2]].type = type /\ tr[f[1]].frames[f[2]].sid = sid
  /\ tr[f[1]].frames[f[2]].dir = d

H2Walk(walk, tr, c, sid, d, type, n) ==
  walk = [i \in 0 .. n |-> IF i = 0 THEN << >>
                           ELSE IF H2Is(tr, <<c, i>>, sid, d, type)
                             THEN Append(walk[i - 1], <<c, i>>)
                           ELSE walk[i - 1]]

H2UpTo(tr, c, sid, d, type, n) == (CHOOSE walk : H2Walk(walk, tr, c, sid, d, type, n))[n]

LEMMA SentIs ==
  \A c, sid, d, type, n :
    H2!SentUpTo(c, sid, d, type, n) = H2UpTo(h2Traffic, c, sid, d, type, n)
BY DEF H2!SentUpTo, H2UpTo, H2Walk, H2Is, H2!Frame

LEMMA WalkAt ==
  ASSUME NEW walk, NEW tr, NEW c, NEW sid, NEW d, NEW type, NEW n \in Nat,
         H2Walk(walk, tr, c, sid, d, type, n)
  PROVE  /\ walk[0] = << >>
         /\ \A i \in 1 .. n : walk[i] = IF H2Is(tr, <<c, i>>, sid, d, type)
                                        THEN Append(walk[i - 1], <<c, i>>) ELSE walk[i - 1]
<1>1. \A i \in 0 .. n : walk[i] = IF i = 0 THEN << >>
                           ELSE IF H2Is(tr, <<c, i>>, sid, d, type)
                             THEN Append(walk[i - 1], <<c, i>>)
                           ELSE walk[i - 1]
  BY DEF H2Walk
<1>2. 0 \in 0 .. n /\ \A i \in 1 .. n : i \in 0 .. n /\ i # 0
  OBVIOUS
<1> QED
  BY <1>1, <1>2

\* Two walks agree as far as both go,
LEMMA WalksAgree ==
  ASSUME NEW tr, NEW c, NEW sid, NEW d, NEW type, NEW m \in Nat, NEW n \in Nat, m <= n,
         NEW v, H2Walk(v, tr, c, sid, d, type, m), NEW w, H2Walk(w, tr, c, sid, d, type, n)
  PROVE  \A i \in 0 .. m : v[i] = w[i]
<1> DEFINE Bad == {i \in 0 .. m : v[i] # w[i]}
<1>1. SUFFICES ASSUME Bad # {}
               PROVE  FALSE
  OBVIOUS
<1>2. PICK i \in Bad : \A k \in Bad : i <= k
  <2>1. Bad \subseteq Nat
    OBVIOUS
  <2> HIDE DEF Bad
  <2> QED
    BY <1>1, <2>1, LeastOf
<1>3. i \in 0 .. m /\ v[i] # w[i]
  OBVIOUS
<1>4. i # 0
  BY <1>3, WalkAt
<1>5. i \in 1 .. m /\ i \in 1 .. n /\ i - 1 \in 0 .. m /\ ~(i <= i - 1)
  BY <1>3, <1>4
<1>6. v[i - 1] = w[i - 1]
  BY <1>2, <1>5
<1>7. v[i] = IF H2Is(tr, <<c, i>>, sid, d, type) THEN Append(v[i - 1], <<c, i>>) ELSE v[i - 1]
  BY <1>5, WalkAt
<1>8. w[i] = IF H2Is(tr, <<c, i>>, sid, d, type) THEN Append(w[i - 1], <<c, i>>) ELSE w[i - 1]
  BY <1>5, WalkAt
<1> QED
  BY <1>3, <1>6, <1>7, <1>8

\* and there is one of every length.
LEMMA WalksExist ==
  ASSUME NEW tr, NEW c, NEW sid, NEW d, NEW type, NEW n \in Nat
  PROVE  \E walk : H2Walk(walk, tr, c, sid, d, type, n)
<1> DEFINE Is(i) == H2Is(tr, <<c, i>>, sid, d, type)
           Step(i, x) == IF i = 0 THEN << >> ELSE IF Is(i) THEN Append(x, <<c, i>>) ELSE x
           Bad == {m \in Nat : ~ \E walk : H2Walk(walk, tr, c, sid, d, type, m)}
<1>0. \A walk, m : H2Walk(walk, tr, c, sid, d, type, m)
                     <=> walk = [i \in 0 .. m |-> Step(i, walk[i - 1])]
  BY DEF H2Walk
<1> HIDE DEF Is, Step
<1>1. SUFFICES ASSUME Bad # {}
               PROVE  FALSE
  OBVIOUS
<1>2. PICK m \in Bad : \A k \in Bad : m <= k
  <2>1. Bad \subseteq Nat
    OBVIOUS
  <2> HIDE DEF Bad
  <2> QED
    BY <1>1, <2>1, LeastOf
<1>3. m \in Nat /\ ~ \E walk : H2Walk(walk, tr, c, sid, d, type, m)
  OBVIOUS
<1>00. \A x, y : Step(0, x) = Step(0, y)
  BY DEF Step
<1>4. m # 0
  <2> DEFINE walk == [j \in 0 .. 0 |-> Step(0, << >>)]
  <2>1. walk = [j \in 0 .. 0 |-> Step(j, walk[j - 1])]
    <3>1. \A j \in 0 .. 0 : j = 0
      OBVIOUS
    <3>2. \A j \in 0 .. 0 : Step(0, << >>) = Step(j, walk[j - 1])
      BY <1>00, <3>1
    <3> QED
      BY <3>2, Zenon
  <2> HIDE DEF walk
  <2> QED
    BY <1>0, <1>3, <2>1
<1>5. m - 1 \in Nat /\ m - 1 \notin Bad
  <2>1. m - 1 \in Nat /\ ~(m <= m - 1)
    BY <1>3, <1>4
  <2> HIDE DEF Bad
  <2> QED
    BY <1>2, <2>1
<1>6. PICK r : H2Walk(r, tr, c, sid, d, type, m - 1)
  BY <1>5
<1> DEFINE walk == [j \in 0 .. m |-> Step(j, r[j - 1])]
<1>7. ASSUME NEW j \in 0 .. m - 1
      PROVE  walk[j] = r[j]
  <2>1. r[j] = Step(j, r[j - 1])
    BY <1>0, <1>6
  <2>2. j \in 0 .. m
    BY <1>3, <1>5
  <2> QED
    BY <2>1, <2>2
<1>8. \A j \in 0 .. m : j # 0 => j - 1 \in 0 .. m - 1
  BY <1>3, <1>5
<1>9. walk = [j \in 0 .. m |-> Step(j, walk[j - 1])]
  <2>1. \A j \in 0 .. m : Step(j, r[j - 1]) = Step(j, walk[j - 1])
    <3> HIDE DEF walk
    <3> QED
      BY <1>00, <1>7, <1>8
  <2> QED
    BY <2>1, Zenon
<1> HIDE DEF walk
<1> QED
  BY <1>0, <1>3, <1>9

LEMMA UpToIs ==
  ASSUME NEW tr, NEW c, NEW sid, NEW d, NEW type
  PROVE  /\ H2UpTo(tr, c, sid, d, type, 0) = << >>
         /\ \A n, m \in Nat : m = n + 1 =>
              H2UpTo(tr, c, sid, d, type, m) = IF H2Is(tr, <<c, m>>, sid, d, type)
                                               THEN Append(H2UpTo(tr, c, sid, d, type, n), <<c, m>>)
                                               ELSE H2UpTo(tr, c, sid, d, type, n)
<1> DEFINE Of(n) == CHOOSE walk : H2Walk(walk, tr, c, sid, d, type, n)
           UpTo(n) == H2UpTo(tr, c, sid, d, type, n)
<1>1. \A n \in Nat : H2Walk(Of(n), tr, c, sid, d, type, n)
  BY WalksExist
<1>2. \A n : UpTo(n) = Of(n)[n]
  BY DEF H2UpTo
<1> HIDE DEF Of, UpTo
<1>3. UpTo(0) = << >>
  BY <1>1, <1>2, WalkAt
<1>4. ASSUME NEW n \in Nat
      PROVE  UpTo(n + 1) = IF H2Is(tr, <<c, n + 1>>, sid, d, type)
                           THEN Append(UpTo(n), <<c, n + 1>>) ELSE UpTo(n)
  <2>1. n + 1 \in Nat /\ n + 1 \in 1 .. n + 1 /\ n <= n + 1 /\ n \in 0 .. n /\ (n + 1) - 1 = n
    OBVIOUS
  <2>2. H2Walk(Of(n), tr, c, sid, d, type, n) /\ H2Walk(Of(n + 1), tr, c, sid, d, type, n + 1)
    BY <1>1, <2>1
  <2>3. Of(n)[n] = Of(n + 1)[n]
    BY <2>1, <2>2, WalksAgree
  <2>4. Of(n + 1)[n + 1] = IF H2Is(tr, <<c, n + 1>>, sid, d, type)
                           THEN Append(Of(n + 1)[(n + 1) - 1], <<c, n + 1>>)
                           ELSE Of(n + 1)[(n + 1) - 1]
    BY <2>1, <2>2, WalkAt
  <2> QED
    BY <1>2, <2>1, <2>3, <2>4
<1> QED
  BY <1>3, <1>4 DEF UpTo

LEMMA UpToSeq ==
  ASSUME NEW tr, NEW c, NEW sid, NEW d, NEW type, NEW n \in Nat
  PROVE  H2UpTo(tr, c, sid, d, type, n) \in Seq({c} \X Nat)
<1> DEFINE UpTo(k) == H2UpTo(tr, c, sid, d, type, k)
           Bad == {k \in Nat : UpTo(k) \notin Seq({c} \X Nat)}
<1>0. /\ UpTo(0) = << >>
      /\ \A k, m \in Nat : m = k + 1 => UpTo(m) = Append(UpTo(k), <<c, m>>) \/ UpTo(m) = UpTo(k)
  <2>1. UpTo(0) = << >>
    BY UpToIs
  <2>2. \A k, m \in Nat : m = k + 1 => UpTo(m) = IF H2Is(tr, <<c, m>>, sid, d, type)
                                                THEN Append(UpTo(k), <<c, m>>) ELSE UpTo(k)
    BY UpToIs
  <2> HIDE DEF UpTo
  <2> QED
    BY <2>1, <2>2
<1> HIDE DEF UpTo
<1>1. SUFFICES ASSUME Bad # {}
               PROVE  FALSE
  BY DEF UpTo
<1>2. PICK k \in Bad : \A j \in Bad : k <= j
  <2>1. Bad \subseteq Nat
    OBVIOUS
  <2> HIDE DEF Bad
  <2> QED
    BY <1>1, <2>1, LeastOf
<1>3. k \in Nat /\ UpTo(k) \notin Seq({c} \X Nat)
  OBVIOUS
<1>4. k # 0
  <2>1. << >> \in Seq({c} \X Nat)
    OBVIOUS
  <2> QED
    BY <1>0, <1>3, <2>1
<1>5. k - 1 \in Nat /\ (k - 1) + 1 = k /\ ~(k <= k - 1)
  BY <1>3, <1>4
<1>6. UpTo(k - 1) \in Seq({c} \X Nat)
  BY <1>2, <1>5
<1>7. Append(UpTo(k - 1), <<c, k>>) \in Seq({c} \X Nat)
  BY <1>3, <1>6
<1> QED
  BY <1>0, <1>3, <1>5, <1>6, <1>7

\* The part of a body that there is room for
H2Cut(s) == SubSeq(s, IF Len(s) > H2MaxBody THEN Len(s) - H2MaxBody + 1 ELSE 1, Len(s))

LEMMA CutExtended ==
  ASSUME NEW S, NEW s \in Seq(S), NEW f \in S
  PROVE  /\ H2Cut(s) \in Seq(S)
         /\ H2!Extended(H2Cut(s), f) = H2Cut(Append(s, f))
<1> DEFINE n == Len(s)
           first == IF n > H2MaxBody THEN n - H2MaxBody + 1 ELSE 1
           t == Append(s, f)
           next == IF n + 1 > H2MaxBody THEN (n + 1) - H2MaxBody + 1 ELSE 1
<1>1. /\ n \in Nat /\ H2MaxBody \in Nat /\ H2MaxBody >= 1
      /\ first \in 1 .. n + 1 /\ next \in 1 .. n + 1
  BY H2Assumed
<1>0. /\ n < H2MaxBody => first = 1 /\ next = 1
      /\ n = H2MaxBody => first = 1 /\ next = 2
      /\ n > H2MaxBody => first = n - H2MaxBody + 1 /\ next = first + 1
  BY <1>1
<1>2. /\ t \in Seq(S) /\ Len(t) = n + 1 /\ t[n + 1] = f
      /\ \A i \in 1 .. n : t[i] = s[i]
  OBVIOUS
<1>3. H2Cut(s) = SubSeq(s, first, n) /\ H2Cut(t) = SubSeq(t, next, n + 1)
  <2> HIDE DEF t
  <2> QED
    BY <1>2 DEF H2Cut
<1> HIDE DEF t, first, next
<1> DEFINE x == H2Cut(s)
           y == H2Cut(t)
<1>4. /\ x \in Seq(S) /\ Len(x) = n + 1 - first
      /\ \A i \in 1 .. Len(x) : x[i] = s[first + i - 1]
  <2>1. n \in first - 1 .. Len(s)
    BY <1>1
  <2> QED
    BY <1>1, <1>3, <2>1, SubSeqProperties
<1>5. /\ y \in Seq(S) /\ Len(y) = n + 2 - next
      /\ \A i \in 1 .. Len(y) : y[i] = t[next + i - 1]
  <2>1. next \in 1 .. Len(t) + 1 /\ n + 1 \in next - 1 .. Len(t)
    BY <1>1, <1>2
  <2> QED
    BY <1>1, <1>2, <1>3, <2>1, SubSeqProperties
<1> HIDE DEF x, y, n
<1>6. H2!Extended(x, f) = y
  <2>1. CASE Len(x) < H2MaxBody
    <3>1. first = 1 /\ next = 1 /\ Len(x) = n /\ Len(y) = n + 1
      BY <1>0, <1>1, <1>4, <1>5, <2>1
    <3>2. Append(x, f) \in Seq(S) /\ Len(Append(x, f)) = n + 1
      BY <1>4, <3>1
    <3>3. \A i \in 1 .. n + 1 : Append(x, f)[i] = IF i = n + 1 THEN f ELSE x[i]
      BY <1>4, <3>1
    <3>4. \A i \in 1 .. n + 1 : y[i] = t[i]
      BY <1>1, <1>5, <3>1
    <3>5. \A i \in 1 .. n : x[i] = s[i]
      BY <1>1, <1>4, <3>1
    <3>6. \A i \in 1 .. n + 1 : Append(x, f)[i] = y[i]
      <4> TAKE i \in 1 .. n + 1
      <4>1. i = n + 1 \/ i \in 1 .. n
        BY <1>1
      <4> QED
        BY <1>2, <3>3, <3>4, <3>5, <4>1
    <3>7. Append(x, f) = y
      BY <1>5, <3>1, <3>2, <3>6, SeqEqual
    <3> QED
      BY <2>1, <3>7 DEF H2!Extended
  <2>2. CASE ~(Len(x) < H2MaxBody)
    <3>1. Len(x) = H2MaxBody /\ Len(y) = H2MaxBody /\ next = first + 1 /\ first - 1 + H2MaxBody = n
      BY <1>0, <1>1, <1>4, <1>5, <2>2
    <3> DEFINE z == Append(Tail(x), f)
    <3>2. Tail(x) \in Seq(S) /\ Len(Tail(x)) = H2MaxBody - 1
          /\ \A i \in 1 .. H2MaxBody - 1 : Tail(x)[i] = x[i + 1]
      BY <1>1, <1>4, <3>1
    <3>3. z \in Seq(S) /\ Len(z) = H2MaxBody
          /\ \A i \in 1 .. H2MaxBody : z[i] = IF i = H2MaxBody THEN f ELSE x[i + 1]
      BY <1>1, <3>2
    <3> HIDE DEF z
    <3>4. ASSUME NEW i \in 1 .. H2MaxBody
          PROVE  z[i] = y[i]
      <4>1. y[i] = t[first + i]
        <5>1. i \in 1 .. Len(y) /\ next + i - 1 = first + i
          BY <1>1, <3>1
        <5> QED
          BY <1>5, <5>1
      <4>2. CASE i = H2MaxBody
        <5>1. first + i = n + 1
          BY <1>1, <3>1, <4>2
        <5> QED
          BY <1>2, <3>3, <4>1, <4>2, <5>1
      <4>3. CASE i # H2MaxBody
        <5>1. i + 1 \in 1 .. Len(x) /\ first + (i + 1) - 1 = first + i /\ first + i \in 1 .. n
          BY <1>1, <3>1, <4>3
        <5>2. x[i + 1] = s[first + i]
          BY <1>4, <5>1
        <5>3. t[first + i] = s[first + i]
          BY <1>2, <5>1
        <5> QED
          BY <3>3, <4>1, <4>3, <5>2, <5>3
      <4> QED
        BY <4>2, <4>3
    <3>5. z = y
      BY <1>5, <3>1, <3>3, <3>4, SeqEqual
    <3> QED
      BY <2>2, <3>5 DEF H2!Extended, z
  <2> QED
    BY <2>1, <2>2
<1> QED
  BY <1>4, <1>6 DEF x, y, t

-----------------------------------------------------------------------------
H2Keys  == H2Threads \X Nat
H2Bodies == [H2!Directions -> Seq(H2Conns \X Nat)]

\* What a key has, in a map that may be that of the next state
H2Entry(map, k) == IF k \in DOMAIN map THEN map[k] ELSE H2!Empty

H2State(state) ==
  /\ state = [hdr |-> state.hdr, body |-> state.body, emitted |-> state.emitted]
  /\ DOMAIN state.hdr = H2!Directions
  /\ state.body \in H2Bodies /\ state.emitted \subseteq H2!Directions

H2Shape ==
  /\ h2Traffic \in H2Traffics
  /\ h2Pos \in [H2Conns -> Nat] /\ \A c \in H2Conns : h2Pos[c] <= Len(h2Traffic[c].frames)
  /\ \A k \in DOMAIN h2Streams : k \in H2Keys /\ H2State(h2Streams[k])
  /\ \A k \in DOMAIN h2Pending :
       /\ h2Pending[k][1] \in H2Conns
       /\ h2Pending[k][2] \in 1 .. Len(h2Traffic[h2Pending[k][1]].frames)
  /\ h2Ran \in [H2Conns -> SUBSET H2Threads] /\ \A c \in H2Conns : IsFiniteSet(h2Ran[c])
  /\ h2Dropped = [conns |-> h2Dropped.conns, keys |-> h2Dropped.keys, blocks |-> h2Dropped.blocks]

\* A message is of a frame that has come, on a thread that its connection has run on.
H2SaidBy(m) ==
  /\ m.by[1] \in H2Conns /\ m.by[2] \in Nat /\ m.by[2] <= h2Pos[m.by[1]]
  /\ m.key[1] \in h2Ran[m.by[1]] /\ m.key[2] = H2!Frame(m.by).sid
  /\ m.dir \in H2!Directions

H2SaidOf(k, d) == {i \in 1 .. Len(h2Messages) : h2Messages[i].key = k /\ h2Messages[i].dir = d}

H2MessagesBy ==
  /\ \E S : h2Messages \in Seq(S)
  /\ \A i \in 1 .. Len(h2Messages) : H2SaidBy(h2Messages[i])

\* A side that a state takes as finished has a message.
H2EmittedOnce ==
  \A k \in DOMAIN h2Streams : \A d \in h2Streams[k].emitted : H2SaidOf(k, d) # {}

\* The connection has had the thread to itself, and nothing of it was lost.
H2Quiet(c, t) ==
  /\ h2Ran[c] \subseteq {t} /\ \A e \in H2Conns \ {c} : t \notin h2Ran[e]
  /\ c \notin h2Dropped.conns \cup h2Dropped.blocks
  /\ \A k \in h2Dropped.keys : k[1] # t

\* Then the body of a side without a message is the end of what has come of it,
H2BodyAt(c, t) ==
  \A sid \in Nat, d \in H2!Directions :
    H2SaidOf(<<t, sid>>, d) = {} =>
      H2Entry(h2Streams, <<t, sid>>).body[d]
        = H2Cut(H2UpTo(h2Traffic, c, sid, d, "data", h2Pos[c]))

\* and so is that of the side's first message.
H2FirstAt(c, t) ==
  \A i \in 1 .. Len(h2Messages) :
    /\ h2Messages[i].by[1] = c /\ h2Messages[i].key[1] = t
    /\ \A j \in 1 .. i - 1 : h2Messages[j].key # h2Messages[i].key
                             \/ h2Messages[j].dir # h2Messages[i].dir
    => h2Messages[i].body = H2Cut(H2UpTo(h2Traffic, c, h2Messages[i].key[2], h2Messages[i].dir,
                                         "data", h2Messages[i].by[2]))

H2Bodied == \A c \in H2Conns, t \in H2Threads : H2Quiet(c, t) => H2BodyAt(c, t) /\ H2FirstAt(c, t)

H2Kept == H2Shape /\ H2MessagesBy /\ H2EmittedOnce /\ H2Bodied

LEMMA H2Words ==
  /\ \A S : H2!Cardinality(S) = Cardinality(S)
  /\ \A s : H2!ToSet(s) = {s[i] : i \in DOMAIN s}
BY DEF H2!Cardinality, Cardinality, H2!ToSet

\* A connection with all its records here has its thread for itself.
LEMMA H2IntactIs ==
  ASSUME H2Shape, NEW c \in H2Conns, H2!Intact(c), NEW t, t \in h2Ran[c]
  PROVE  H2Quiet(c, t) /\ h2Ran[c] = {t} /\ t \in H2Threads
<1>1. h2Ran[c] \in SUBSET H2Threads /\ IsFiniteSet(h2Ran[c])
  BY DEF H2Shape
<1>2. H2!Apart(c) /\ c \notin h2Dropped.conns \cup h2Dropped.blocks
      /\ \A k \in h2Dropped.keys : k[1] \notin h2Ran[c]
  BY DEF H2!Intact
<1>3. h2Ran[c] = {t}
  <2>1. \E x : h2Ran[c] = {x}
    BY <1>1, <1>2, FS_Singleton, H2Words DEF H2!Apart
  <2> QED
    BY <2>1
<1> QED
  BY <1>1, <1>2, <1>3 DEF H2Quiet, H2!Apart

LEMMA H2OwnBody == H2Kept => H2!OwnBody
<1> SUFFICES ASSUME H2Kept, NEW c \in H2Conns, H2!Intact(c), NEW i \in DOMAIN h2Messages,
                    h2Messages[i].by[1] = c,
                    \A j \in 1 .. i - 1 : h2Messages[j].key # h2Messages[i].key
                                          \/ h2Messages[j].dir # h2Messages[i].dir
             PROVE  LET m == h2Messages[i]
                        upTo == H2!SentUpTo(c, H2!Frame(m.by).sid, m.dir, "data", m.by[2])
                        all == Len(upTo)
                    IN  m.body = SubSeq(upTo, IF all > H2MaxBody THEN all - H2MaxBody + 1 ELSE 1,
                                        all)
  BY DEF H2!OwnBody
<1> DEFINE m == h2Messages[i]
           t == m.key[1]
<1>1. i \in 1 .. Len(h2Messages) /\ H2SaidBy(m)
  BY DEF H2Kept, H2MessagesBy
<1>2. t \in h2Ran[c] /\ m.key[2] = H2!Frame(m.by).sid
  BY <1>1 DEF H2SaidBy
<1>3. H2Quiet(c, t) /\ t \in H2Threads
  BY <1>2, H2IntactIs DEF H2Kept
<1>4. H2FirstAt(c, t)
  BY <1>3 DEF H2Kept, H2Bodied
<1>5. m.body = H2Cut(H2UpTo(h2Traffic, c, m.key[2], m.dir, "data", m.by[2]))
  BY <1>1, <1>4 DEF H2FirstAt
<1> QED
  BY <1>2, <1>5, SentIs DEF H2Cut

\* A state that may take a side as finished, and its message
H2Emits(state, d, ends) == ends /\ d \notin state.emitted
H2After(state, d, ends) ==
  IF H2Emits(state, d, ends) THEN [state EXCEPT !.emitted = @ \cup {d}] ELSE state
H2Message(k, state, d, f) ==
  [by |-> f, key |-> k, dir |-> d, hdr |-> state.hdr[d], body |-> state.body[d]]

LEMMA H2AfterIs ==
  ASSUME NEW state, H2State(state), NEW d \in H2!Directions, NEW ends
  PROVE  LET after == H2After(state, d, ends) IN
         /\ H2State(after) /\ after.body = state.body /\ after.hdr = state.hdr
         /\ after.emitted
              = IF H2Emits(state, d, ends) THEN state.emitted \cup {d} ELSE state.emitted
<1>1. CASE H2Emits(state, d, ends)
  <2>1. H2After(state, d, ends) = [state EXCEPT !.emitted = @ \cup {d}]
    BY <1>1 DEF H2After
  <2>2. [state EXCEPT !.emitted = @ \cup {d}]
          = [hdr |-> state.hdr, body |-> state.body, emitted |-> state.emitted \cup {d}]
    BY DEF H2State
  <2> QED
    BY <1>1, <2>1, <2>2 DEF H2State
<1>2. CASE ~H2Emits(state, d, ends)
  BY <1>2 DEF H2After
<1> QED
  BY <1>1, <1>2

LEMMA H2FinishIs ==
  ASSUME H2Shape, NEW k, NEW state, NEW d, NEW f, NEW ends, H2!Finish(k, state, d, f, ends)
  PROVE  LET after == H2After(state, d, ends) IN
         /\ h2Messages' = IF H2Emits(state, d, ends)
                          THEN Append(h2Messages, H2Message(k, state, d, f)) ELSE h2Messages
         /\ \A j \in DOMAIN h2Streams' :
              \/ j # k /\ j \in DOMAIN h2Streams /\ h2Streams'[j] = h2Streams[j]
              \/ j = k /\ h2Streams'[j] = after
         /\ \A j : j \notin h2Dropped'.keys =>
              H2Entry(h2Streams', j) = IF j # k THEN H2Entry(h2Streams, j)
                                       ELSE IF after.emitted = H2!Directions
                                              THEN H2!Empty ELSE after
         /\ h2Dropped' = [conns |-> h2Dropped.conns, keys |-> h2Dropped'.keys,
                          blocks |-> h2Dropped.blocks]
         /\ h2Dropped.keys \subseteq h2Dropped'.keys
<1> DEFINE after == H2After(state, d, ends)
           kept == IF after.emitted = H2!Directions THEN H2!Without(h2Streams, {k})
                   ELSE H2!Put(h2Streams, k, after)
<1>1. PICK ks : /\ h2Streams' = H2!Without(kept, ks)
                /\ h2Dropped' = [h2Dropped EXCEPT !.keys = @ \cup ks]
  BY DEF H2!Finish, H2After, H2Emits
<1>2. h2Messages' = IF H2Emits(state, d, ends)
                    THEN Append(h2Messages, H2Message(k, state, d, f)) ELSE h2Messages
  BY DEF H2!Finish, H2Emits, H2Message
<1>3. /\ h2Dropped' = [conns |-> h2Dropped.conns, keys |-> h2Dropped.keys \cup ks,
                       blocks |-> h2Dropped.blocks]
      /\ h2Dropped'.keys = h2Dropped.keys \cup ks
  BY <1>1 DEF H2Shape
<1> HIDE DEF after
<1>4. CASE after.emitted = H2!Directions
  <2>1. DOMAIN kept = DOMAIN h2Streams \ {k} /\ \A j \in DOMAIN kept : kept[j] = h2Streams[j]
    BY <1>4 DEF H2!Without
  <2> HIDE DEF kept
  <2>2. DOMAIN h2Streams' = (DOMAIN h2Streams \ {k}) \ ks
        /\ \A j \in DOMAIN h2Streams' : h2Streams'[j] = h2Streams[j]
    BY <1>1, <2>1 DEF H2!Without
  <2>3. \A j : j \notin h2Dropped'.keys =>
              H2Entry(h2Streams', j) = IF j # k THEN H2Entry(h2Streams, j) ELSE H2!Empty
    BY <1>3, <2>2 DEF H2Entry
  <2> QED
    BY <1>2, <1>3, <1>4, <2>2, <2>3 DEF after
<1>5. CASE after.emitted # H2!Directions
  <2>1. DOMAIN kept = DOMAIN h2Streams \cup {k}
        /\ \A j \in DOMAIN kept : kept[j] = IF j = k THEN after ELSE h2Streams[j]
    BY <1>5 DEF H2!Put
  <2> HIDE DEF kept
  <2>2. DOMAIN h2Streams' = (DOMAIN h2Streams \cup {k}) \ ks
        /\ \A j \in DOMAIN h2Streams' : h2Streams'[j] = IF j = k THEN after ELSE h2Streams[j]
    BY <1>1, <2>1 DEF H2!Without
  <2>3. \A j : j \notin h2Dropped'.keys =>
              H2Entry(h2Streams', j) = IF j # k THEN H2Entry(h2Streams, j) ELSE after
    BY <1>3, <2>2 DEF H2Entry
  <2> QED
    BY <1>2, <1>3, <1>5, <2>2, <2>3 DEF after
<1> QED
  BY <1>4, <1>5

\* The block that a record is, or ends
H2BlockOf(t, f, d, h) ==
  \/ h = f /\ d = H2!Frame(f).dir /\ H2!Frame(f).type = "headers"
  \/ /\ H2!Key(t, f) \in DOMAIN h2Pending /\ h = h2Pending[H2!Key(t, f)]
     /\ d = H2!Frame(h).dir /\ H2!Frame(f).type = "continuation"

\* A state's headers are those of the key, and those of a block that is decoded now.
H2HasHeaders(t, f, state, d) ==
  LET old == H2Entry(h2Streams, H2!Key(t, f)).hdr
  IN  \/ state.hdr = old
      \/ \E h : /\ H2BlockOf(t, f, d, h) /\ H2!Decodes(d, h)
               /\ state.hdr = [old EXCEPT ![d] = @ \cup {H2!Decoded(d, h)}]

\* A side is finished by its end, or by data that completes a JSON document.
H2EndsFor(f, state, d, ends) ==
  /\ H2!Ending(f) => ends
  /\ ends => \/ H2!Ending(f)
             \/ /\ H2!Frame(f).type = "data" /\ H2!Frame(f).json
                /\ state.body[d] = H2UpTo(h2Traffic, f[1], H2!Frame(f).sid, d, "data", f[2])

\* What a record does to streams and messages: nothing, or this.
H2Handled(c, t, f, state, d, ends) ==
  /\ H2!Finish(H2!Key(t, f), state, d, f, ends)
  /\ H2State(state) /\ d \in H2!Directions /\ (ends => d = H2!Frame(f).dir)
  /\ state.emitted = H2Entry(h2Streams, H2!Key(t, f)).emitted
  /\ state.body = IF H2!Frame(f).type = "data"
                  THEN [H2Entry(h2Streams, H2!Key(t, f)).body EXCEPT ![d] = H2!Extended(@, f)]
                  ELSE H2Entry(h2Streams, H2!Key(t, f)).body
  /\ H2!Frame(f).type = "data" => d = H2!Frame(f).dir
  /\ H2HasHeaders(t, f, state, d) /\ H2EndsFor(f, state, d, ends)

LEMMA H2EmptyIs == H2State(H2!Empty) /\ H2!Empty.emitted = {}
                   /\ \A d \in H2!Directions : H2!Empty.body[d] = << >> /\ H2!Empty.hdr[d] = {}
BY DEF H2State, H2!Empty, H2Bodies

LEMMA H2EntryIs ==
  ASSUME H2Shape, NEW k
  PROVE  H2State(H2Entry(h2Streams, k)) /\ H2!Entry(k) = H2Entry(h2Streams, k)
BY H2EmptyIs DEF H2Entry, H2!Entry, H2Shape

\* A frame that has been sent or is the next one
LEMMA H2FrameIs ==
  ASSUME H2Shape, NEW c \in H2Conns, NEW n \in 1 .. Len(h2Traffic[c].frames)
  PROVE  /\ H2!Frame(<<c, n>>) \in H2!Frames
         /\ H2!Frame(<<c, n>>).dir \in H2!Directions /\ H2!Frame(<<c, n>>).sid \in Nat
         /\ H2!Frame(<<c, n>>).type \in {"data", "headers", "continuation"}
         /\ H2!Frame(<<c, n>>).endStream \in BOOLEAN
<1>1. h2Traffic[c].frames \in Seq(H2!Frames)
  BY H2Assumed DEF H2Shape
<1>2. H2!Frame(<<c, n>>) = h2Traffic[c].frames[n]
  BY DEF H2!Frame
<1>3. H2!Frame(<<c, n>>) \in H2!Frames
  BY <1>1, <1>2
<1> HIDE DEF H2!Frame
<1> QED
  BY <1>3 DEF H2!Frames

LEMMA H2DataIs ==
  ASSUME H2Shape, NEW c \in H2Conns, NEW n \in 1 .. Len(h2Traffic[c].frames), NEW t,
         H2!Data(H2!Key(t, <<c, n>>), <<c, n>>)
  PROVE  /\ \E state, d, ends : H2Handled(c, t, <<c, n>>, state, d, ends)
         /\ h2Pending' = h2Pending
<1> DEFINE f == <<c, n>>
           k == H2!Key(t, f)
           old == H2Entry(h2Streams, k)
           d == H2!Frame(f).dir
           state == [H2!Entry(k) EXCEPT !.body[d] = H2!Extended(@, f)]
           ends == H2!Frame(f).endStream \/ (d = "response" /\ H2!CompleteJson(state.body[d]))
<1>1. /\ H2!Frame(f).type = "data" /\ H2!Finish(k, state, d, f, ends) /\ h2Pending' = h2Pending
  BY DEF H2!Data
<1>2. H2State(old) /\ H2!Entry(k) = old /\ d \in H2!Directions
  BY H2EntryIs, H2FrameIs
<1>3. f \in H2Conns \X Nat
  OBVIOUS
<1> HIDE DEF f, k, old, d
<1>4. /\ state = [hdr |-> old.hdr, body |-> [old.body EXCEPT ![d] = H2!Extended(@, f)],
                  emitted |-> old.emitted]
  BY <1>2 DEF H2State
<1>5. old.body[d] \in Seq(H2Conns \X Nat) /\ old.body \in H2Bodies
  BY <1>2 DEF H2State, H2Bodies
<1>6. H2!Extended(old.body[d], f) \in Seq(H2Conns \X Nat)
  <2>1. CASE Len(old.body[d]) < H2MaxBody
    BY <1>3, <1>5, <2>1 DEF H2!Extended
  <2>2. CASE ~(Len(old.body[d]) < H2MaxBody)
    <3>1. old.body[d] # << >>
      BY <2>2, H2Assumed
    <3>2. Tail(old.body[d]) \in Seq(H2Conns \X Nat)
      BY <1>5, <3>1
    <3> QED
      BY <1>3, <2>2, <3>2 DEF H2!Extended
  <2> QED
    BY <2>1, <2>2
<1>7. [old.body EXCEPT ![d] = H2!Extended(@, f)] \in H2Bodies
  BY <1>5, <1>6 DEF H2Bodies
<1> HIDE DEF state, ends
<1>8. /\ H2State(state) /\ state.emitted = old.emitted
      /\ state.body = [old.body EXCEPT ![d] = H2!Extended(@, f)]
  BY <1>2, <1>4, <1>7 DEF H2State
<1>9. H2HasHeaders(t, f, state, d)
  BY <1>2, <1>4 DEF H2HasHeaders, k, old
<1>10. H2EndsFor(f, state, d, ends)
  <2>1. H2!Ending(f) => ends
    BY DEF H2!Ending, ends
  <2>2. ASSUME ends, ~H2!Ending(f)
        PROVE  H2!Frame(f).json
               /\ state.body[d] = H2UpTo(h2Traffic, f[1], H2!Frame(f).sid, d, "data", f[2])
    <3>1. H2!CompleteJson(state.body[d])
      BY <1>1, <2>2 DEF ends, H2!Ending, d
    <3>2. state.body[d] = H2!Extended(old.body[d], f)
      BY <1>2, <1>5, <1>8 DEF H2Bodies
    <3>3. H2!Last(state.body[d]) = f
      <4>1. CASE Len(old.body[d]) < H2MaxBody
        BY <1>3, <1>5, <3>2, <4>1 DEF H2!Extended, H2!Last
      <4>2. CASE ~(Len(old.body[d]) < H2MaxBody)
        <5>1. old.body[d] # << >>
          BY <4>2, H2Assumed
        <5>2. Tail(old.body[d]) \in Seq(H2Conns \X Nat)
          BY <1>5, <5>1
        <5> QED
          BY <1>3, <3>2, <4>2, <5>2 DEF H2!Extended, H2!Last
      <4> QED
        BY <4>1, <4>2
    <3> QED
      BY <3>1, <3>3, SentIs DEF H2!CompleteJson, d
  <2> QED
    BY <1>1, <2>1, <2>2 DEF H2EndsFor
<1>11. H2Handled(c, t, f, state, d, ends)
  BY <1>1, <1>2, <1>8, <1>9, <1>10 DEF H2Handled, d, k, old
<1> QED
  BY <1>1, <1>11 DEF f

LEMMA H2ApplyIs ==
  ASSUME H2Shape, NEW c, NEW t, NEW f, NEW d \in H2!Directions, NEW h,
         NEW ends \in BOOLEAN, ends <=> H2!Ending(f), ends => d = H2!Frame(f).dir,
         H2!Frame(f).type # "data", H2BlockOf(t, f, d, h),
         H2!Apply(H2!Key(t, f), d, h, f, ends)
  PROVE  \/ UNCHANGED <<h2Streams, h2Messages, h2Dropped>> /\ ~H2!Decodes(d, h)
         \/ \E state, side, last : H2Handled(c, t, f, state, side, last)
<1> DEFINE k == H2!Key(t, f)
           old == H2Entry(h2Streams, k)
           state == [H2!Entry(k) EXCEPT !.hdr[d] = @ \cup {H2!Decoded(d, h)}]
<1>1. H2State(old) /\ H2!Entry(k) = old
  BY H2EntryIs
<1>2. CASE H2!Decodes(d, h)
  <2>1. H2!Finish(k, state, d, f, ends)
    BY <1>2 DEF H2!Apply
  <2> HIDE DEF k, old
  <2>2. state = [hdr |-> [old.hdr EXCEPT ![d] = @ \cup {H2!Decoded(d, h)}], body |-> old.body,
                 emitted |-> old.emitted]
    BY <1>1 DEF H2State
  <2> HIDE DEF state
  <2>3. H2State(state) /\ state.body = old.body /\ state.emitted = old.emitted
    BY <1>1, <2>2 DEF H2State
  <2>4. H2HasHeaders(t, f, state, d)
    BY <1>2, <2>2 DEF H2HasHeaders, k, old
  <2>5. H2EndsFor(f, state, d, ends)
    BY DEF H2EndsFor
  <2>6. H2Handled(c, t, f, state, d, ends)
    BY <2>1, <2>3, <2>4, <2>5 DEF H2Handled, k, old
  <2> QED
    BY <2>6
<1>3. CASE ~H2!Decodes(d, h)
  BY <1>3 DEF H2!Apply
<1> QED
  BY <1>2, <1>3

\* What a record leaves that is no more than a part of a header block, or none
H2Ignored(f) ==
  /\ h2Streams' = h2Streams /\ h2Messages' = h2Messages /\ H2!Frame(f).type # "data"
  /\ h2Dropped' = [conns |-> h2Dropped.conns, keys |-> h2Dropped.keys, blocks |-> h2Dropped'.blocks]
  /\ h2Dropped.blocks \subseteq h2Dropped'.blocks
  /\ H2!Ending(f) => ~H2!Decodes(H2!Frame(f).dir, f)

LEMMA H2AppliedIs ==
  ASSUME H2Shape, NEW c, NEW t, NEW f, NEW d \in H2!Directions, NEW h,
         NEW ends \in BOOLEAN, ends <=> H2!Ending(f), ends => d = H2!Frame(f).dir,
         H2!Frame(f).type # "data", H2BlockOf(t, f, d, h),
         H2!Apply(H2!Key(t, f), d, h, f, ends)
  PROVE  H2Ignored(f) \/ \E state, side, last : H2Handled(c, t, f, state, side, last)
<1>1. CASE UNCHANGED <<h2Streams, h2Messages, h2Dropped>> /\ ~H2!Decodes(d, h)
  <2>1. H2!Ending(f) => h = f /\ d = H2!Frame(f).dir
    BY DEF H2!Ending, H2BlockOf
  <2> QED
    BY <1>1, <2>1 DEF H2Ignored, H2Shape
<1> QED
  BY <1>1, H2ApplyIs

LEMMA H2ReceiveIs ==
  ASSUME H2Shape, NEW c \in H2Conns, NEW t, H2!Receive(c, t)
  PROVE  LET f == <<c, h2Pos[c] + 1>> IN
         /\ h2Pos[c] + 1 \in 1 .. Len(h2Traffic[c].frames) /\ h2Traffic' = h2Traffic
         /\ h2Pos' = [h2Pos EXCEPT ![c] = h2Pos[c] + 1]
         /\ h2Ran' = [h2Ran EXCEPT ![c] = h2Ran[c] \cup {t}]
         /\ \A k \in DOMAIN h2Pending' :
              h2Pending'[k] = f \/ (k \in DOMAIN h2Pending /\ h2Pending'[k] = h2Pending[k])
         /\ H2Ignored(f) \/ \E state, d, ends : H2Handled(c, t, f, state, d, ends)
<1> DEFINE n == h2Pos[c] + 1
           f == <<c, n>>
           k == H2!Key(t, f)
<1>1. /\ h2Pos[c] < Len(h2Traffic[c].frames) /\ h2Traffic' = h2Traffic
      /\ h2Pos' = [h2Pos EXCEPT ![c] = h2Pos[c] + 1]
      /\ h2Ran' = [h2Ran EXCEPT ![c] = h2Ran[c] \cup {t}]
      /\ H2!Data(k, f) \/ H2!Headers(k, f) \/ H2!Continuation(k, f)
  BY DEF H2!Receive
<1>2. n \in 1 .. Len(h2Traffic[c].frames)
  <2>1. h2Traffic[c].frames \in Seq(H2!Frames) /\ h2Pos[c] \in Nat
    BY H2Assumed DEF H2Shape
  <2> QED
    BY <1>1, <2>1
<1> HIDE DEF n
<1>3. H2!Frame(f).dir \in H2!Directions
  BY <1>2, H2FrameIs
<1>4. CASE H2!Data(k, f)
  BY <1>1, <1>2, <1>4, H2DataIs DEF n
<1>5. CASE H2!Headers(k, f)
  <2>1. H2!Frame(f).type # "data"
    BY <1>5 DEF H2!Headers
  <2>2. CASE H2!Frame(f).endHeaders
    <3>1. H2!Apply(k, H2!Frame(f).dir, f, f, H2!Frame(f).endStream) /\ h2Pending' = h2Pending
      BY <1>5, <2>2 DEF H2!Headers
    <3>2. (H2!Ending(f) <=> H2!Frame(f).endStream) /\ H2!Frame(f).endStream \in BOOLEAN
      BY <1>2, <1>5, <2>2, H2FrameIs DEF H2!Headers, H2!Ending
    <3>3. H2BlockOf(t, f, H2!Frame(f).dir, f)
      BY <1>5 DEF H2!Headers, H2BlockOf
    <3>4. H2Ignored(f) \/ \E state, d, ends : H2Handled(c, t, f, state, d, ends)
      BY <1>3, <2>1, <3>1, <3>2, <3>3, H2AppliedIs
    <3> QED
      BY <1>1, <1>2, <3>1, <3>4 DEF n
  <2>3. CASE ~H2!Frame(f).endHeaders
    <3>1. PICK ks : /\ h2Pending' = H2!Without(H2!Put(h2Pending, k, f), ks)
                    /\ h2Dropped' = [h2Dropped EXCEPT !.blocks =
                                               @ \cup {H2!Put(h2Pending, k, f)[j][1] : j \in ks}]
                    /\ UNCHANGED <<h2Table, h2Streams, h2Messages>>
      BY <1>5, <2>3 DEF H2!Headers
    <3>2. \A j \in DOMAIN h2Pending' :
            h2Pending'[j] = f \/ (j \in DOMAIN h2Pending /\ h2Pending'[j] = h2Pending[j])
      <4>1. DOMAIN H2!Put(h2Pending, k, f) = DOMAIN h2Pending \cup {k}
            /\ \A j \in DOMAIN h2Pending \cup {k} :
                 H2!Put(h2Pending, k, f)[j] = IF j = k THEN f ELSE h2Pending[j]
        BY DEF H2!Put
      <4> QED
        BY <3>1, <4>1 DEF H2!Without
    <3>3. H2Ignored(f)
      <4> DEFINE more == {H2!Put(h2Pending, k, f)[j][1] : j \in ks}
      <4>1. h2Dropped' = [h2Dropped EXCEPT !.blocks = @ \cup more]
        BY <3>1
      <4> HIDE DEF more
      <4>2. h2Dropped' = [conns |-> h2Dropped.conns, keys |-> h2Dropped.keys,
                          blocks |-> h2Dropped.blocks \cup more]
        BY <4>1 DEF H2Shape
      <4>3. ~H2!Ending(f)
        BY <2>1, <2>3 DEF H2!Ending
      <4> QED
        BY <2>1, <3>1, <4>2, <4>3 DEF H2Ignored
    <3> QED
      BY <1>1, <1>2, <3>2, <3>3 DEF n
  <2> QED
    BY <2>2, <2>3
<1>6. CASE H2!Continuation(k, f)
  <2>1. H2!Frame(f).type # "data" /\ H2!Frame(f).type = "continuation"
    BY <1>6 DEF H2!Continuation
  <2>4. ~H2!Ending(f)
    BY <2>1 DEF H2!Ending
  <2>2. CASE k \in DOMAIN h2Pending /\ H2!Frame(f).endHeaders
    <3> DEFINE h == h2Pending[k]
    <3>1. /\ h2Pending' = H2!Without(h2Pending, {k})
          /\ H2!Apply(k, H2!Frame(h).dir, h, f, FALSE)
      BY <1>6, <2>2 DEF H2!Continuation
    <3>2. H2!Frame(h).dir \in H2!Directions
      <4>1. h[1] \in H2Conns /\ h[2] \in 1 .. Len(h2Traffic[h[1]].frames)
        BY <2>2 DEF H2Shape
      <4>2. H2!Frame(<<h[1], h[2]>>).dir \in H2!Directions
        BY <4>1, H2FrameIs
      <4> QED
        BY <4>2 DEF H2!Frame
    <3> HIDE DEF h
    <3>5. H2BlockOf(t, f, H2!Frame(h).dir, h)
      BY <2>1, <2>2 DEF H2BlockOf, h
    <3>3. H2Ignored(f) \/ \E state, d, ends : H2Handled(c, t, f, state, d, ends)
      BY <2>1, <2>4, <3>1, <3>2, <3>5, H2AppliedIs
    <3>4. \A j \in DOMAIN h2Pending' : j \in DOMAIN h2Pending /\ h2Pending'[j] = h2Pending[j]
      BY <3>1 DEF H2!Without
    <3> QED
      BY <1>1, <1>2, <3>3, <3>4 DEF n
  <2>3. CASE ~(k \in DOMAIN h2Pending /\ H2!Frame(f).endHeaders)
    <3>1. UNCHANGED <<h2Table, h2Streams, h2Pending, h2Messages, h2Dropped>>
      BY <1>6, <2>3 DEF H2!Continuation
    <3>2. H2Ignored(f)
      BY <2>1, <2>4, <3>1 DEF H2Ignored, H2Shape
    <3> QED
      BY <1>1, <1>2, <3>1, <3>2 DEF n
  <2> QED
    BY <2>2, <2>3
<1> QED
  BY <1>1, <1>4, <1>5, <1>6

LEMMA H2AppendIs ==
  ASSUME NEW S, NEW s \in Seq(S), NEW m
  PROVE  /\ Len(Append(s, m)) = Len(s) + 1 /\ Append(s, m)[Len(s) + 1] = m
         /\ \A i \in 1 .. Len(s) : Append(s, m)[i] = s[i]
         /\ Append(s, m) \in Seq(S \cup {m})
<1>1. s \in Seq(S \cup {m}) /\ m \in S \cup {m}
  OBVIOUS
<1> QED
  BY <1>1

\* Messages are only added.
LEMMA H2SaidGrows ==
  ASSUME H2MessagesBy, h2Messages' = h2Messages \/ \E m : h2Messages' = Append(h2Messages, m)
  PROVE  /\ Len(h2Messages) \in Nat /\ Len(h2Messages') \in Nat
         /\ Len(h2Messages) <= Len(h2Messages')
         /\ \E S : h2Messages' \in Seq(S)
         /\ \A i \in 1 .. Len(h2Messages) : h2Messages'[i] = h2Messages[i]
         /\ \A k, d : H2SaidOf(k, d) \subseteq H2SaidOf(k, d)'
<1>1. PICK S : h2Messages \in Seq(S)
  BY DEF H2MessagesBy
<1>2. Len(h2Messages) \in Nat
  BY <1>1
<1>3. /\ Len(h2Messages') \in Nat /\ Len(h2Messages) <= Len(h2Messages')
      /\ \E T : h2Messages' \in Seq(T)
      /\ \A i \in 1 .. Len(h2Messages) : h2Messages'[i] = h2Messages[i]
  <2>1. CASE h2Messages' = h2Messages
    BY <1>1, <1>2, <2>1
  <2>2. CASE \E m : h2Messages' = Append(h2Messages, m)
    <3>1. PICK m : h2Messages' = Append(h2Messages, m)
      BY <2>2
    <3>2. /\ Len(h2Messages') = Len(h2Messages) + 1 /\ h2Messages' \in Seq(S \cup {m})
          /\ \A i \in 1 .. Len(h2Messages) : h2Messages'[i] = h2Messages[i]
      BY <1>1, <3>1, H2AppendIs
    <3> QED
      BY <1>2, <3>2
  <2> QED
    BY <2>1, <2>2
<1>4. \A i \in 1 .. Len(h2Messages) : i \in 1 .. Len(h2Messages')
  BY <1>2, <1>3
<1>5. \A k, d : H2SaidOf(k, d) \subseteq H2SaidOf(k, d)'
  BY <1>3, <1>4 DEF H2SaidOf
<1> QED
  BY <1>2, <1>3, <1>5

LEMMA H2InitKept == H2!Init => H2Kept
<1> SUFFICES ASSUME H2!Init
             PROVE  H2Kept
  OBVIOUS
<1> USE DEF H2!Init
<1>1. H2Shape
  <2>1. \A c \in H2Conns : h2Traffic[c].frames \in Seq(H2!Frames)
    BY H2Assumed
  <2>2. \A c \in H2Conns : 0 <= Len(h2Traffic[c].frames)
    BY <2>1
  <2>3. IsFiniteSet({})
    BY FS_EmptySet
  <2>4. DOMAIN h2Streams = {} /\ DOMAIN h2Pending = {}
    OBVIOUS
  <2> QED
    BY <2>2, <2>3, <2>4 DEF H2Shape
<1>2. H2MessagesBy
  BY DEF H2MessagesBy
<1>3. H2EmittedOnce
  BY DEF H2EmittedOnce
<1>4. H2Bodied
  <2> SUFFICES ASSUME NEW c \in H2Conns, NEW t \in H2Threads
               PROVE  H2BodyAt(c, t) /\ H2FirstAt(c, t)
    BY DEF H2Bodied
  <2>1. H2Cut(<< >>) = << >>
    BY H2Assumed DEF H2Cut
  <2>2. \A k : \A d \in H2!Directions : H2Entry(h2Streams, k).body[d] = << >>
    BY H2EmptyIs DEF H2Entry
  <2>3. \A sid, d : H2UpTo(h2Traffic, c, sid, d, "data", h2Pos[c]) = << >>
    BY UpToIs
  <2> QED
    BY <2>1, <2>2, <2>3 DEF H2BodyAt, H2FirstAt
<1> QED
  BY <1>1, <1>2, <1>3, <1>4 DEF H2Kept

\* What has been said of what has come stays true.
LEMMA H2SaidByStays ==
  ASSUME H2Shape, NEW m, H2SaidBy(m), h2Traffic' = h2Traffic, NEW c \in H2Conns,
         h2Pos' = [h2Pos EXCEPT ![c] = h2Pos[c] + 1],
         \A e \in H2Conns : h2Ran[e] \subseteq h2Ran'[e]
  PROVE  H2SaidBy(m)'
<1>1. h2Pos[m.by[1]] \in Nat /\ h2Pos[m.by[1]] <= h2Pos'[m.by[1]] /\ h2Pos'[m.by[1]] \in Nat
  BY DEF H2Shape, H2SaidBy
<1>2. m.by[2] <= h2Pos'[m.by[1]]
  BY <1>1 DEF H2SaidBy
<1>3. H2!Frame(m.by)' = H2!Frame(m.by)
  BY DEF H2!Frame
<1> QED
  BY <1>2, <1>3 DEF H2SaidBy

\* A record is lost: its connection is quiet no more.
LEMMA H2LoseKeeps ==
  ASSUME H2Kept, NEW c \in H2Conns, H2!Lose(c)
  PROVE  H2Kept'
<1>1. /\ h2Pos[c] < Len(h2Traffic[c].frames)
      /\ h2Pos' = [h2Pos EXCEPT ![c] = h2Pos[c] + 1]
      /\ h2Dropped' = [h2Dropped EXCEPT !.conns = @ \cup {c}]
      /\ UNCHANGED <<h2Traffic, h2Table, h2Streams, h2Pending, h2Messages, h2Ran>>
  BY DEF H2!Lose
<1>2. h2Dropped' = [conns |-> h2Dropped.conns \cup {c}, keys |-> h2Dropped.keys,
                    blocks |-> h2Dropped.blocks]
  BY <1>1 DEF H2Kept, H2Shape
<1>3. H2Shape'
  <2>1. \A e \in H2Conns : h2Traffic[e].frames \in Seq(H2!Frames)
    BY H2Assumed DEF H2Kept, H2Shape
  <2>2. \A e \in H2Conns : Len(h2Traffic[e].frames) \in Nat
    BY <2>1
  <2>3. h2Pos' \in [H2Conns -> Nat] /\ \A e \in H2Conns : h2Pos'[e] <= Len(h2Traffic'[e].frames)
    BY <1>1, <2>2 DEF H2Kept, H2Shape
  <2>4. h2Dropped' = [conns |-> h2Dropped'.conns, keys |-> h2Dropped'.keys,
                      blocks |-> h2Dropped'.blocks]
    BY <1>2
  <2> QED
    BY <1>1, <2>3, <2>4 DEF H2Kept, H2Shape, H2State
<1>4. H2MessagesBy'
  <2>1. \A i \in 1 .. Len(h2Messages) : H2SaidBy(h2Messages[i])'
    BY <1>1, H2SaidByStays DEF H2Kept, H2MessagesBy
  <2> QED
    BY <1>1, <2>1 DEF H2Kept, H2MessagesBy
<1>5. H2EmittedOnce'
  BY <1>1 DEF H2Kept, H2EmittedOnce, H2SaidOf
<1>6. ASSUME NEW e \in H2Conns, NEW t \in H2Threads, H2Quiet(e, t)'
      PROVE  (H2BodyAt(e, t) /\ H2FirstAt(e, t))'
  <2>1. e # c /\ H2Quiet(e, t)
    BY <1>1, <1>2, <1>6 DEF H2Quiet
  <2>2. h2Pos'[e] = h2Pos[e]
    BY <1>1, <2>1 DEF H2Kept, H2Shape
  <2>3. H2BodyAt(e, t) /\ H2FirstAt(e, t)
    BY <2>1 DEF H2Kept, H2Bodied
  <2> QED
    BY <1>1, <2>2, <2>3 DEF H2BodyAt, H2FirstAt, H2SaidOf, H2Entry
<1> QED
  BY <1>3, <1>4, <1>5, <1>6 DEF H2Kept, H2Bodied

\* What H2Handled does to messages and keys, without Finish
LEMMA H2HandledIs ==
  ASSUME H2Shape, NEW c, NEW t, NEW f, NEW state, NEW d, NEW ends,
         H2Handled(c, t, f, state, d, ends)
  PROVE  /\ H2State(H2After(state, d, ends)) /\ H2After(state, d, ends).body = state.body
         /\ H2After(state, d, ends).hdr = state.hdr
         /\ H2After(state, d, ends).emitted
              = H2Entry(h2Streams, H2!Key(t, f)).emitted
                  \cup (IF H2Emits(state, d, ends) THEN {d} ELSE {})
         /\ h2Messages' = IF H2Emits(state, d, ends)
                          THEN Append(h2Messages, H2Message(H2!Key(t, f), state, d, f))
                          ELSE h2Messages
         /\ H2Emits(state, d, ends) => d = H2!Frame(f).dir
         /\ d \in H2!Directions
<1>1. H2State(state) /\ d \in H2!Directions /\ H2!Finish(H2!Key(t, f), state, d, f, ends)
      /\ state.emitted = H2Entry(h2Streams, H2!Key(t, f)).emitted /\ (ends => d = H2!Frame(f).dir)
  BY DEF H2Handled
<1>2. /\ H2State(H2After(state, d, ends)) /\ H2After(state, d, ends).body = state.body
      /\ H2After(state, d, ends).hdr = state.hdr
      /\ H2After(state, d, ends).emitted
           = IF H2Emits(state, d, ends) THEN state.emitted \cup {d} ELSE state.emitted
  BY <1>1, H2AfterIs
<1>3. h2Messages' = IF H2Emits(state, d, ends)
                    THEN Append(h2Messages, H2Message(H2!Key(t, f), state, d, f)) ELSE h2Messages
  BY <1>1, H2FinishIs
<1>4. H2Emits(state, d, ends) => ends
  BY DEF H2Emits
<1> QED
  BY <1>1, <1>2, <1>3, <1>4

\* A step that adds no message but the record's own
LEMMA H2MessagesAfter ==
  ASSUME H2Kept, NEW c \in H2Conns, NEW t \in H2Threads, H2!Receive(c, t)
  PROVE  /\ h2Messages' = h2Messages \/ \E m : h2Messages' = Append(h2Messages, m)
         /\ \A i \in 1 .. Len(h2Messages') : i \notin 1 .. Len(h2Messages) =>
              /\ i = Len(h2Messages) + 1
              /\ \E state, d, ends :
                   /\ H2Handled(c, t, <<c, h2Pos[c] + 1>>, state, d, ends)
                   /\ H2Emits(state, d, ends)
                   /\ h2Messages'[i] = H2Message(H2!Key(t, <<c, h2Pos[c] + 1>>), state, d,
                                                 <<c, h2Pos[c] + 1>>)
<1> DEFINE f == <<c, h2Pos[c] + 1>>
           k == H2!Key(t, f)
<1>1. H2Ignored(f) \/ \E state, d, ends : H2Handled(c, t, f, state, d, ends)
  BY H2ReceiveIs DEF H2Kept
<1> HIDE DEF f, k
<1>2. CASE H2Ignored(f)
  BY <1>2 DEF H2Ignored
<1>3. ASSUME NEW state, NEW d, NEW ends, H2Handled(c, t, f, state, d, ends)
      PROVE  /\ h2Messages' = h2Messages \/ \E m : h2Messages' = Append(h2Messages, m)
             /\ \A i \in 1 .. Len(h2Messages') : i \notin 1 .. Len(h2Messages) =>
                  /\ i = Len(h2Messages) + 1 /\ H2Emits(state, d, ends)
                  /\ h2Messages'[i] = H2Message(k, state, d, f)
  <2>1. h2Messages' = IF H2Emits(state, d, ends)
                      THEN Append(h2Messages, H2Message(k, state, d, f)) ELSE h2Messages
    BY <1>3, H2HandledIs DEF H2Kept, k
  <2>2. CASE ~H2Emits(state, d, ends)
    BY <2>1, <2>2
  <2>3. CASE H2Emits(state, d, ends)
    <3>1. PICK S : h2Messages \in Seq(S)
      BY DEF H2Kept, H2MessagesBy
    <3> DEFINE m == H2Message(k, state, d, f)
    <3>2. h2Messages' = Append(h2Messages, m)
      BY <2>1, <2>3
    <3> HIDE DEF m
    <3>3. Len(h2Messages') = Len(h2Messages) + 1 /\ h2Messages'[Len(h2Messages) + 1] = m
      BY <3>1, <3>2, H2AppendIs
    <3>4. Len(h2Messages) \in Nat
      BY <3>1
    <3>5. \A i \in 1 .. Len(h2Messages') : i \notin 1 .. Len(h2Messages) => i = Len(h2Messages) + 1
      BY <3>3, <3>4
    <3> QED
      BY <2>3, <3>2, <3>3, <3>5 DEF m
  <2> QED
    BY <2>2, <2>3
<1> QED
  BY <1>1, <1>2, <1>3 DEF f, k

LEMMA H2ReceiveShape ==
  ASSUME H2Kept, NEW c \in H2Conns, NEW t \in H2Threads, H2!Receive(c, t)
  PROVE  H2Shape'
<1> DEFINE n == h2Pos[c] + 1
           f == <<c, n>>
           k == H2!Key(t, f)
<1>1. /\ n \in 1 .. Len(h2Traffic[c].frames) /\ h2Traffic' = h2Traffic
      /\ h2Pos' = [h2Pos EXCEPT ![c] = n]
      /\ h2Ran' = [h2Ran EXCEPT ![c] = h2Ran[c] \cup {t}]
      /\ \A j \in DOMAIN h2Pending' :
           h2Pending'[j] = f \/ (j \in DOMAIN h2Pending /\ h2Pending'[j] = h2Pending[j])
      /\ H2Ignored(f) \/ \E state, d, ends : H2Handled(c, t, f, state, d, ends)
  BY H2ReceiveIs DEF H2Kept
<1>2. H2!Frame(f).sid \in Nat
  BY <1>1, H2FrameIs DEF H2Kept
<1>3. k \in H2Keys
  BY <1>2 DEF H2!Key, H2Keys
<1> HIDE DEF n, k
<1>4. h2Traffic' \in H2Traffics /\ h2Pos' \in [H2Conns -> Nat]
      /\ \A e \in H2Conns : h2Pos'[e] <= Len(h2Traffic'[e].frames)
  <2>1. \A e \in H2Conns : h2Traffic[e].frames \in Seq(H2!Frames)
    BY H2Assumed DEF H2Kept, H2Shape
  <2>2. \A e \in H2Conns : Len(h2Traffic[e].frames) \in Nat
    BY <2>1
  <2>3. n \in Nat /\ n <= Len(h2Traffic[c].frames)
    BY <1>1, <2>2
  <2> QED
    BY <1>1, <2>3 DEF H2Kept, H2Shape
<1>5. \A j \in DOMAIN h2Pending' :
        /\ h2Pending'[j][1] \in H2Conns
        /\ h2Pending'[j][2] \in 1 .. Len(h2Traffic'[h2Pending'[j][1]].frames)
  BY <1>1 DEF H2Kept, H2Shape
<1>6. h2Ran' \in [H2Conns -> SUBSET H2Threads] /\ \A e \in H2Conns : IsFiniteSet(h2Ran'[e])
  <2>1. IsFiniteSet(h2Ran[c] \cup {t})
    BY FS_AddElement DEF H2Kept, H2Shape
  <2> QED
    BY <1>1, <2>1 DEF H2Kept, H2Shape
<1> HIDE DEF f
<1>7. /\ \A j \in DOMAIN h2Streams' : j \in H2Keys /\ H2State(h2Streams'[j])
      /\ h2Dropped' = [conns |-> h2Dropped'.conns, keys |-> h2Dropped'.keys,
                       blocks |-> h2Dropped'.blocks]
  <2>1. CASE H2Ignored(f)
    <3>1. h2Streams' = h2Streams
          /\ h2Dropped' = [conns |-> h2Dropped.conns, keys |-> h2Dropped.keys,
                           blocks |-> h2Dropped'.blocks]
      BY <2>1 DEF H2Ignored
    <3>2. h2Dropped'.conns = h2Dropped.conns /\ h2Dropped'.keys = h2Dropped.keys
      BY <3>1
    <3> QED
      BY <3>1, <3>2 DEF H2Kept, H2Shape
  <2>2. ASSUME NEW state, NEW d, NEW ends, H2Handled(c, t, f, state, d, ends)
        PROVE  /\ \A j \in DOMAIN h2Streams' : j \in H2Keys /\ H2State(h2Streams'[j])
               /\ h2Dropped' = [conns |-> h2Dropped'.conns, keys |-> h2Dropped'.keys,
                                blocks |-> h2Dropped'.blocks]
    <3> DEFINE after == H2After(state, d, ends)
    <3>1. H2State(after)
      BY <2>2, H2HandledIs DEF H2Kept
    <3>2. H2!Finish(k, state, d, f, ends)
      BY <2>2 DEF H2Handled, k
    <3> HIDE DEF after
    <3>3. /\ \A j \in DOMAIN h2Streams' :
               \/ j # k /\ j \in DOMAIN h2Streams /\ h2Streams'[j] = h2Streams[j]
               \/ j = k /\ h2Streams'[j] = after
          /\ h2Dropped' = [conns |-> h2Dropped.conns, keys |-> h2Dropped'.keys,
                           blocks |-> h2Dropped.blocks]
      BY <3>2, H2FinishIs DEF H2Kept, after
    <3>4. h2Dropped'.conns = h2Dropped.conns /\ h2Dropped'.blocks = h2Dropped.blocks
      BY <3>3
    <3> QED
      BY <1>3, <3>1, <3>3, <3>4 DEF H2Kept, H2Shape
  <2> QED
    BY <1>1, <2>1, <2>2
<1> QED
  <2>1. \A x : H2State(x)' = H2State(x)
    BY DEF H2State
  <2> QED
    BY <1>4, <1>5, <1>6, <1>7, <2>1 DEF H2Shape, H2State

LEMMA H2ReceiveMessages ==
  ASSUME H2Kept, NEW c \in H2Conns, NEW t \in H2Threads, H2!Receive(c, t)
  PROVE  H2MessagesBy'
<1>0. PICK n : n = h2Pos[c] + 1
  OBVIOUS
<1> DEFINE f == <<c, n>>
<1>1. /\ n \in 1 .. Len(h2Traffic[c].frames) /\ h2Traffic' = h2Traffic
      /\ h2Pos' = [h2Pos EXCEPT ![c] = n]
      /\ h2Ran' = [h2Ran EXCEPT ![c] = h2Ran[c] \cup {t}]
  BY <1>0, H2ReceiveIs DEF H2Kept
<1>2. /\ Len(h2Messages) \in Nat /\ Len(h2Messages') \in Nat
      /\ \E S : h2Messages' \in Seq(S)
      /\ \A i \in 1 .. Len(h2Messages) : h2Messages'[i] = h2Messages[i]
  BY H2MessagesAfter, H2SaidGrows DEF H2Kept
<1>3. ASSUME NEW i \in 1 .. Len(h2Messages)
      PROVE  H2SaidBy(h2Messages[i])'
  <2>1. PICK m : m = h2Messages[i]
    OBVIOUS
  <2>2. H2SaidBy(m)
    BY <2>1 DEF H2Kept, H2MessagesBy
  <2>3. \A e \in H2Conns : h2Ran[e] \subseteq h2Ran'[e]
    BY <1>1 DEF H2Kept, H2Shape
  <2>4. H2Shape /\ h2Traffic' = h2Traffic /\ h2Pos' = [h2Pos EXCEPT ![c] = h2Pos[c] + 1]
    BY <1>0, <1>1 DEF H2Kept
  <2>5. H2SaidBy(m)'
    BY <2>2, <2>3, <2>4, H2SaidByStays
  <2> QED
    BY <1>2, <2>1, <2>5
<1>4. ASSUME NEW i \in 1 .. Len(h2Messages)', i \notin 1 .. Len(h2Messages)
      PROVE  H2SaidBy(h2Messages[i])'
  <2>1. PICK state, d, ends :
               /\ H2Handled(c, t, f, state, d, ends) /\ H2Emits(state, d, ends)
               /\ h2Messages'[i] = H2Message(H2!Key(t, f), state, d, f)
    BY <1>0, <1>4, H2MessagesAfter
  <2>2. d \in H2!Directions
    BY <2>1 DEF H2Handled
  <2>3. PICK m : m = h2Messages'[i]
    OBVIOUS
  <2>4. m.by = f /\ m.key = H2!Key(t, f) /\ m.dir = d
    BY <2>1, <2>3 DEF H2Message
  <2>5. h2Ran'[c] = h2Ran[c] \cup {t} /\ h2Pos'[c] = n /\ n \in Nat
    BY <1>1 DEF H2Kept, H2Shape
  <2>6. H2!Frame(f)' = H2!Frame(f)
    BY <1>1 DEF H2!Frame
  <2>7. m.key[1] = t /\ m.key[2] = H2!Frame(f).sid
    BY <2>4 DEF H2!Key
  <2>8. H2SaidBy(m)'
    BY <2>2, <2>4, <2>5, <2>6, <2>7 DEF H2SaidBy
  <2> QED
    BY <2>3, <2>8
<1>5. \A i \in 1 .. Len(h2Messages)' : H2SaidBy(h2Messages[i])'
  BY <1>3, <1>4
<1> QED
  BY <1>2, <1>5 DEF H2MessagesBy

\* A side that is finished by a record has its message then.
LEMMA H2SaidNow ==
  ASSUME H2Kept, NEW c, NEW t, NEW f, NEW state, NEW d, NEW ends, NEW k, k = H2!Key(t, f),
         H2Handled(c, t, f, state, d, ends), NEW side \in H2After(state, d, ends).emitted
  PROVE  H2SaidOf(k, side)' # {}
<1>1. /\ H2After(state, d, ends).emitted
           = H2Entry(h2Streams, k).emitted \cup (IF H2Emits(state, d, ends) THEN {d} ELSE {})
      /\ h2Messages' = IF H2Emits(state, d, ends)
                       THEN Append(h2Messages, H2Message(k, state, d, f)) ELSE h2Messages
  BY H2HandledIs DEF H2Kept
<1>2. CASE side \in H2Entry(h2Streams, k).emitted
  <2>1. H2SaidOf(k, side) # {}
    BY <1>2, H2EmptyIs DEF H2Kept, H2EmittedOnce, H2Entry
  <2>2. H2SaidOf(k, side) \subseteq H2SaidOf(k, side)'
    BY <1>1, H2SaidGrows DEF H2Kept
  <2> QED
    BY <2>1, <2>2
<1>3. CASE side = d /\ H2Emits(state, d, ends)
  <2>1. PICK S : h2Messages \in Seq(S)
    BY DEF H2Kept, H2MessagesBy
  <2> DEFINE m == H2Message(k, state, d, f)
  <2>2. h2Messages' = Append(h2Messages, m)
    BY <1>1, <1>3
  <2>3. m.key = k /\ m.dir = d
    BY DEF H2Message
  <2> HIDE DEF m
  <2>4. Len(h2Messages') = Len(h2Messages) + 1 /\ h2Messages'[Len(h2Messages) + 1] = m
    BY <2>1, <2>2, H2AppendIs
  <2>5. Len(h2Messages) + 1 \in 1 .. Len(h2Messages')
    BY <2>1, <2>4
  <2> QED
    BY <1>3, <2>3, <2>4, <2>5 DEF H2SaidOf
<1> QED
  BY <1>1, <1>2, <1>3

LEMMA H2ReceiveEmitted ==
  ASSUME H2Kept, NEW c \in H2Conns, NEW t \in H2Threads, H2!Receive(c, t)
  PROVE  H2EmittedOnce'
<1>1. PICK f, k : f = <<c, h2Pos[c] + 1>> /\ k = H2!Key(t, f)
  OBVIOUS
<1>2. H2Ignored(f) \/ \E state, d, ends : H2Handled(c, t, f, state, d, ends)
  BY <1>1, H2ReceiveIs DEF H2Kept
<1>3. \A j, side : H2SaidOf(j, side) \subseteq H2SaidOf(j, side)'
  BY H2MessagesAfter, H2SaidGrows DEF H2Kept
<1>4. CASE H2Ignored(f)
  BY <1>3, <1>4 DEF H2Ignored, H2Kept, H2EmittedOnce
<1>5. ASSUME NEW state, NEW d, NEW ends, H2Handled(c, t, f, state, d, ends)
      PROVE  H2EmittedOnce'
  <2>1. H2!Finish(k, state, d, f, ends)
    BY <1>1, <1>5 DEF H2Handled
  <2>2. \A j \in DOMAIN h2Streams' :
          \/ j # k /\ j \in DOMAIN h2Streams /\ h2Streams'[j] = h2Streams[j]
          \/ j = k /\ h2Streams'[j] = H2After(state, d, ends)
    BY <2>1, H2FinishIs DEF H2Kept
  <2>3. \A side \in H2After(state, d, ends).emitted : H2SaidOf(k, side)' # {}
    BY <1>1, <1>5, H2SaidNow
  <2>4. \A j \in DOMAIN h2Streams : \A side \in h2Streams[j].emitted : H2SaidOf(j, side)' # {}
    BY <1>3 DEF H2Kept, H2EmittedOnce
  <2>5. ASSUME NEW j \in DOMAIN h2Streams', NEW side \in h2Streams'[j].emitted
        PROVE  H2SaidOf(j, side)' # {}
    BY <2>2, <2>3, <2>4, <2>5
  <2> QED
    BY <2>5 DEF H2EmittedOnce
<1> QED
  BY <1>2, <1>4, <1>5

\* Bodies of connections on other threads than the record's
LEMMA H2OthersBodied ==
  ASSUME H2Kept, NEW c \in H2Conns, NEW t \in H2Threads, H2!Receive(c, t),
         NEW e \in H2Conns \ {c}, NEW u \in H2Threads, H2Quiet(e, u)'
  PROVE  (H2BodyAt(e, u) /\ H2FirstAt(e, u))'
<1>1. PICK f, k : f = <<c, h2Pos[c] + 1>> /\ k = H2!Key(t, f)
  OBVIOUS
<1>2. /\ h2Traffic' = h2Traffic
      /\ h2Pos' = [h2Pos EXCEPT ![c] = h2Pos[c] + 1]
      /\ h2Ran' = [h2Ran EXCEPT ![c] = h2Ran[c] \cup {t}]
      /\ H2Ignored(f) \/ \E state, d, ends : H2Handled(c, t, f, state, d, ends)
  BY <1>1, H2ReceiveIs DEF H2Kept
<1>3. /\ Len(h2Messages) \in Nat
      /\ \A i \in 1 .. Len(h2Messages) : h2Messages'[i] = h2Messages[i]
      /\ \A j, side : H2SaidOf(j, side) \subseteq H2SaidOf(j, side)'
  BY H2MessagesAfter, H2SaidGrows DEF H2Kept
<1>4. /\ h2Dropped.conns \subseteq h2Dropped'.conns /\ h2Dropped.blocks \subseteq h2Dropped'.blocks
      /\ h2Dropped.keys \subseteq h2Dropped'.keys
      /\ \A j : j # k /\ j \notin h2Dropped'.keys => H2Entry(h2Streams', j) = H2Entry(h2Streams, j)
  <2>1. CASE H2Ignored(f)
    BY <2>1 DEF H2Ignored
  <2>2. ASSUME NEW state, NEW d, NEW ends, H2Handled(c, t, f, state, d, ends)
        PROVE  /\ h2Dropped' = [conns |-> h2Dropped.conns, keys |-> h2Dropped'.keys,
                                blocks |-> h2Dropped.blocks]
               /\ h2Dropped.keys \subseteq h2Dropped'.keys
               /\ \A j : j # k /\ j \notin h2Dropped'.keys =>
                    H2Entry(h2Streams', j) = H2Entry(h2Streams, j)
    <3>1. H2!Finish(k, state, d, f, ends)
      BY <1>1, <2>2 DEF H2Handled
    <3>2. \A j : j \notin h2Dropped'.keys =>
            H2Entry(h2Streams', j) = IF j # k THEN H2Entry(h2Streams, j)
                                     ELSE IF H2After(state, d, ends).emitted = H2!Directions
                                          THEN H2!Empty ELSE H2After(state, d, ends)
      BY <3>1, H2FinishIs DEF H2Kept
    <3> QED
      BY <3>1, <3>2, H2FinishIs DEF H2Kept
  <2> QED
    BY <1>2, <2>1, <2>2
<1>5. /\ u # t /\ h2Ran'[e] = h2Ran[e] /\ h2Pos'[e] = h2Pos[e]
      /\ \A x \in H2Conns : h2Ran[x] \subseteq h2Ran'[x]
      /\ t \in h2Ran'[c] /\ u \notin h2Ran'[c]
  BY <1>2 DEF H2Kept, H2Shape, H2Quiet
<1>6. H2Quiet(e, u)
  BY <1>4, <1>5 DEF H2Quiet
<1>7. H2BodyAt(e, u) /\ H2FirstAt(e, u)
  BY <1>6 DEF H2Kept, H2Bodied
<1>8. H2BodyAt(e, u)'
  <2>1. \A sid : <<u, sid>> # k /\ <<u, sid>> \notin h2Dropped'.keys
    BY <1>1, <1>5 DEF H2Quiet, H2!Key
  <2>2. \A sid : H2Entry(h2Streams', <<u, sid>>) = H2Entry(h2Streams, <<u, sid>>)
    BY <1>4, <2>1
  <2> QED
    BY <1>2, <1>3, <1>5, <1>7, <2>2 DEF H2BodyAt
<1>9. H2FirstAt(e, u)'
  <2> SUFFICES ASSUME NEW i \in 1 .. Len(h2Messages'),
                      h2Messages'[i].by[1] = e, h2Messages'[i].key[1] = u,
                      \A j \in 1 .. i - 1 : h2Messages'[j].key # h2Messages'[i].key
                                            \/ h2Messages'[j].dir # h2Messages'[i].dir
               PROVE  h2Messages'[i].body
                        = H2Cut(H2UpTo(h2Traffic', e, h2Messages'[i].key[2], h2Messages'[i].dir,
                                       "data", h2Messages'[i].by[2]))
    BY DEF H2FirstAt
  <2>1. i \in 1 .. Len(h2Messages)
    <3>1. SUFFICES ASSUME i \notin 1 .. Len(h2Messages)
                   PROVE  FALSE
      OBVIOUS
    <3>2. \E state, d, ends : h2Messages'[i] = H2Message(k, state, d, f)
      BY <1>1, <3>1, H2MessagesAfter
    <3>3. h2Messages'[i].by = f
      BY <3>2 DEF H2Message
    <3> QED
      BY <1>1, <3>3
  <2>2. \A j \in 1 .. i - 1 : j \in 1 .. Len(h2Messages)
    BY <1>3, <2>1
  <2> QED
    BY <1>2, <1>3, <1>7, <2>1, <2>2 DEF H2FirstAt
<1> QED
  BY <1>8, <1>9

\* What a record of the connection itself does to the body of a side: it is
\* extended by the record, if it is the side's data.
LEMMA H2BodyExtended ==
  ASSUME H2Kept, NEW c \in H2Conns, NEW t, NEW n, n = h2Pos[c] + 1,
         n \in 1 .. Len(h2Traffic[c].frames),
         NEW state, NEW d, NEW ends, H2Handled(c, t, <<c, n>>, state, d, ends),
         NEW side \in H2!Directions,
         H2Entry(h2Streams, H2!Key(t, <<c, n>>)).body[side]
           = H2Cut(H2UpTo(h2Traffic, c, H2!Frame(<<c, n>>).sid, side, "data", h2Pos[c]))
  PROVE  state.body[side]
           = H2Cut(H2UpTo(h2Traffic, c, H2!Frame(<<c, n>>).sid, side, "data", n))
<1> DEFINE f == <<c, n>>
           old == H2Entry(h2Streams, H2!Key(t, f)).body
           sid == H2!Frame(f).sid
           UpTo(m) == H2UpTo(h2Traffic, c, sid, side, "data", m)
<1>1. h2Pos[c] \in Nat /\ n \in Nat
  BY DEF H2Kept, H2Shape
<1>2. /\ state.body = IF H2!Frame(f).type = "data"
                      THEN [old EXCEPT ![d] = H2!Extended(@, f)] ELSE old
      /\ H2!Frame(f).type = "data" => d = H2!Frame(f).dir
  BY DEF H2Handled
<1>3. old \in [H2!Directions -> Seq(H2Conns \X Nat)]
  BY H2EntryIs DEF H2Kept, H2State, H2Bodies
<1>4. UpTo(n) = IF H2Is(h2Traffic, f, sid, side, "data") THEN Append(UpTo(h2Pos[c]), f)
                ELSE UpTo(h2Pos[c])
  <2> HIDE DEF sid
  <2>1. \A m, k \in Nat : k = m + 1 => UpTo(k) = IF H2Is(h2Traffic, <<c, k>>, sid, side, "data")
                                                THEN Append(UpTo(m), <<c, k>>) ELSE UpTo(m)
    BY UpToIs
  <2> HIDE DEF UpTo
  <2> QED
    BY <1>1, <2>1
<1>5. H2Is(h2Traffic, f, sid, side, "data")
        <=> H2!Frame(f).type = "data" /\ H2!Frame(f).dir = side
  BY DEF H2Is, H2!Frame
<1>6. UpTo(h2Pos[c]) \in Seq({c} \X Nat) /\ f \in {c} \X Nat
  BY <1>1, UpToSeq
<1>7. old[side] = H2Cut(UpTo(h2Pos[c]))
  OBVIOUS
<1> HIDE DEF f, old, sid, UpTo
<1>8. CASE H2!Frame(f).type = "data" /\ H2!Frame(f).dir = side
  <2>1. state.body[side] = H2!Extended(old[side], f)
    BY <1>2, <1>3, <1>8
  <2>2. H2!Extended(H2Cut(UpTo(h2Pos[c])), f) = H2Cut(Append(UpTo(h2Pos[c]), f))
    BY <1>6, CutExtended
  <2> QED
    BY <1>4, <1>5, <1>7, <1>8, <2>1, <2>2 DEF UpTo, sid, f
<1>9. CASE ~(H2!Frame(f).type = "data" /\ H2!Frame(f).dir = side)
  <2>1. state.body[side] = old[side]
    BY <1>2, <1>3, <1>9
  <2> QED
    BY <1>4, <1>5, <1>7, <1>9, <2>1 DEF UpTo, sid, f
<1> QED
  BY <1>8, <1>9

\* The other streams of a connection have nothing of a record.
LEMMA H2UpToOther ==
  ASSUME H2Kept, NEW c \in H2Conns, NEW n, n = h2Pos[c] + 1, NEW sid, NEW side,
         sid # H2!Frame(<<c, n>>).sid \/ H2!Frame(<<c, n>>).type # "data"
  PROVE  H2UpTo(h2Traffic, c, sid, side, "data", n)
           = H2UpTo(h2Traffic, c, sid, side, "data", h2Pos[c])
<1>1. h2Pos[c] \in Nat /\ n \in Nat
  BY DEF H2Kept, H2Shape
<1>2. ~H2Is(h2Traffic, <<c, n>>, sid, side, "data")
  BY DEF H2Is, H2!Frame
<1> DEFINE UpTo(m) == H2UpTo(h2Traffic, c, sid, side, "data", m)
<1>3. \A m, k \in Nat : k = m + 1 => UpTo(k) = IF H2Is(h2Traffic, <<c, k>>, sid, side, "data")
                                              THEN Append(UpTo(m), <<c, k>>) ELSE UpTo(m)
  BY UpToIs
<1> HIDE DEF UpTo
<1>4. UpTo(n) = UpTo(h2Pos[c])
  BY <1>1, <1>2, <1>3
<1> QED
  BY <1>4 DEF UpTo

\* Bodies of the record's own connection
LEMMA H2OwnBodied ==
  ASSUME H2Kept, NEW c \in H2Conns, NEW t \in H2Threads, H2!Receive(c, t),
         NEW u \in H2Threads, H2Quiet(c, u)'
  PROVE  (H2BodyAt(c, u) /\ H2FirstAt(c, u))'
<1>1. PICK n, k : n = h2Pos[c] + 1 /\ k = H2!Key(t, <<c, n>>)
  OBVIOUS
<1> DEFINE f == <<c, n>>
<1>2. /\ n \in 1 .. Len(h2Traffic[c].frames) /\ h2Traffic' = h2Traffic
      /\ h2Pos' = [h2Pos EXCEPT ![c] = n]
      /\ h2Ran' = [h2Ran EXCEPT ![c] = h2Ran[c] \cup {t}]
      /\ H2Ignored(f) \/ \E state, d, ends : H2Handled(c, t, f, state, d, ends)
  BY <1>1, H2ReceiveIs DEF H2Kept
<1>3. /\ Len(h2Messages) \in Nat
      /\ \A i \in 1 .. Len(h2Messages) : h2Messages'[i] = h2Messages[i]
      /\ \A j, side : H2SaidOf(j, side) \subseteq H2SaidOf(j, side)'
  BY H2MessagesAfter, H2SaidGrows DEF H2Kept
<1>4. /\ u = t /\ h2Pos'[c] = n
      /\ \A x \in H2Conns : h2Ran[x] \subseteq h2Ran'[x]
  BY <1>2 DEF H2Kept, H2Shape, H2Quiet
<1>5. H2!Frame(f).sid \in Nat /\ k = <<t, H2!Frame(f).sid>>
  BY <1>1, <1>2, H2FrameIs DEF H2Kept, H2!Key
<1> HIDE DEF f
<1>6. H2Quiet(c, t)
  <2>1. /\ h2Dropped.conns \subseteq h2Dropped'.conns
        /\ h2Dropped.blocks \subseteq h2Dropped'.blocks
        /\ h2Dropped.keys \subseteq h2Dropped'.keys
    <3>1. CASE H2Ignored(f)
      BY <3>1 DEF H2Ignored
    <3>2. ASSUME NEW state, NEW d, NEW ends, H2Handled(c, t, f, state, d, ends)
          PROVE  /\ h2Dropped' = [conns |-> h2Dropped.conns, keys |-> h2Dropped'.keys,
                                  blocks |-> h2Dropped.blocks]
                 /\ h2Dropped.keys \subseteq h2Dropped'.keys
      BY <3>2, H2FinishIs DEF H2Handled, H2Kept
    <3> QED
      BY <1>2, <3>1, <3>2
  <2> QED
    BY <1>4, <2>1 DEF H2Quiet
<1>7. H2BodyAt(c, t) /\ H2FirstAt(c, t)
  BY <1>6 DEF H2Kept, H2Bodied
<1>8. ASSUME NEW sid \in Nat, NEW side \in H2!Directions, H2SaidOf(<<t, sid>>, side)' = {}
      PROVE  H2Entry(h2Streams', <<t, sid>>).body[side]
               = H2Cut(H2UpTo(h2Traffic, c, sid, side, "data", n))
  <2>1. H2SaidOf(<<t, sid>>, side) = {}
    BY <1>3, <1>8
  <2>2. H2Entry(h2Streams, <<t, sid>>).body[side]
          = H2Cut(H2UpTo(h2Traffic, c, sid, side, "data", h2Pos[c]))
    BY <1>7, <2>1 DEF H2BodyAt
  <2>3. CASE H2Ignored(f)
    <3>1. h2Streams' = h2Streams /\ H2!Frame(f).type # "data"
      BY <2>3 DEF H2Ignored
    <3> QED
      BY <1>1, <2>2, <3>1, H2UpToOther DEF f
  <2>4. ASSUME NEW state, NEW d, NEW ends, H2Handled(c, t, f, state, d, ends)
        PROVE  H2Entry(h2Streams', <<t, sid>>).body[side]
                 = H2Cut(H2UpTo(h2Traffic, c, sid, side, "data", n))
    <3> DEFINE after == H2After(state, d, ends)
    <3>1. H2!Finish(k, state, d, f, ends)
      BY <1>1, <2>4 DEF H2Handled, f
    <3>2. <<t, sid>> \notin h2Dropped'.keys
      BY <1>4 DEF H2Quiet
    <3>3. H2Entry(h2Streams', <<t, sid>>)
            = IF <<t, sid>> # k THEN H2Entry(h2Streams, <<t, sid>>)
              ELSE IF after.emitted = H2!Directions THEN H2!Empty ELSE after
      BY <3>1, <3>2, H2FinishIs DEF H2Kept
    <3>4. CASE <<t, sid>> # k
      <4>1. sid # H2!Frame(f).sid
        BY <1>5, <3>4
      <4>2. H2UpTo(h2Traffic, c, sid, side, "data", n)
              = H2UpTo(h2Traffic, c, sid, side, "data", h2Pos[c])
        BY <1>1, <4>1, H2UpToOther DEF f
      <4> QED
        BY <2>2, <3>3, <3>4, <4>2
    <3>5. CASE <<t, sid>> = k
      <4>1. side \notin after.emitted
        BY <1>1, <1>8, <2>4, <3>5, H2SaidNow DEF f
      <4>2. after.body = state.body
        BY <2>4, H2HandledIs DEF H2Kept
      <4>3. sid = H2!Frame(f).sid
        BY <1>5, <3>5
      <4>4. state.body[side] = H2Cut(H2UpTo(h2Traffic, c, sid, side, "data", n))
        BY <1>1, <1>2, <2>2, <2>4, <3>5, <4>3, H2BodyExtended DEF f
      <4> QED
        BY <3>3, <3>5, <4>1, <4>2, <4>4
    <3> QED
      BY <3>4, <3>5
  <2> QED
    BY <1>2, <2>3, <2>4
<1>9. H2BodyAt(c, u)'
  BY <1>2, <1>4, <1>8 DEF H2BodyAt
<1>10. H2FirstAt(c, u)'
  <2> SUFFICES ASSUME NEW i \in 1 .. Len(h2Messages'),
                      h2Messages'[i].by[1] = c, h2Messages'[i].key[1] = t,
                      \A j \in 1 .. i - 1 : h2Messages'[j].key # h2Messages'[i].key
                                            \/ h2Messages'[j].dir # h2Messages'[i].dir
               PROVE  h2Messages'[i].body
                        = H2Cut(H2UpTo(h2Traffic, c, h2Messages'[i].key[2], h2Messages'[i].dir,
                                       "data", h2Messages'[i].by[2]))
    BY <1>2, <1>4 DEF H2FirstAt
  <2>1. CASE i \in 1 .. Len(h2Messages)
    <3>1. \A j \in 1 .. i - 1 : j \in 1 .. Len(h2Messages)
      BY <1>3, <2>1
    <3> QED
      BY <1>3, <1>7, <2>1, <3>1 DEF H2FirstAt
  <2>2. CASE i \notin 1 .. Len(h2Messages)
    <3>1. PICK state, d, ends :
                 /\ H2Handled(c, t, f, state, d, ends) /\ H2Emits(state, d, ends)
                 /\ h2Messages'[i] = H2Message(k, state, d, f) /\ i = Len(h2Messages) + 1
      BY <1>1, <2>2, H2MessagesAfter DEF f
    <3>2. /\ h2Messages'[i].by = f /\ h2Messages'[i].key = k /\ h2Messages'[i].dir = d
          /\ h2Messages'[i].body = state.body[d]
      BY <3>1 DEF H2Message
    <3>3. d \in H2!Directions
      BY <3>1 DEF H2Handled
    <3>4. H2SaidOf(k, d) = {}
      <4>1. \A j \in 1 .. Len(h2Messages) : j \in 1 .. i - 1 /\ h2Messages'[j] = h2Messages[j]
        BY <1>3, <3>1
      <4> QED
        BY <3>2, <4>1 DEF H2SaidOf
    <3>5. H2Entry(h2Streams, k).body[d]
            = H2Cut(H2UpTo(h2Traffic, c, H2!Frame(f).sid, d, "data", h2Pos[c]))
      BY <1>5, <1>7, <3>3, <3>4 DEF H2BodyAt
    <3>6. state.body[d] = H2Cut(H2UpTo(h2Traffic, c, H2!Frame(f).sid, d, "data", n))
      BY <1>1, <1>2, <3>1, <3>3, <3>5, H2BodyExtended DEF f
    <3> QED
      BY <1>5, <3>2, <3>6 DEF f
  <2> QED
    BY <2>1, <2>2
<1> QED
  BY <1>9, <1>10

LEMMA H2ReceiveKeeps ==
  ASSUME H2Kept, NEW c \in H2Conns, NEW t \in H2Threads, H2!Receive(c, t)
  PROVE  H2Kept'
<1>1. ASSUME NEW e \in H2Conns, NEW u \in H2Threads, H2Quiet(e, u)'
      PROVE  (H2BodyAt(e, u) /\ H2FirstAt(e, u))'
  <2>1. CASE e = c
    <3>1. H2Quiet(c, u)'
      BY <1>1, <2>1
    <3>2. (H2BodyAt(c, u) /\ H2FirstAt(c, u))'
      BY <3>1, H2OwnBodied
    <3> QED
      BY <2>1, <3>2
  <2>2. CASE e # c
    BY <1>1, <2>2, H2OthersBodied
  <2> QED
    BY <2>1, <2>2
<1>2. H2Bodied'
  BY <1>1 DEF H2Bodied
<1>3. H2Shape' /\ H2MessagesBy' /\ H2EmittedOnce'
  BY H2ReceiveShape, H2ReceiveMessages, H2ReceiveEmitted
<1> QED
  BY <1>2, <1>3 DEF H2Kept

\* A behaviour is of either analyzer, and the other one's state stays as it was.
LEMMA H2StepKeeps ==
  ASSUME H2Kept, [ReassemblyNext]_<<part, vars, h2Vars>>
  PROVE  H2Kept'
<1>1. CASE UNCHANGED h2Vars
  <2>1. /\ UNCHANGED <<h2Traffic, h2Pos, h2Streams>> /\ UNCHANGED <<h2Pending, h2Ran, h2Dropped>>
        /\ h2Messages' = h2Messages
    BY <1>1 DEF h2Vars
  <2>2. H2Shape'
    BY <2>1 DEF H2Kept, H2Shape, H2State
  <2>3. H2MessagesBy'
    BY <2>1 DEF H2Kept, H2MessagesBy, H2SaidBy, H2!Frame
  <2>4. H2EmittedOnce'
    BY <2>1 DEF H2Kept, H2EmittedOnce, H2SaidOf
  <2>5. ASSUME NEW c \in H2Conns, NEW t \in H2Threads, H2Quiet(c, t)'
        PROVE  (H2BodyAt(c, t) /\ H2FirstAt(c, t))'
    <3>1. H2Quiet(c, t)
      BY <2>1, <2>5 DEF H2Quiet
    <3>2. H2BodyAt(c, t) /\ H2FirstAt(c, t)
      BY <3>1 DEF H2Kept, H2Bodied
    <3> QED
      BY <2>1, <3>2 DEF H2BodyAt, H2FirstAt, H2SaidOf, H2Entry
  <2> QED
    BY <2>2, <2>3, <2>4, <2>5 DEF H2Kept, H2Bodied
<1>2. CASE H2!Next
  <2>1. PICK c \in H2Conns : H2!Lose(c) \/ \E t \in h2Traffic[c].threads : H2!Receive(c, t)
    BY <1>2 DEF H2!Next
  <2>2. h2Traffic[c].threads \subseteq H2Threads
    BY H2Assumed DEF H2Kept, H2Shape
  <2> QED
    BY <2>1, <2>2, H2LoseKeeps, H2ReceiveKeeps
<1> QED
  BY <1>1, <1>2 DEF ReassemblyNext

\* HTTP2State gives a message the body of its own stream, all of it or the end that
\* there is room for, if its connection has a thread of its own and nothing of it was
\* lost or evicted: HTTP2State::handle_event and extend_capped.
THEOREM BodiesAreOwn == ReassemblySpec => []OwnBody
<1>1. ReassemblyInit => H2Kept
  BY H2InitKept DEF ReassemblyInit
<1>2. H2Kept /\ [ReassemblyNext]_<<part, vars, h2Vars>> => H2Kept'
  BY H2StepKeeps
<1>3. H2Kept => OwnBody
  BY H2OwnBody DEF OwnBody
<1> QED
  BY <1>1, <1>2, <1>3, PTL DEF ReassemblySpec

-----------------------------------------------------------------------------
\* What the headers of a message hold (OwnHeaders): the decoders are in step with the
\* ends of a connection that has them for itself.

\* Literals and the decoder's table
H2IsLiteral(frames, d, q) ==
  frames[q].type = "headers" /\ frames[q].dir = d /\ frames[q].index = 0

LEMMA LiteralsCounted ==
  ASSUME NEW frames, NEW d, NEW p \in Nat, NEW n \in Nat
  PROVE  /\ IsFiniteSet(H2!Literals(frames, d, p, n))
         /\ H2!Literals(frames, d, p, n) \subseteq p .. n - 1
         /\ Cardinality(H2!Literals(frames, d, p, n)) \in Nat
<1>1. H2!Literals(frames, d, p, n) \subseteq p .. n - 1
  BY DEF H2!Literals
<1>2. IsFiniteSet(p .. n - 1)
  BY FS_Interval
<1>3. IsFiniteSet(H2!Literals(frames, d, p, n))
  BY <1>1, <1>2, FS_Subset
<1> QED
  BY <1>1, <1>3, FS_CardinalityType

\* A direction's table has all literals before the n-th frame, newest first.
H2Synced(list, frames, d, n) ==
  \A p \in H2!Literals(frames, d, 1, n) :
    /\ Cardinality(H2!Literals(frames, d, p, n)) \in 1 .. Len(list)
    /\ list[Cardinality(H2!Literals(frames, d, p, n))].value = frames[p].value

\* Frames that are no literals of the direction change nothing,
LEMMA H2SyncedSame ==
  ASSUME NEW list, NEW frames, NEW d, NEW m \in Nat \ {0}, NEW n \in Nat, m <= n,
         \A q \in m .. n - 1 : ~H2IsLiteral(frames, d, q), H2Synced(list, frames, d, m)
  PROVE  H2Synced(list, frames, d, n)
<1>1. ASSUME NEW p \in 1 .. m
      PROVE  H2!Literals(frames, d, p, n) = H2!Literals(frames, d, p, m)
  <2>1. \A q \in p .. n - 1 : H2IsLiteral(frames, d, q) <=> q \in p .. m - 1 /\ H2IsLiteral(frames, d, q)
    <3> TAKE q \in p .. n - 1
    <3>1. q \in p .. m - 1 \/ q \in m .. n - 1
      OBVIOUS
    <3> QED
      BY <3>1
  <2>2. p .. m - 1 \subseteq p .. n - 1
    OBVIOUS
  <2> QED
    BY <2>1, <2>2 DEF H2!Literals, H2IsLiteral
<1>2. H2!Literals(frames, d, 1, n) = H2!Literals(frames, d, 1, m)
  BY <1>1
<1>3. \A p \in H2!Literals(frames, d, 1, m) : p \in 1 .. m
  BY LiteralsCounted
<1> QED
  BY <1>1, <1>2, <1>3 DEF H2Synced

\* and one that is goes in front.
LEMMA H2SyncedMore ==
  ASSUME NEW S, NEW list \in Seq(S), NEW entry \in S, NEW frames, NEW d, NEW n \in Nat \ {0},
         H2IsLiteral(frames, d, n), entry.value = frames[n].value, H2Synced(list, frames, d, n)
  PROVE  H2Synced(<<entry>> \o list, frames, d, n + 1)
<1> DEFINE more == <<entry>> \o list
           Of(p, m) == H2!Literals(frames, d, p, m)
<1>1. /\ more \in Seq(S) /\ Len(more) = Len(list) + 1 /\ more[1] = entry
      /\ \A i \in 1 .. Len(list) : more[i + 1] = list[i]
  OBVIOUS
<1>2. ASSUME NEW p \in 1 .. n
      PROVE  Of(p, n + 1) = Of(p, n) \cup {n} /\ n \notin Of(p, n)
  <2>1. p .. (n + 1) - 1 = (p .. n - 1) \cup {n} /\ n \notin p .. n - 1
    OBVIOUS
  <2> QED
    BY <2>1 DEF H2!Literals, H2IsLiteral
<1> HIDE DEF more
<1>3. ASSUME NEW p \in Of(1, n + 1)
      PROVE  /\ Cardinality(Of(p, n + 1)) \in 1 .. Len(more)
             /\ more[Cardinality(Of(p, n + 1))].value = frames[p].value
  <2>1. p \in Of(1, n) \/ p = n
    BY <1>2
  <2>2. Of(1, n) \subseteq 1 .. n - 1
    BY LiteralsCounted
  <2>3. p \in 1 .. n /\ p \in Nat
    BY <2>1, <2>2
  <2>4. /\ IsFiniteSet(Of(p, n)) /\ Cardinality(Of(p, n)) \in Nat
        /\ Of(p, n + 1) = Of(p, n) \cup {n} /\ n \notin Of(p, n)
    BY <1>2, <2>3, LiteralsCounted
  <2> HIDE DEF Of
  <2>5. Cardinality(Of(p, n + 1)) = Cardinality(Of(p, n)) + 1
    BY <2>4, FS_AddElement
  <2>6. CASE p = n
    <3>1. Of(n, n) = {}
      BY DEF Of, H2!Literals
    <3>2. Cardinality(Of(p, n)) = 0
      BY <2>6, <3>1, FS_EmptySet
    <3> QED
      BY <1>1, <2>5, <2>6, <3>2
  <2>7. CASE p \in Of(1, n)
    <3>1. /\ Cardinality(Of(p, n)) \in 1 .. Len(list)
          /\ list[Cardinality(Of(p, n))].value = frames[p].value
      BY <2>7 DEF H2Synced, Of
    <3> QED
      BY <1>1, <2>4, <2>5, <3>1
  <2> QED
    BY <2>1, <2>6, <2>7
<1> QED
  BY <1>3 DEF H2Synced, more

\* A table that has them says what the sender meant.
LEMMA H2Understood ==
  ASSUME NEW list, NEW frames, NEW n \in DOMAIN frames, H2!Encoded(frames),
         frames[n].type = "headers", frames[n].index # 0,
         H2Synced(list, frames, frames[n].dir, n)
  PROVE  frames[n].index \in 1 .. Len(list) /\ list[frames[n].index].value = frames[n].value
<1>1. PICK p \in H2!Literals(frames, frames[n].dir, 1, n) :
             /\ frames[p].value = frames[n].value
             /\ Cardinality(H2!Literals(frames, frames[n].dir, p, n)) = frames[n].index
  BY H2Words DEF H2!Encoded
<1> QED
  BY <1>1 DEF H2Synced

LEMMA H2Peers ==
  ASSUME H2Shape, NEW c \in H2Conns
  PROVE  /\ h2Traffic[c].frames \in Seq(H2!Frames)
         /\ H2!Encoded(h2Traffic[c].frames) /\ H2!BlocksAreWhole(h2Traffic[c].frames)
         /\ H2!SidesEnd(h2Traffic[c].frames)
BY H2Assumed, ReassemblyPeers DEF H2Shape, H2!PeersAssumption

-----------------------------------------------------------------------------
\* The step of a record: what was dropped stays so, and tables are added to.
LEMMA H2DroppedGrows ==
  ASSUME H2Shape, NEW c \in H2Conns, NEW t, H2!Receive(c, t)
  PROVE  /\ h2Dropped'.conns = h2Dropped.conns /\ h2Dropped.blocks \subseteq h2Dropped'.blocks
         /\ h2Dropped.keys \subseteq h2Dropped'.keys
         /\ \A x \in H2Conns : h2Ran[x] \subseteq h2Ran'[x]
<1>1. PICK f : f = <<c, h2Pos[c] + 1>>
  OBVIOUS
<1>2. /\ H2Ignored(f) \/ \E state, d, ends : H2Handled(c, t, f, state, d, ends)
      /\ h2Ran' = [h2Ran EXCEPT ![c] = h2Ran[c] \cup {t}]
  BY <1>1, H2ReceiveIs
<1>3. CASE H2Ignored(f)
  <2>1. h2Dropped'.conns = h2Dropped.conns /\ h2Dropped'.keys = h2Dropped.keys
        /\ h2Dropped.blocks \subseteq h2Dropped'.blocks
    BY <1>3 DEF H2Ignored
  <2> QED
    BY <1>2, <2>1 DEF H2Shape
<1>4. ASSUME NEW state, NEW d, NEW ends, H2Handled(c, t, f, state, d, ends)
      PROVE  /\ h2Dropped'.conns = h2Dropped.conns /\ h2Dropped'.blocks = h2Dropped.blocks
             /\ h2Dropped.keys \subseteq h2Dropped'.keys
  <2>1. h2Dropped' = [conns |-> h2Dropped.conns, keys |-> h2Dropped'.keys,
                      blocks |-> h2Dropped.blocks]
        /\ h2Dropped.keys \subseteq h2Dropped'.keys
    BY <1>4, H2FinishIs DEF H2Handled
  <2> QED
    BY <2>1
<1> QED
  BY <1>2, <1>3, <1>4 DEF H2Shape

LEMMA H2QuietBefore ==
  ASSUME H2Shape, NEW c \in H2Conns, NEW t, H2!Receive(c, t), NEW e \in H2Conns, NEW u,
         H2Quiet(e, u)'
  PROVE  H2Quiet(e, u) /\ (u = t <=> e = c)
<1>1. H2Quiet(e, u)
  BY H2DroppedGrows DEF H2Quiet
<1>2. t \in h2Ran'[c]
  <2>1. h2Ran' = [h2Ran EXCEPT ![c] = h2Ran[c] \cup {t}]
    BY H2ReceiveIs
  <2> QED
    BY <2>1 DEF H2Shape
<1> QED
  BY <1>1, <1>2 DEF H2Quiet

\* What a record does to tables and pending blocks
H2Decodes(d, h) == h2Table' = IF H2!Decodes(d, h) THEN H2!TableAfter(d, h) ELSE h2Table

LEMMA H2BlocksAre ==
  ASSUME H2Shape, NEW c \in H2Conns, NEW t, H2!Receive(c, t), NEW f, f = <<c, h2Pos[c] + 1>>,
         NEW k, k = H2!Key(t, f)
  PROVE  \/ /\ h2Pending' = h2Pending /\ h2Table' = h2Table /\ H2!Frame(f).type # "headers"
            /\ H2!Frame(f).type = "continuation" /\ H2!Frame(f).endHeaders => k \notin DOMAIN h2Pending
         \/ /\ H2!Frame(f).type = "headers" /\ H2!Frame(f).endHeaders
            /\ h2Pending' = h2Pending /\ H2Decodes(H2!Frame(f).dir, f)
         \/ /\ H2!Frame(f).type = "headers" /\ ~H2!Frame(f).endHeaders /\ h2Table' = h2Table
            /\ \E ks : /\ h2Pending' = H2!Without(H2!Put(h2Pending, k, f), ks)
                       /\ ks \subseteq DOMAIN H2!Put(h2Pending, k, f)
                       /\ {H2!Put(h2Pending, k, f)[j][1] : j \in ks} \subseteq h2Dropped'.blocks
         \/ /\ H2!Frame(f).type = "continuation" /\ H2!Frame(f).endHeaders /\ k \in DOMAIN h2Pending
            /\ h2Pending' = H2!Without(h2Pending, {k})
            /\ H2Decodes(H2!Frame(h2Pending[k]).dir, h2Pending[k])
<1>1. H2!Data(k, f) \/ H2!Headers(k, f) \/ H2!Continuation(k, f)
  BY DEF H2!Receive
<1>2. CASE H2!Data(k, f)
  BY <1>2 DEF H2!Data
<1>3. CASE H2!Headers(k, f) /\ H2!Frame(f).endHeaders
  <2>1. H2!Apply(k, H2!Frame(f).dir, f, f, H2!Frame(f).endStream) /\ h2Pending' = h2Pending
        /\ H2!Frame(f).type = "headers"
    BY <1>3 DEF H2!Headers
  <2>2. H2Decodes(H2!Frame(f).dir, f)
    BY <2>1 DEF H2!Apply, H2Decodes
  <2> QED
    BY <1>3, <2>1, <2>2
<1>4. CASE H2!Headers(k, f) /\ ~H2!Frame(f).endHeaders
  <2>1. PICK ks \in H2!Evictions(H2!Put(h2Pending, k, f)) :
               /\ h2Pending' = H2!Without(H2!Put(h2Pending, k, f), ks)
               /\ h2Dropped' = [h2Dropped EXCEPT !.blocks = @ \cup {H2!Put(h2Pending, k, f)[j][1] : j \in ks}]
    BY <1>4 DEF H2!Headers
  <2>2. ks \subseteq DOMAIN H2!Put(h2Pending, k, f)
    BY DEF H2!Evictions
  <2>3. {H2!Put(h2Pending, k, f)[j][1] : j \in ks} \subseteq h2Dropped'.blocks
    <3> DEFINE more == {H2!Put(h2Pending, k, f)[j][1] : j \in ks}
    <3>1. h2Dropped' = [h2Dropped EXCEPT !.blocks = @ \cup more]
      BY <2>1
    <3> HIDE DEF more
    <3>2. more \subseteq h2Dropped'.blocks
      BY <3>1 DEF H2Shape
    <3> QED
      BY <3>2 DEF more
  <2>4. H2!Frame(f).type = "headers" /\ h2Table' = h2Table
    BY <1>4 DEF H2!Headers
  <2> QED
    BY <1>4, <2>1, <2>2, <2>3, <2>4
<1>5. CASE H2!Continuation(k, f) /\ k \in DOMAIN h2Pending /\ H2!Frame(f).endHeaders
  <2>1. /\ H2!Apply(k, H2!Frame(h2Pending[k]).dir, h2Pending[k], f, FALSE)
        /\ h2Pending' = H2!Without(h2Pending, {k}) /\ H2!Frame(f).type = "continuation"
    BY <1>5 DEF H2!Continuation
  <2>2. H2Decodes(H2!Frame(h2Pending[k]).dir, h2Pending[k])
    BY <2>1 DEF H2!Apply, H2Decodes
  <2> QED
    BY <1>5, <2>1, <2>2
<1>6. CASE H2!Continuation(k, f) /\ ~(k \in DOMAIN h2Pending /\ H2!Frame(f).endHeaders)
  BY <1>6 DEF H2!Continuation
<1> QED
  BY <1>1, <1>2, <1>3, <1>4, <1>5, <1>6

\* A pending block is a HEADERS frame that has come, on the thread and stream it is
\* under, and is not the whole block; tables are sequences.
H2Pended ==
  /\ \A k \in DOMAIN h2Pending :
       /\ k[1] \in h2Ran[h2Pending[k][1]] /\ k = <<k[1], H2!Frame(h2Pending[k]).sid>>
       /\ h2Pending[k][2] <= h2Pos[h2Pending[k][1]]
       /\ h2Pending[k] = <<h2Pending[k][1], h2Pending[k][2]>>
       /\ H2!Frame(h2Pending[k]).type = "headers" /\ ~H2!Frame(h2Pending[k]).endHeaders
  /\ h2Table \in [H2!Directions -> Seq([value : H2Values, conn : H2Conns])]

H2Closes(c, i, sid) ==
  /\ H2!Frame(<<c, i>>).type = "continuation" /\ H2!Frame(<<c, i>>).endHeaders
  /\ H2!Frame(<<c, i>>).sid = sid

\* A connection that is quiet, and alone with the decoders, has them in step with its ends:
\* the table has all literals before the block that is pending, or all.
H2InStep(c, t) ==
  /\ \A k \in DOMAIN h2Pending : k[1] = t =>
       /\ \A i \in h2Pending[k][2] + 1 .. h2Pos[c] : ~H2Closes(c, i, k[2])
       /\ H2Synced(h2Table[H2!Frame(h2Pending[k]).dir], h2Traffic[c].frames,
                   H2!Frame(h2Pending[k]).dir, h2Pending[k][2])
  /\ \A d \in H2!Directions :
       (\A k \in DOMAIN h2Pending : k[1] = t => H2!Frame(h2Pending[k]).dir # d)
       => H2Synced(h2Table[d], h2Traffic[c].frames, d, h2Pos[c] + 1)

H2Decoding ==
  \A c \in H2Conns, t \in H2Threads : H2Quiet(c, t) /\ H2!Synchronous(c) => H2InStep(c, t)

H2Heard == H2Shape /\ H2Pended /\ H2Decoding

\* A frame that has been sent, or the next
LEMMA H2HeaderIs ==
  ASSUME H2Shape, NEW c \in H2Conns, NEW n \in 1 .. Len(h2Traffic[c].frames)
  PROVE  /\ H2!Frame(<<c, n>>).index \in Nat /\ H2!Frame(<<c, n>>).value \in H2Values
         /\ H2!Frame(<<c, n>>).endHeaders \in BOOLEAN
         /\ H2!Frame(<<c, n>>) = h2Traffic[c].frames[n]
         /\ n \in DOMAIN h2Traffic[c].frames
<1>1. H2!Frame(<<c, n>>) \in H2!Frames
  BY H2FrameIs
<1>2. H2!Frame(<<c, n>>) = h2Traffic[c].frames[n] /\ n \in DOMAIN h2Traffic[c].frames
  <2>1. h2Traffic[c].frames \in Seq(H2!Frames)
    BY H2Peers
  <2> QED
    BY <2>1 DEF H2!Frame
<1> HIDE DEF H2!Frame
<1> QED
  BY <1>1, <1>2 DEF H2!Frames

\* A block that is decoded adds its literal.
LEMMA H2TableIs ==
  ASSUME H2Shape, H2Pended, NEW e \in H2Conns, NEW n \in 1 .. Len(h2Traffic[e].frames),
         H2Decodes(H2!Frame(<<e, n>>).dir, <<e, n>>)
  PROVE  LET d == H2!Frame(<<e, n>>).dir
             entry == [value |-> H2!Frame(<<e, n>>).value, conn |-> e]
         IN  /\ d \in H2!Directions /\ entry \in [value : H2Values, conn : H2Conns]
             /\ h2Table' = IF H2!Frame(<<e, n>>).index = 0
                           THEN [h2Table EXCEPT ![d] = <<entry>> \o h2Table[d]] ELSE h2Table
<1> DEFINE d == H2!Frame(<<e, n>>).dir
           entry == [value |-> H2!Frame(<<e, n>>).value, conn |-> e]
<1>1. d \in H2!Directions /\ entry \in [value : H2Values, conn : H2Conns]
  BY H2FrameIs, H2HeaderIs
<1>2. Len(h2Table[d]) \in Nat
  BY <1>1 DEF H2Pended
<1>3. H2!Frame(<<e, n>>).index = 0 => H2!Decodes(d, <<e, n>>)
  BY <1>2 DEF H2!Decodes, H2!Decoder
<1> QED
  BY <1>1, <1>3 DEF H2Decodes, H2!TableAfter, H2!Decoder

LEMMA H2TableGrows ==
  ASSUME H2Shape, H2Pended, NEW e \in H2Conns, NEW n \in 1 .. Len(h2Traffic[e].frames),
         H2Decodes(H2!Frame(<<e, n>>).dir, <<e, n>>)
  PROVE  /\ h2Table' \in [H2!Directions -> Seq([value : H2Values, conn : H2Conns])]
         /\ \A d \in H2!Directions : \A i \in DOMAIN h2Table[d] :
              \E j \in DOMAIN h2Table'[d] : h2Table'[d][j] = h2Table[d][i]
         /\ \/ h2Table' = h2Table
            \/ \E d \in H2!Directions : \E j \in DOMAIN h2Table'[d] : h2Table'[d][j].conn = e
<1> DEFINE d == H2!Frame(<<e, n>>).dir
           entry == [value |-> H2!Frame(<<e, n>>).value, conn |-> e]
           Entries == [value : H2Values, conn : H2Conns]
<1>1. /\ d \in H2!Directions /\ entry \in Entries /\ entry.conn = e
      /\ h2Table' = IF H2!Frame(<<e, n>>).index = 0
                    THEN [h2Table EXCEPT ![d] = <<entry>> \o h2Table[d]] ELSE h2Table
  BY H2TableIs
<1>2. h2Table \in [H2!Directions -> Seq(Entries)]
  BY DEF H2Pended
<1> HIDE DEF d, entry, Entries
<1> DEFINE more == <<entry>> \o h2Table[d]
<1>3. /\ more \in Seq(Entries) /\ more[1] = entry /\ 1 \in DOMAIN more
      /\ \A i \in DOMAIN h2Table[d] : i + 1 \in DOMAIN more /\ more[i + 1] = h2Table[d][i]
  BY <1>1, <1>2
<1> HIDE DEF more
<1>4. CASE H2!Frame(<<e, n>>).index = 0
  <2>1. h2Table' = [h2Table EXCEPT ![d] = more]
    BY <1>1, <1>4 DEF more
  <2>2. h2Table' \in [H2!Directions -> Seq(Entries)]
    BY <1>1, <1>2, <1>3, <2>1
  <2>3. h2Table'[d] = more /\ \A x \in H2!Directions : x # d => h2Table'[x] = h2Table[x]
    BY <1>1, <1>2, <2>1
  <2>4. \A x \in H2!Directions : \A i \in DOMAIN h2Table[x] :
          \E j \in DOMAIN h2Table'[x] : h2Table'[x][j] = h2Table[x][i]
    BY <1>3, <2>3
  <2>5. 1 \in DOMAIN h2Table'[d] /\ h2Table'[d][1].conn = e
    BY <1>1, <1>3, <2>3
  <2> QED
    BY <1>1, <2>2, <2>4, <2>5 DEF Entries
<1>5. CASE H2!Frame(<<e, n>>).index # 0
  BY <1>1, <1>2, <1>5 DEF Entries
<1> QED
  BY <1>4, <1>5

\* Which block a record decodes, if any: its own, or the pending one that it ends
LEMMA H2DecodedIs ==
  ASSUME H2Shape, H2Pended, NEW c \in H2Conns, NEW t, H2!Receive(c, t)
  PROVE  \/ h2Table' = h2Table
         \/ \E e \in H2Conns : \E n \in 1 .. Len(h2Traffic[e].frames) :
              /\ H2Decodes(H2!Frame(<<e, n>>).dir, <<e, n>>)
              /\ e = c \/ t \in h2Ran[e]
<1>1. PICK n, f, k : n = h2Pos[c] + 1 /\ f = <<c, n>> /\ k = H2!Key(t, f)
  OBVIOUS
<1>2. n \in 1 .. Len(h2Traffic[c].frames)
  BY <1>1, H2ReceiveIs
<1>3. CASE H2Decodes(H2!Frame(f).dir, f)
  BY <1>1, <1>2, <1>3
<1>4. CASE k \in DOMAIN h2Pending /\ H2Decodes(H2!Frame(h2Pending[k]).dir, h2Pending[k])
  <2>1. PICK e, m : h2Pending[k] = <<e, m>> /\ e = h2Pending[k][1] /\ m = h2Pending[k][2]
    BY <1>4 DEF H2Pended
  <2>2. e \in H2Conns /\ m \in 1 .. Len(h2Traffic[e].frames) /\ k[1] \in h2Ran[e]
    BY <1>4, <2>1 DEF H2Shape, H2Pended
  <2>3. k[1] = t
    BY <1>1 DEF H2!Key
  <2> QED
    BY <1>4, <2>1, <2>2, <2>3
<1> QED
  BY <1>1, <1>3, <1>4, H2BlocksAre

LEMMA H2SynchronousBefore ==
  ASSUME H2Shape, H2Pended, NEW c \in H2Conns, NEW t, H2!Receive(c, t),
         NEW e \in H2Conns, H2!Synchronous(e)'
  PROVE  H2!Synchronous(e)
<1>1. \A d \in H2!Directions : \A i \in DOMAIN h2Table[d] :
        \E j \in DOMAIN h2Table'[d] : h2Table'[d][j] = h2Table[d][i]
  BY H2DecodedIs, H2TableGrows
<1>2. h2Dropped'.conns = {} /\ h2Dropped'.blocks = {}
      /\ \A d \in H2!Directions : \A i \in DOMAIN h2Table'[d] : h2Table'[d][i].conn = e
  BY DEF H2!Synchronous
<1>3. h2Dropped.conns = {} /\ h2Dropped.blocks = {}
  BY <1>2, H2DroppedGrows
<1>4. \A d \in H2!Directions : \A i \in DOMAIN h2Table[d] : h2Table[d][i].conn = e
  BY <1>1, <1>2
<1> QED
  BY <1>3, <1>4 DEF H2!Synchronous

LEMMA H2PendedKeeps ==
  ASSUME H2Shape, H2Pended, NEW c \in H2Conns, NEW t, H2!Receive(c, t)
  PROVE  H2Pended'
<1>1. PICK n, f, k : n = h2Pos[c] + 1 /\ f = <<c, n>> /\ k = H2!Key(t, f)
  OBVIOUS
<1>2. /\ n \in 1 .. Len(h2Traffic[c].frames) /\ h2Traffic' = h2Traffic
      /\ h2Pos' = [h2Pos EXCEPT ![c] = n]
      /\ h2Ran' = [h2Ran EXCEPT ![c] = h2Ran[c] \cup {t}]
  BY <1>1, H2ReceiveIs
<1>3. h2Table' \in [H2!Directions -> Seq([value : H2Values, conn : H2Conns])]
  BY H2DecodedIs, H2TableGrows DEF H2Pended
<1>4. \A j \in DOMAIN h2Pending' :
        \/ j \in DOMAIN h2Pending /\ h2Pending'[j] = h2Pending[j]
        \/ /\ j = k /\ h2Pending'[j] = f
           /\ H2!Frame(f).type = "headers" /\ ~H2!Frame(f).endHeaders
  <2>1. CASE h2Pending' = h2Pending
    BY <2>1
  <2>2. CASE /\ H2!Frame(f).type = "headers" /\ ~H2!Frame(f).endHeaders
             /\ \E ks : h2Pending' = H2!Without(H2!Put(h2Pending, k, f), ks)
    <3>1. PICK ks : h2Pending' = H2!Without(H2!Put(h2Pending, k, f), ks)
      BY <2>2
    <3>2. DOMAIN H2!Put(h2Pending, k, f) = DOMAIN h2Pending \cup {k}
          /\ \A j \in DOMAIN h2Pending \cup {k} :
               H2!Put(h2Pending, k, f)[j] = IF j = k THEN f ELSE h2Pending[j]
      BY DEF H2!Put
    <3>3. \A j \in DOMAIN h2Pending' :
            j \in DOMAIN h2Pending \cup {k} /\ h2Pending'[j] = H2!Put(h2Pending, k, f)[j]
      BY <3>1, <3>2 DEF H2!Without
    <3> QED
      BY <2>2, <3>2, <3>3
  <2>3. CASE h2Pending' = H2!Without(h2Pending, {k})
    BY <2>3 DEF H2!Without
  <2> QED
    BY <1>1, <2>1, <2>2, <2>3, H2BlocksAre
<1>5. ASSUME NEW j \in DOMAIN h2Pending'
      PROVE  /\ j[1] \in h2Ran'[h2Pending'[j][1]] /\ j = <<j[1], H2!Frame(h2Pending'[j]).sid>>
             /\ h2Pending'[j][2] <= h2Pos'[h2Pending'[j][1]]
             /\ h2Pending'[j] = <<h2Pending'[j][1], h2Pending'[j][2]>>
             /\ H2!Frame(h2Pending'[j]).type = "headers" /\ ~H2!Frame(h2Pending'[j]).endHeaders
  <2>1. CASE j \in DOMAIN h2Pending /\ h2Pending'[j] = h2Pending[j]
    <3>1. PICK h : h = h2Pending[j]
      OBVIOUS
    <3>2. /\ j[1] \in h2Ran[h[1]] /\ j = <<j[1], H2!Frame(h).sid>> /\ h[2] <= h2Pos[h[1]]
          /\ h = <<h[1], h[2]>> /\ H2!Frame(h).type = "headers" /\ ~H2!Frame(h).endHeaders
      BY <2>1, <3>1 DEF H2Pended
    <3>3. h[1] \in H2Conns
      BY <2>1, <3>1 DEF H2Shape
    <3>4. h2Pos[h[1]] <= h2Pos'[h[1]] /\ h[2] <= h2Pos'[h[1]]
      <4>1. h2Pos[h[1]] \in Nat /\ h2Pos[c] \in Nat
        BY <3>3 DEF H2Shape
      <4>2. h[2] \in 1 .. Len(h2Traffic[h[1]].frames)
        BY <2>1, <3>1 DEF H2Shape
      <4>3. h2Pos'[h[1]] = h2Pos[h[1]] \/ h2Pos'[h[1]] = h2Pos[h[1]] + 1
        BY <1>1, <1>2, <3>3 DEF H2Shape
      <4> QED
        BY <3>2, <4>1, <4>2, <4>3
    <3>5. h2Ran[h[1]] \subseteq h2Ran'[h[1]]
      BY <1>2, <3>3 DEF H2Shape
    <3> QED
      BY <2>1, <3>1, <3>2, <3>4, <3>5
  <2>2. CASE /\ j = k /\ h2Pending'[j] = f
             /\ H2!Frame(f).type = "headers" /\ ~H2!Frame(f).endHeaders
    <3>1. t \in h2Ran'[c] /\ h2Pos'[c] = n
      BY <1>2 DEF H2Shape
    <3>2. n <= n
      BY <1>2
    <3> QED
      BY <1>1, <2>2, <3>1, <3>2 DEF H2!Key
  <2> QED
    BY <1>4, <2>1, <2>2
<1> QED
  BY <1>2, <1>3, <1>5 DEF H2Pended, H2!Frame

\* The decoder understands the next block of its direction.
LEMMA H2DecodesTo ==
  ASSUME H2Shape, H2Pended, NEW c \in H2Conns, NEW n \in 1 .. Len(h2Traffic[c].frames),
         NEW d, d = H2!Frame(<<c, n>>).dir, H2!Frame(<<c, n>>).type = "headers",
         H2Decodes(d, <<c, n>>), H2Synced(h2Table[d], h2Traffic[c].frames, d, n)
  PROVE  /\ H2Synced(h2Table'[d], h2Traffic[c].frames, d, n + 1)
         /\ \A x \in H2!Directions : x # d => h2Table'[x] = h2Table[x]
<1> DEFINE frames == h2Traffic[c].frames
           entry == [value |-> H2!Frame(<<c, n>>).value, conn |-> c]
           Entries == [value : H2Values, conn : H2Conns]
<1>1. /\ d \in H2!Directions /\ entry \in Entries
      /\ h2Table' = IF H2!Frame(<<c, n>>).index = 0
                    THEN [h2Table EXCEPT ![d] = <<entry>> \o h2Table[d]] ELSE h2Table
  BY H2TableIs
<1>2. h2Table \in [H2!Directions -> Seq(Entries)]
  BY DEF H2Pended
<1>3. /\ H2!Frame(<<c, n>>) = frames[n] /\ entry.value = frames[n].value
      /\ n \in Nat \ {0} /\ n + 1 \in Nat /\ n <= n + 1
      /\ \A q \in n .. (n + 1) - 1 : q = n
  BY H2HeaderIs
<1> HIDE DEF frames, entry, Entries
<1>4. CASE H2!Frame(<<c, n>>).index = 0
  <2>1. H2IsLiteral(frames, d, n)
    BY <1>3, <1>4 DEF H2IsLiteral
  <2>2. H2Synced(<<entry>> \o h2Table[d], frames, d, n + 1)
    BY <1>1, <1>2, <1>3, <2>1, H2SyncedMore DEF frames
  <2>3. h2Table'[d] = <<entry>> \o h2Table[d] /\ \A x \in H2!Directions : x # d => h2Table'[x] = h2Table[x]
    BY <1>1, <1>2, <1>4
  <2> QED
    BY <2>2, <2>3 DEF frames
<1>5. CASE H2!Frame(<<c, n>>).index # 0
  <2>1. ~H2IsLiteral(frames, d, n)
    BY <1>3, <1>5 DEF H2IsLiteral
  <2>2. H2Synced(h2Table[d], frames, d, n + 1)
    BY <1>3, <2>1, H2SyncedSame DEF frames
  <2> QED
    BY <1>1, <1>5, <2>2 DEF frames
<1> QED
  BY <1>4, <1>5

\* A frame that is no literal of the direction
LEMMA H2SyncedNext ==
  ASSUME H2Shape, NEW c \in H2Conns, NEW n \in 1 .. Len(h2Traffic[c].frames), NEW d, NEW list,
         H2!Frame(<<c, n>>).type # "headers" \/ H2!Frame(<<c, n>>).dir # d,
         H2Synced(list, h2Traffic[c].frames, d, n)
  PROVE  H2Synced(list, h2Traffic[c].frames, d, n + 1)
<1>1. ~H2IsLiteral(h2Traffic[c].frames, d, n)
  BY H2HeaderIs DEF H2IsLiteral
<1>2. n \in Nat \ {0} /\ n + 1 \in Nat /\ n <= n + 1 /\ \A q \in n .. (n + 1) - 1 : q = n
  OBVIOUS
<1> QED
  BY <1>1, <1>2, H2SyncedSame

\* While a connection is quiet, what is pending under its thread is its own,
LEMMA H2PendingOwn ==
  ASSUME H2Shape, H2Pended, NEW c \in H2Conns, NEW t, H2Quiet(c, t),
         NEW k \in DOMAIN h2Pending, k[1] = t
  PROVE  \E b \in 1 .. Len(h2Traffic[c].frames) :
           /\ h2Pending[k] = <<c, b>> /\ h2Pending[k][2] = b /\ b <= h2Pos[c]
           /\ H2!Frame(<<c, b>>).type = "headers" /\ ~H2!Frame(<<c, b>>).endHeaders
           /\ k = <<t, H2!Frame(<<c, b>>).sid>> /\ H2!Frame(<<c, b>>).dir \in H2!Directions
<1>1. PICK h : h = h2Pending[k]
  OBVIOUS
<1>2. /\ k[1] \in h2Ran[h[1]] /\ k = <<k[1], H2!Frame(h).sid>>
      /\ h[2] <= h2Pos[h[1]] /\ h = <<h[1], h[2]>>
      /\ H2!Frame(h).type = "headers" /\ ~H2!Frame(h).endHeaders
  BY <1>1 DEF H2Pended
<1>3. h[1] \in H2Conns /\ h[2] \in 1 .. Len(h2Traffic[h[1]].frames)
  BY <1>1 DEF H2Shape
<1>4. h[1] = c
  BY <1>2, <1>3 DEF H2Quiet
<1>5. PICK b : b = h[2] /\ h = <<c, b>>
  BY <1>2, <1>4
<1>6. H2!Frame(<<c, b>>).dir \in H2!Directions
  BY <1>3, <1>4, <1>5, H2FrameIs
<1> QED
  BY <1>1, <1>2, <1>3, <1>4, <1>5, <1>6

\* and no other block of its direction or stream comes before its end.
LEMMA H2BlockAlone ==
  ASSUME H2Shape, H2Pended, NEW c \in H2Conns, NEW t, H2Quiet(c, t), H2InStep(c, t),
         NEW k \in DOMAIN h2Pending, k[1] = t,
         NEW n \in 1 .. Len(h2Traffic[c].frames), h2Pending[k][2] < n, n <= h2Pos[c] + 1,
         H2!Frame(<<c, n>>).type = "headers",
         \/ H2!Frame(<<c, n>>).dir = H2!Frame(h2Pending[k]).dir
         \/ H2!Frame(<<c, n>>).sid = H2!Frame(h2Pending[k]).sid
  PROVE  FALSE
<1> DEFINE frames == h2Traffic[c].frames
<1>1. PICK b \in 1 .. Len(frames) :
             /\ h2Pending[k] = <<c, b>> /\ h2Pending[k][2] = b
             /\ H2!Frame(<<c, b>>).type = "headers" /\ ~H2!Frame(<<c, b>>).endHeaders
             /\ k = <<t, H2!Frame(<<c, b>>).sid>>
  BY H2PendingOwn
<1>2. H2!Frame(<<c, b>>) = frames[b] /\ H2!Frame(<<c, n>>) = frames[n] /\ n \in DOMAIN frames
  BY H2HeaderIs
<1>3. b \in 1 .. n - 1
  BY <1>1
<1>4. H2!BlocksAreWhole(frames)
  BY H2Peers
<1> HIDE DEF frames
<1>5. PICK i \in b + 1 .. n - 1 :
             /\ frames[i].type = "continuation" /\ frames[i].endHeaders /\ frames[i].sid = frames[b].sid
  BY <1>1, <1>2, <1>3, <1>4 DEF H2!BlocksAreWhole
<1>6. i \in b + 1 .. h2Pos[c]
  BY <1>5 DEF H2Shape
<1>7. H2Closes(c, i, k[2])
  BY <1>1, <1>2, <1>5 DEF H2Closes, H2!Frame, frames
<1> QED
  BY <1>1, <1>6, <1>7 DEF H2InStep

\* Whether a thread has a block of the direction pending
H2Awaits(map, t, d) == \E k \in DOMAIN map : k[1] = t /\ H2!Frame(map[k]).dir = d

\* A record of a direction's headers: nothing of the direction, or the stream, is pending.
LEMMA H2NoneAwaited ==
  ASSUME H2Shape, H2Pended, NEW c \in H2Conns, NEW t, H2Quiet(c, t), H2InStep(c, t),
         NEW n, n = h2Pos[c] + 1, n \in 1 .. Len(h2Traffic[c].frames),
         H2!Frame(<<c, n>>).type = "headers"
  PROVE  /\ ~H2Awaits(h2Pending, t, H2!Frame(<<c, n>>).dir)
         /\ <<t, H2!Frame(<<c, n>>).sid>> \notin DOMAIN h2Pending
<1>1. h2Pos[c] \in Nat
  BY DEF H2Shape
<1>2. ASSUME NEW k \in DOMAIN h2Pending, k[1] = t
      PROVE  /\ H2!Frame(h2Pending[k]).dir # H2!Frame(<<c, n>>).dir
             /\ k # <<t, H2!Frame(<<c, n>>).sid>>
  <2>1. PICK b \in 1 .. Len(h2Traffic[c].frames) :
               /\ h2Pending[k] = <<c, b>> /\ h2Pending[k][2] = b /\ b <= h2Pos[c]
               /\ k = <<t, H2!Frame(<<c, b>>).sid>>
    BY <1>2, H2PendingOwn
  <2>2. h2Pending[k][2] < n /\ n <= h2Pos[c] + 1
    BY <1>1, <2>1
  <2>3. /\ H2!Frame(<<c, n>>).dir # H2!Frame(h2Pending[k]).dir
        /\ H2!Frame(<<c, n>>).sid # H2!Frame(h2Pending[k]).sid
    BY <1>2, <2>2, H2BlockAlone
  <2> QED
    BY <2>1, <2>3
<1> QED
  BY <1>2 DEF H2Awaits

\* Two pending blocks are of different directions.
LEMMA H2OneAwaited ==
  ASSUME H2Shape, H2Pended, NEW c \in H2Conns, NEW t, H2Quiet(c, t), H2InStep(c, t),
         NEW j \in DOMAIN h2Pending, j[1] = t, NEW k \in DOMAIN h2Pending, k[1] = t, j # k
  PROVE  H2!Frame(h2Pending[j]).dir # H2!Frame(h2Pending[k]).dir
<1>1. PICK a \in 1 .. Len(h2Traffic[c].frames) :
             /\ h2Pending[j] = <<c, a>> /\ h2Pending[j][2] = a /\ a <= h2Pos[c]
             /\ H2!Frame(<<c, a>>).type = "headers" /\ j = <<t, H2!Frame(<<c, a>>).sid>>
  BY H2PendingOwn
<1>2. PICK b \in 1 .. Len(h2Traffic[c].frames) :
             /\ h2Pending[k] = <<c, b>> /\ h2Pending[k][2] = b /\ b <= h2Pos[c]
             /\ H2!Frame(<<c, b>>).type = "headers" /\ k = <<t, H2!Frame(<<c, b>>).sid>>
  BY H2PendingOwn
<1>3. a # b
  BY <1>1, <1>2
<1>4. h2Pos[c] \in Nat
  BY DEF H2Shape
<1>5. CASE a < b
  <2>1. b <= h2Pos[c] + 1 /\ h2Pending[j][2] < b
    BY <1>1, <1>2, <1>4, <1>5
  <2>2. H2!Frame(<<c, b>>).dir # H2!Frame(h2Pending[j]).dir
    BY <1>2, <2>1, H2BlockAlone
  <2> QED
    BY <1>2, <2>2
<1>6. CASE b < a
  <2>1. a <= h2Pos[c] + 1 /\ h2Pending[k][2] < a
    BY <1>1, <1>2, <1>4, <1>6
  <2>2. H2!Frame(<<c, a>>).dir # H2!Frame(h2Pending[k]).dir
    BY <1>1, <2>1, H2BlockAlone
  <2> QED
    BY <1>1, <2>2
<1> QED
  BY <1>3, <1>5, <1>6

\* H2InStep of the next state, in words of this one
LEMMA H2InStepBy ==
  ASSUME NEW c, NEW t, NEW n, h2Traffic' = h2Traffic, h2Pos'[c] = n,
         \A j \in DOMAIN h2Pending' : j[1] = t =>
           /\ \A i \in h2Pending'[j][2] + 1 .. n : ~H2Closes(c, i, j[2])
           /\ H2Synced(h2Table'[H2!Frame(h2Pending'[j]).dir], h2Traffic[c].frames,
                       H2!Frame(h2Pending'[j]).dir, h2Pending'[j][2]),
         \A d \in H2!Directions :
           ~H2Awaits(h2Pending', t, d) => H2Synced(h2Table'[d], h2Traffic[c].frames, d, n + 1)
  PROVE  H2InStep(c, t)'
<1>1. \A f : H2!Frame(f)' = h2Traffic[f[1]].frames[f[2]] /\ H2!Frame(f) = h2Traffic[f[1]].frames[f[2]]
  BY DEF H2!Frame
<1>2. \A f : H2!Frame(f)' = H2!Frame(f)
  BY <1>1
<1>3. \A i, sid : H2Closes(c, i, sid)' = H2Closes(c, i, sid)
  BY <1>2 DEF H2Closes
<1>4. ASSUME NEW j \in DOMAIN h2Pending', j[1] = t
      PROVE  /\ \A i \in h2Pending'[j][2] + 1 .. h2Pos'[c] : ~H2Closes(c, i, j[2])'
             /\ H2Synced(h2Table'[H2!Frame(h2Pending[j])'.dir], h2Traffic'[c].frames,
                         H2!Frame(h2Pending[j])'.dir, h2Pending'[j][2])
  <2>1. H2!Frame(h2Pending[j])' = H2!Frame(h2Pending'[j])
    BY DEF H2!Frame
  <2> QED
    BY <1>3, <1>4, <2>1
<1>5. ASSUME NEW d \in H2!Directions,
             \A k \in DOMAIN h2Pending' : k[1] = t => H2!Frame(h2Pending[k])'.dir # d
      PROVE  H2Synced(h2Table'[d], h2Traffic'[c].frames, d, h2Pos'[c] + 1)
  <2>1. \A k \in DOMAIN h2Pending' : H2!Frame(h2Pending[k])' = H2!Frame(h2Pending'[k])
    BY DEF H2!Frame
  <2>2. ~H2Awaits(h2Pending', t, d)
    BY <1>5, <2>1 DEF H2Awaits
  <2> QED
    BY <2>2
<1> QED
  BY <1>4, <1>5 DEF H2InStep

\* What a connection in step has before its next record
LEMMA H2InStepIs ==
  ASSUME H2Shape, NEW c \in H2Conns, NEW t, H2InStep(c, t), NEW n, n = h2Pos[c] + 1
  PROVE  /\ \A j \in DOMAIN h2Pending : j[1] = t =>
              /\ \A i \in h2Pending[j][2] + 1 .. n : i # n => ~H2Closes(c, i, j[2])
              /\ H2Synced(h2Table[H2!Frame(h2Pending[j]).dir], h2Traffic[c].frames,
                          H2!Frame(h2Pending[j]).dir, h2Pending[j][2])
         /\ \A d \in H2!Directions :
              ~H2Awaits(h2Pending, t, d) => H2Synced(h2Table[d], h2Traffic[c].frames, d, n)
<1>1. h2Pos[c] \in Nat
  BY DEF H2Shape
<1>2. ASSUME NEW j \in DOMAIN h2Pending, j[1] = t,
             NEW i \in h2Pending[j][2] + 1 .. n, i # n
      PROVE  i \in h2Pending[j][2] + 1 .. h2Pos[c]
  BY <1>1, <1>2
<1> QED
  BY <1>2 DEF H2InStep, H2Awaits

\* The next record of the connection, if it is no headers and ends none
LEMMA H2InStepPast ==
  ASSUME H2Shape, H2Pended, NEW c \in H2Conns, NEW t, H2Quiet(c, t), H2InStep(c, t),
         NEW n, n = h2Pos[c] + 1, n \in 1 .. Len(h2Traffic[c].frames),
         h2Traffic' = h2Traffic, h2Pos'[c] = n, h2Pending' = h2Pending, h2Table' = h2Table,
         H2!Frame(<<c, n>>).type # "headers",
         H2!Frame(<<c, n>>).type = "continuation" /\ H2!Frame(<<c, n>>).endHeaders =>
           <<t, H2!Frame(<<c, n>>).sid>> \notin DOMAIN h2Pending
  PROVE  H2InStep(c, t)'
<1>1. ASSUME NEW j \in DOMAIN h2Pending, j[1] = t
      PROVE  ~H2Closes(c, n, j[2])
  <2>1. j = <<t, j[2]>>
    <3>1. PICK b \in 1 .. Len(h2Traffic[c].frames) : j = <<t, H2!Frame(<<c, b>>).sid>>
      BY <1>1, H2PendingOwn
    <3> QED
      BY <3>1
  <2> QED
    BY <2>1 DEF H2Closes
<1>2. ASSUME NEW j \in DOMAIN h2Pending, j[1] = t
      PROVE  /\ \A i \in h2Pending[j][2] + 1 .. n : ~H2Closes(c, i, j[2])
             /\ H2Synced(h2Table[H2!Frame(h2Pending[j]).dir], h2Traffic[c].frames,
                         H2!Frame(h2Pending[j]).dir, h2Pending[j][2])
  BY <1>1, <1>2, H2InStepIs
<1>3. ASSUME NEW d \in H2!Directions, ~H2Awaits(h2Pending, t, d)
      PROVE  H2Synced(h2Table[d], h2Traffic[c].frames, d, n + 1)
  <2>1. H2Synced(h2Table[d], h2Traffic[c].frames, d, n)
    BY <1>3, H2InStepIs
  <2> QED
    BY <2>1, H2SyncedNext
<1> QED
  BY <1>2, <1>3, H2InStepBy

\* if it is a whole block,
LEMMA H2InStepWhole ==
  ASSUME H2Shape, H2Pended, NEW c \in H2Conns, NEW t, H2Quiet(c, t), H2InStep(c, t),
         NEW n, n = h2Pos[c] + 1, n \in 1 .. Len(h2Traffic[c].frames),
         h2Traffic' = h2Traffic, h2Pos'[c] = n, h2Pending' = h2Pending,
         H2!Frame(<<c, n>>).type = "headers", H2Decodes(H2!Frame(<<c, n>>).dir, <<c, n>>)
  PROVE  H2InStep(c, t)'
<1>0. PICK side : side = H2!Frame(<<c, n>>).dir
  OBVIOUS
<1>1. ~H2Awaits(h2Pending, t, side) /\ side \in H2!Directions
  BY <1>0, H2NoneAwaited, H2FrameIs
<1>2. H2Synced(h2Table[side], h2Traffic[c].frames, side, n)
  BY <1>1, H2InStepIs
<1>3. /\ H2Synced(h2Table'[side], h2Traffic[c].frames, side, n + 1)
      /\ \A x \in H2!Directions : x # side => h2Table'[x] = h2Table[x]
  BY <1>0, <1>2, H2DecodesTo
<1>4. ASSUME NEW j \in DOMAIN h2Pending, j[1] = t
      PROVE  /\ \A i \in h2Pending[j][2] + 1 .. n : ~H2Closes(c, i, j[2])
             /\ H2Synced(h2Table'[H2!Frame(h2Pending[j]).dir], h2Traffic[c].frames,
                         H2!Frame(h2Pending[j]).dir, h2Pending[j][2])
  <2>1. ~H2Closes(c, n, j[2])
    BY DEF H2Closes
  <2>2. H2!Frame(h2Pending[j]).dir # side /\ H2!Frame(h2Pending[j]).dir \in H2!Directions
    BY <1>1, <1>4, H2PendingOwn DEF H2Awaits
  <2>3. h2Table'[H2!Frame(h2Pending[j]).dir] = h2Table[H2!Frame(h2Pending[j]).dir]
    BY <1>3, <2>2
  <2> QED
    BY <1>4, <2>1, <2>3, H2InStepIs
<1>5. ASSUME NEW d \in H2!Directions, ~H2Awaits(h2Pending, t, d)
      PROVE  H2Synced(h2Table'[d], h2Traffic[c].frames, d, n + 1)
  <2>1. CASE d = side
    BY <1>3, <2>1
  <2>2. CASE d # side
    <3>1. H2Synced(h2Table'[d], h2Traffic[c].frames, d, n)
      BY <1>3, <1>5, <2>2, H2InStepIs
    <3> QED
      BY <1>0, <2>2, <3>1, H2SyncedNext
  <2> QED
    BY <2>1, <2>2
<1> QED
  BY <1>4, <1>5, H2InStepBy

\* if it begins one,
LEMMA H2InStepBegun ==
  ASSUME H2Shape, H2Pended, NEW c \in H2Conns, NEW t, H2Quiet(c, t), H2InStep(c, t),
         NEW n, n = h2Pos[c] + 1, n \in 1 .. Len(h2Traffic[c].frames),
         h2Traffic' = h2Traffic, h2Pos'[c] = n, h2Table' = h2Table,
         NEW k, k = <<t, H2!Frame(<<c, n>>).sid>>, h2Pending' = H2!Put(h2Pending, k, <<c, n>>),
         H2!Frame(<<c, n>>).type = "headers"
  PROVE  H2InStep(c, t)'
<1>0. PICK side : side = H2!Frame(<<c, n>>).dir
  OBVIOUS
<1>1. ~H2Awaits(h2Pending, t, side) /\ side \in H2!Directions /\ k \notin DOMAIN h2Pending
  BY <1>0, H2NoneAwaited, H2FrameIs
<1>2. /\ DOMAIN h2Pending' = DOMAIN h2Pending \cup {k} /\ h2Pending'[k] = <<c, n>>
      /\ \A j \in DOMAIN h2Pending : h2Pending'[j] = h2Pending[j]
  BY <1>1 DEF H2!Put
<1>3. ASSUME NEW j \in DOMAIN h2Pending', j[1] = t
      PROVE  /\ \A i \in h2Pending'[j][2] + 1 .. n : ~H2Closes(c, i, j[2])
             /\ H2Synced(h2Table'[H2!Frame(h2Pending'[j]).dir], h2Traffic[c].frames,
                         H2!Frame(h2Pending'[j]).dir, h2Pending'[j][2])
  <2>1. CASE j = k
    <3>1. h2Pending'[j] = <<c, n>> /\ h2Pending'[j][2] = n
      BY <1>2, <2>1
    <3>2. H2Synced(h2Table[side], h2Traffic[c].frames, side, n)
      BY <1>1, H2InStepIs
    <3>3. \A i \in n + 1 .. n : FALSE
      OBVIOUS
    <3> QED
      BY <1>0, <3>1, <3>2, <3>3
  <2>2. CASE j \in DOMAIN h2Pending
    <3>1. ~H2Closes(c, n, j[2])
      BY DEF H2Closes
    <3>2. h2Pending'[j] = h2Pending[j]
      BY <1>2, <2>2
    <3> QED
      BY <1>3, <2>2, <3>1, <3>2, H2InStepIs
  <2> QED
    BY <1>2, <2>1, <2>2
<1>4. ASSUME NEW d \in H2!Directions, ~H2Awaits(h2Pending', t, d)
      PROVE  H2Synced(h2Table'[d], h2Traffic[c].frames, d, n + 1)
  <2>1. k[1] = t
    OBVIOUS
  <2>2. d # side /\ ~H2Awaits(h2Pending, t, d)
    BY <1>0, <1>2, <1>4, <2>1 DEF H2Awaits
  <2>3. H2Synced(h2Table[d], h2Traffic[c].frames, d, n)
    BY <2>2, H2InStepIs
  <2> QED
    BY <1>0, <2>2, <2>3, H2SyncedNext
<1> QED
  BY <1>3, <1>4, H2InStepBy

\* or if it ends one.
LEMMA H2InStepEnded ==
  ASSUME H2Shape, H2Pended, NEW c \in H2Conns, NEW t, H2Quiet(c, t), H2InStep(c, t),
         NEW n, n = h2Pos[c] + 1, n \in 1 .. Len(h2Traffic[c].frames),
         h2Traffic' = h2Traffic, h2Pos'[c] = n, H2!Frame(<<c, n>>).type = "continuation",
         NEW k \in DOMAIN h2Pending, k = <<t, H2!Frame(<<c, n>>).sid>>,
         h2Pending' = H2!Without(h2Pending, {k}),
         H2Decodes(H2!Frame(h2Pending[k]).dir, h2Pending[k])
  PROVE  H2InStep(c, t)'
<1>0. k[1] = t /\ h2Pos[c] \in Nat
  BY DEF H2Shape
<1>1. PICK b \in 1 .. Len(h2Traffic[c].frames) :
             /\ h2Pending[k] = <<c, b>> /\ h2Pending[k][2] = b /\ b <= h2Pos[c]
             /\ H2!Frame(<<c, b>>).type = "headers" /\ H2!Frame(<<c, b>>).dir \in H2!Directions
  BY <1>0, H2PendingOwn
<1>2. PICK side : side = H2!Frame(<<c, b>>).dir /\ side \in H2!Directions
  BY <1>1
<1>3. H2Synced(h2Table[side], h2Traffic[c].frames, side, b)
  BY <1>0, <1>1, <1>2, H2InStepIs
<1>4. /\ H2Synced(h2Table'[side], h2Traffic[c].frames, side, b + 1)
      /\ \A x \in H2!Directions : x # side => h2Table'[x] = h2Table[x]
  BY <1>1, <1>2, <1>3, H2DecodesTo
<1>5. H2Synced(h2Table'[side], h2Traffic[c].frames, side, n + 1)
  <2>1. /\ b + 1 \in Nat \ {0} /\ n + 1 \in Nat /\ b + 1 <= n + 1
        /\ \A q \in b + 1 .. (n + 1) - 1 : q \in 1 .. Len(h2Traffic[c].frames) /\ b < q /\ q <= h2Pos[c] + 1
    <3>1. h2Traffic[c].frames \in Seq(H2!Frames)
      BY H2Peers
    <3> QED
      BY <1>0, <1>1, <3>1
  <2>2. ASSUME NEW q \in b + 1 .. (n + 1) - 1
        PROVE  ~H2IsLiteral(h2Traffic[c].frames, side, q)
    <3>1. H2!Frame(<<c, q>>).type # "headers" \/ H2!Frame(<<c, q>>).dir # side
      BY <1>0, <1>1, <1>2, <2>1, H2BlockAlone
    <3>2. H2!Frame(<<c, q>>) = h2Traffic[c].frames[q]
      BY <2>1, H2HeaderIs
    <3> QED
      BY <3>1, <3>2 DEF H2IsLiteral
  <2> QED
    BY <1>4, <2>1, <2>2, H2SyncedSame
<1>6. /\ DOMAIN h2Pending' = DOMAIN h2Pending \ {k}
      /\ \A j \in DOMAIN h2Pending' : h2Pending'[j] = h2Pending[j]
  BY DEF H2!Without
<1>7. ASSUME NEW j \in DOMAIN h2Pending', j[1] = t
      PROVE  /\ \A i \in h2Pending'[j][2] + 1 .. n : ~H2Closes(c, i, j[2])
             /\ H2Synced(h2Table'[H2!Frame(h2Pending'[j]).dir], h2Traffic[c].frames,
                         H2!Frame(h2Pending'[j]).dir, h2Pending'[j][2])
  <2>1. j \in DOMAIN h2Pending /\ j # k /\ h2Pending'[j] = h2Pending[j]
    BY <1>6
  <2>2. H2!Frame(h2Pending[j]).dir # side /\ H2!Frame(h2Pending[j]).dir \in H2!Directions
        /\ j = <<t, j[2]>>
    <3>1. H2!Frame(h2Pending[j]).dir # H2!Frame(h2Pending[k]).dir
      BY <1>0, <1>7, <2>1, H2OneAwaited
    <3>2. PICK a \in 1 .. Len(h2Traffic[c].frames) :
                   /\ h2Pending[j] = <<c, a>> /\ H2!Frame(<<c, a>>).dir \in H2!Directions
                   /\ j = <<t, H2!Frame(<<c, a>>).sid>>
      <4>1. \E a \in 1 .. Len(h2Traffic[c].frames) :
              /\ h2Pending[j] = <<c, a>> /\ h2Pending[j][2] = a /\ a <= h2Pos[c]
              /\ H2!Frame(<<c, a>>).type = "headers" /\ ~H2!Frame(<<c, a>>).endHeaders
              /\ j = <<t, H2!Frame(<<c, a>>).sid>> /\ H2!Frame(<<c, a>>).dir \in H2!Directions
        <5>1. j \in DOMAIN h2Pending /\ j[1] = t
          BY <1>7, <2>1
        <5> QED
          BY <5>1, H2PendingOwn
      <4> QED
        BY <4>1
    <3> QED
      BY <1>1, <1>2, <3>1, <3>2
  <2>3. h2Table'[H2!Frame(h2Pending[j]).dir] = h2Table[H2!Frame(h2Pending[j]).dir]
    BY <1>4, <2>2
  <2>4. ~H2Closes(c, n, j[2])
    BY <2>1, <2>2 DEF H2Closes
  <2> QED
    BY <1>7, <2>1, <2>3, <2>4, H2InStepIs
<1>8. ASSUME NEW d \in H2!Directions, ~H2Awaits(h2Pending', t, d)
      PROVE  H2Synced(h2Table'[d], h2Traffic[c].frames, d, n + 1)
  <2>1. CASE d = side
    BY <1>5, <2>1
  <2>2. CASE d # side
    <3>1. ~H2Awaits(h2Pending, t, d)
      <4>1. H2!Frame(h2Pending[k]).dir # d
        BY <1>1, <1>2, <2>2
      <4>2. ASSUME NEW j \in DOMAIN h2Pending, j[1] = t, j # k
            PROVE  H2!Frame(h2Pending[j]).dir # d
        BY <1>6, <1>8, <4>2 DEF H2Awaits
      <4> QED
        BY <4>1, <4>2 DEF H2Awaits
    <3>2. H2Synced(h2Table'[d], h2Traffic[c].frames, d, n)
      BY <1>4, <2>2, <3>1, H2InStepIs
    <3> QED
      BY <3>2, H2SyncedNext
  <2> QED
    BY <2>1, <2>2
<1> QED
  BY <1>7, <1>8, H2InStepBy

LEMMA H2InStepKeeps ==
  ASSUME H2Shape, H2Pended, NEW c \in H2Conns, NEW t, H2!Receive(c, t), H2Quiet(c, t),
         H2InStep(c, t), h2Dropped'.blocks = {}
  PROVE  H2InStep(c, t)'
<1>1. PICK n : n = h2Pos[c] + 1
  OBVIOUS
<1> DEFINE f == <<c, n>>
<1>2. /\ n \in 1 .. Len(h2Traffic[c].frames) /\ h2Traffic' = h2Traffic /\ h2Pos'[c] = n
  BY <1>1, H2ReceiveIs DEF H2Shape
<1>3. PICK k : k = H2!Key(t, f) /\ k = <<t, H2!Frame(f).sid>>
  BY DEF H2!Key
<1>4. CASE /\ h2Pending' = h2Pending /\ h2Table' = h2Table /\ H2!Frame(f).type # "headers"
           /\ H2!Frame(f).type = "continuation" /\ H2!Frame(f).endHeaders => k \notin DOMAIN h2Pending
  BY <1>1, <1>2, <1>3, <1>4, H2InStepPast
<1>5. CASE /\ H2!Frame(f).type = "headers" /\ H2!Frame(f).endHeaders
           /\ h2Pending' = h2Pending /\ H2Decodes(H2!Frame(f).dir, f)
  BY <1>1, <1>2, <1>5, H2InStepWhole
<1>6. CASE /\ H2!Frame(f).type = "headers" /\ ~H2!Frame(f).endHeaders /\ h2Table' = h2Table
           /\ \E ks : /\ h2Pending' = H2!Without(H2!Put(h2Pending, k, f), ks)
                      /\ ks \subseteq DOMAIN H2!Put(h2Pending, k, f)
                      /\ {H2!Put(h2Pending, k, f)[j][1] : j \in ks} \subseteq h2Dropped'.blocks
  <2>1. PICK ks : /\ h2Pending' = H2!Without(H2!Put(h2Pending, k, f), ks)
                  /\ ks \subseteq DOMAIN H2!Put(h2Pending, k, f)
                  /\ {H2!Put(h2Pending, k, f)[j][1] : j \in ks} \subseteq {}
    BY <1>6
  <2>2. ks = {}
    BY <2>1
  <2>3. h2Pending' = H2!Put(h2Pending, k, f)
    BY <2>1, <2>2 DEF H2!Without, H2!Put
  <2> QED
    BY <1>1, <1>2, <1>3, <1>6, <2>3, H2InStepBegun
<1>7. CASE /\ H2!Frame(f).type = "continuation" /\ H2!Frame(f).endHeaders /\ k \in DOMAIN h2Pending
           /\ h2Pending' = H2!Without(h2Pending, {k})
           /\ H2Decodes(H2!Frame(h2Pending[k]).dir, h2Pending[k])
  BY <1>1, <1>2, <1>3, <1>7, H2InStepEnded
<1> QED
  BY <1>1, <1>3, <1>4, <1>5, <1>6, <1>7, H2BlocksAre

\* If no block is evicted, those of other threads stay pending,
LEMMA H2PendingOthers ==
  ASSUME H2Shape, NEW c \in H2Conns, NEW t, H2!Receive(c, t), h2Dropped'.blocks = {},
         NEW j, j[1] # t
  PROVE  /\ j \in DOMAIN h2Pending' <=> j \in DOMAIN h2Pending
         /\ j \in DOMAIN h2Pending => h2Pending'[j] = h2Pending[j]
<1>1. PICK f, k : f = <<c, h2Pos[c] + 1>> /\ k = H2!Key(t, f)
  OBVIOUS
<1>2. j # k
  BY <1>1 DEF H2!Key
<1>3. CASE h2Pending' = h2Pending
  BY <1>3
<1>4. CASE \E ks : /\ h2Pending' = H2!Without(H2!Put(h2Pending, k, f), ks)
                   /\ ks \subseteq DOMAIN H2!Put(h2Pending, k, f)
                   /\ {H2!Put(h2Pending, k, f)[i][1] : i \in ks} \subseteq h2Dropped'.blocks
  <2>1. PICK ks : /\ h2Pending' = H2!Without(H2!Put(h2Pending, k, f), ks)
                  /\ {H2!Put(h2Pending, k, f)[i][1] : i \in ks} \subseteq {}
    BY <1>4
  <2>2. ks = {}
    BY <2>1
  <2>3. h2Pending' = H2!Put(h2Pending, k, f)
    BY <2>1, <2>2 DEF H2!Without, H2!Put
  <2> QED
    BY <1>2, <2>3 DEF H2!Put
<1>5. CASE h2Pending' = H2!Without(h2Pending, {k})
  BY <1>2, <1>5 DEF H2!Without
<1> QED
  BY <1>1, <1>3, <1>4, <1>5, H2BlocksAre

\* and a record of another connection leaves the decoders, which are this one's.
LEMMA H2TableOthers ==
  ASSUME H2Shape, H2Pended, NEW c \in H2Conns, NEW t, H2!Receive(c, t),
         NEW e \in H2Conns \ {c}, t \notin h2Ran[e], H2!Synchronous(e)'
  PROVE  h2Table' = h2Table
<1>1. SUFFICES ASSUME h2Table' # h2Table
               PROVE  FALSE
  OBVIOUS
<1>2. PICK x \in H2Conns : \E n \in 1 .. Len(h2Traffic[x].frames) :
             /\ H2Decodes(H2!Frame(<<x, n>>).dir, <<x, n>>)
             /\ x = c \/ t \in h2Ran[x]
  BY <1>1, H2DecodedIs
<1>3. \E d \in H2!Directions : \E j \in DOMAIN h2Table'[d] : h2Table'[d][j].conn = x
  BY <1>1, <1>2, H2TableGrows
<1>4. x = e
  BY <1>3 DEF H2!Synchronous
<1> QED
  BY <1>2, <1>4

LEMMA H2OthersInStep ==
  ASSUME H2Shape, H2Pended, NEW c \in H2Conns, NEW t, H2!Receive(c, t),
         NEW e \in H2Conns \ {c}, NEW u, u # t, H2Quiet(e, u), H2InStep(e, u),
         H2!Synchronous(e)'
  PROVE  H2InStep(e, u)'
<1>1. h2Dropped'.blocks = {} /\ h2Table' = h2Table
  <2>1. t \notin h2Ran[e]
    BY DEF H2Quiet
  <2> QED
    BY <2>1, H2TableOthers DEF H2!Synchronous
<1>2. \A j : j[1] = u => /\ j \in DOMAIN h2Pending' <=> j \in DOMAIN h2Pending
                         /\ j \in DOMAIN h2Pending => h2Pending'[j] = h2Pending[j]
  BY <1>1, H2PendingOthers
<1>3. h2Traffic' = h2Traffic /\ h2Pos'[e] = h2Pos[e]
  BY H2ReceiveIs DEF H2Shape
<1>4. \A j \in DOMAIN h2Pending' : j[1] = u =>
        /\ \A i \in h2Pending'[j][2] + 1 .. h2Pos[e] : ~H2Closes(e, i, j[2])
        /\ H2Synced(h2Table'[H2!Frame(h2Pending'[j]).dir], h2Traffic[e].frames,
                    H2!Frame(h2Pending'[j]).dir, h2Pending'[j][2])
  BY <1>1, <1>2 DEF H2InStep
<1>5. ASSUME NEW d \in H2!Directions, ~H2Awaits(h2Pending', u, d)
      PROVE  H2Synced(h2Table'[d], h2Traffic[e].frames, d, h2Pos[e] + 1)
  BY <1>1, <1>2, <1>5 DEF H2InStep, H2Awaits
<1> QED
  BY <1>3, <1>4, <1>5, H2InStepBy

LEMMA H2ReceiveHeard ==
  ASSUME H2Heard, NEW c \in H2Conns, NEW t \in H2Threads, H2!Receive(c, t)
  PROVE  H2Pended' /\ H2Decoding'
<1>1. H2Pended'
  BY H2PendedKeeps DEF H2Heard
<1>2. ASSUME NEW e \in H2Conns, NEW u \in H2Threads, H2Quiet(e, u)', H2!Synchronous(e)'
      PROVE  H2InStep(e, u)'
  <2>1. H2Quiet(e, u) /\ (u = t <=> e = c)
    BY <1>2, H2QuietBefore DEF H2Heard
  <2>2. H2!Synchronous(e)
    BY <1>2, H2SynchronousBefore DEF H2Heard
  <2>3. H2InStep(e, u)
    BY <2>1, <2>2 DEF H2Heard, H2Decoding
  <2>4. h2Dropped'.blocks = {}
    BY <1>2 DEF H2!Synchronous
  <2>5. CASE e = c
    <3>1. u = t /\ H2Quiet(c, t) /\ H2InStep(c, t)
      BY <2>1, <2>3, <2>5
    <3>2. H2InStep(c, t)'
      BY <2>4, <3>1, H2InStepKeeps DEF H2Heard
    <3> QED
      BY <2>5, <3>1, <3>2
  <2>6. CASE e # c
    BY <1>2, <2>1, <2>3, <2>6, H2OthersInStep DEF H2Heard
  <2> QED
    BY <2>5, <2>6
<1> QED
  BY <1>1, <1>2 DEF H2Decoding

\* After a loss no connection counts as in step.
LEMMA H2LoseHeard ==
  ASSUME H2Heard, NEW c \in H2Conns, H2!Lose(c)
  PROVE  H2Pended' /\ H2Decoding'
<1>1. /\ h2Pos' = [h2Pos EXCEPT ![c] = h2Pos[c] + 1]
      /\ h2Dropped' = [h2Dropped EXCEPT !.conns = @ \cup {c}]
      /\ UNCHANGED <<h2Traffic, h2Table, h2Pending, h2Ran>>
  BY DEF H2!Lose
<1>2. h2Dropped' = [conns |-> h2Dropped.conns \cup {c}, keys |-> h2Dropped.keys,
                    blocks |-> h2Dropped.blocks]
  BY <1>1 DEF H2Heard, H2Shape
<1>3. \A e : ~H2!Synchronous(e)'
  <2>1. h2Dropped'.conns # {}
    BY <1>2
  <2> QED
    BY <2>1 DEF H2!Synchronous
<1>4. \A f : H2!Frame(f)' = H2!Frame(f)
  BY <1>1 DEF H2!Frame
<1>5. ASSUME NEW k \in DOMAIN h2Pending
      PROVE  h2Pending[k][2] <= h2Pos'[h2Pending[k][1]]
  <2>1. PICK h : h = h2Pending[k]
    OBVIOUS
  <2>2. h[1] \in H2Conns /\ h[2] \in 1 .. Len(h2Traffic[h[1]].frames) /\ h[2] <= h2Pos[h[1]]
    BY <2>1 DEF H2Heard, H2Shape, H2Pended
  <2>3. h2Pos[h[1]] \in Nat /\ h2Pos'[h[1]] \in {h2Pos[h[1]], h2Pos[h[1]] + 1}
    BY <1>1, <2>2 DEF H2Heard, H2Shape
  <2> QED
    BY <2>1, <2>2, <2>3
<1>6. H2Pended'
  <2>1. \A k \in DOMAIN h2Pending :
          /\ k[1] \in h2Ran[h2Pending[k][1]] /\ k = <<k[1], H2!Frame(h2Pending[k]).sid>>
          /\ h2Pending[k] = <<h2Pending[k][1], h2Pending[k][2]>>
          /\ H2!Frame(h2Pending[k]).type = "headers" /\ ~H2!Frame(h2Pending[k]).endHeaders
    BY DEF H2Heard, H2Pended
  <2>2. \A k \in DOMAIN h2Pending' : H2!Frame(h2Pending[k])' = H2!Frame(h2Pending[k])
    BY <1>1 DEF H2!Frame
  <2>3. h2Table' \in [H2!Directions -> Seq([value : H2Values, conn : H2Conns])]
    BY <1>1 DEF H2Heard, H2Pended
  <2>4. \A k \in DOMAIN h2Pending' :
          /\ k[1] \in h2Ran'[h2Pending'[k][1]] /\ k = <<k[1], H2!Frame(h2Pending[k])'.sid>>
          /\ h2Pending'[k][2] <= h2Pos'[h2Pending'[k][1]]
          /\ h2Pending'[k] = <<h2Pending'[k][1], h2Pending'[k][2]>>
          /\ H2!Frame(h2Pending[k])'.type = "headers" /\ ~H2!Frame(h2Pending[k])'.endHeaders
    <3> TAKE k \in DOMAIN h2Pending'
    <3>1. k \in DOMAIN h2Pending /\ h2Pending'[k] = h2Pending[k] /\ h2Ran' = h2Ran
      BY <1>1
    <3>2. H2!Frame(h2Pending[k])' = H2!Frame(h2Pending[k])
      BY <2>2
    <3> QED
      BY <1>5, <2>1, <3>1, <3>2
  <2> QED
    BY <2>3, <2>4 DEF H2Pended
<1> QED
  BY <1>3, <1>6 DEF H2Decoding

LEMMA H2InitHeard == H2!Init => H2Pended /\ H2Decoding
<1> SUFFICES ASSUME H2!Init
             PROVE  H2Pended /\ H2Decoding
  OBVIOUS
<1>1. /\ DOMAIN h2Pending = {} /\ h2Table = [d \in H2!Directions |-> << >>]
      /\ \A c \in H2Conns : h2Pos[c] = 0
  BY DEF H2!Init
<1>2. H2Pended
  BY <1>1 DEF H2Pended
<1>3. ASSUME NEW frames, NEW d, NEW list
      PROVE  H2Synced(list, frames, d, 1)
  <2>1. H2!Literals(frames, d, 1, 1) = {}
    BY LiteralsCounted
  <2> QED
    BY <2>1 DEF H2Synced
<1>4. H2Decoding
  BY <1>1, <1>3 DEF H2Decoding, H2InStep
<1> QED
  BY <1>2, <1>4

LEMMA H2StillHeard ==
  ASSUME H2Heard, UNCHANGED h2Vars
  PROVE  H2Pended' /\ H2Decoding'
<1>1. /\ UNCHANGED <<h2Traffic, h2Pos, h2Table, h2Pending, h2Ran>> /\ h2Dropped' = h2Dropped
  BY DEF h2Vars
<1>2. H2Pended'
  BY <1>1 DEF H2Heard, H2Pended, H2!Frame
<1>3. ASSUME NEW c \in H2Conns, NEW t \in H2Threads, H2Quiet(c, t)', H2!Synchronous(c)'
      PROVE  H2InStep(c, t)'
  <2>1. H2Quiet(c, t) /\ H2!Synchronous(c)
    BY <1>1, <1>3 DEF H2Quiet, H2!Synchronous
  <2>2. H2InStep(c, t)
    BY <2>1 DEF H2Heard, H2Decoding
  <2> QED
    BY <1>1, <2>2 DEF H2InStep, H2Closes, H2!Frame
<1> QED
  BY <1>2, <1>3 DEF H2Decoding

-----------------------------------------------------------------------------
\* A header that has been sent on a side of a stream
H2Carried(c, sid, d, value) ==
  \E i \in 1 .. h2Pos[c] :
    /\ H2!Frame(<<c, i>>).type = "headers" /\ H2!Frame(<<c, i>>).sid = sid
    /\ H2!Frame(<<c, i>>).dir = d /\ H2!Frame(<<c, i>>).value = value

\* What a connection's keys and messages have of headers was sent there.
H2HeaderAt(c, t) ==
  /\ \A sid \in Nat, d \in H2!Directions :
       \A value \in H2Entry(h2Streams, <<t, sid>>).hdr[d] : H2Carried(c, sid, d, value)
  /\ \A i \in 1 .. Len(h2Messages) : h2Messages[i].by[1] = c /\ h2Messages[i].key[1] = t =>
       \A value \in h2Messages[i].hdr :
         H2Carried(c, h2Messages[i].key[2], h2Messages[i].dir, value)

H2Headed ==
  \A c \in H2Conns, t \in H2Threads : H2Quiet(c, t) /\ H2!Synchronous(c) => H2HeaderAt(c, t)

LEMMA H2CarriedStays ==
  ASSUME H2Shape, NEW c \in H2Conns, h2Traffic' = h2Traffic, h2Pos'[c] \in Nat,
         h2Pos[c] <= h2Pos'[c], NEW sid, NEW d, NEW value, H2Carried(c, sid, d, value)
  PROVE  H2Carried(c, sid, d, value)'
<1>1. PICK i \in 1 .. h2Pos[c] :
             /\ H2!Frame(<<c, i>>).type = "headers" /\ H2!Frame(<<c, i>>).sid = sid
             /\ H2!Frame(<<c, i>>).dir = d /\ H2!Frame(<<c, i>>).value = value
  BY DEF H2Carried
<1>2. h2Pos[c] \in Nat
  BY DEF H2Shape
<1>3. i \in 1 .. h2Pos'[c]
  BY <1>2
<1>4. H2!Frame(<<c, i>>)' = H2!Frame(<<c, i>>)
  BY DEF H2!Frame
<1> QED
  BY <1>1, <1>3, <1>4 DEF H2Carried

\* A connection in step understands the block that its next record is, or ends.
LEMMA H2Decoded ==
  ASSUME H2Shape, H2Pended, NEW c \in H2Conns, NEW t, H2Quiet(c, t), H2InStep(c, t),
         NEW n, n = h2Pos[c] + 1, n \in 1 .. Len(h2Traffic[c].frames),
         NEW d, NEW h, H2BlockOf(t, <<c, n>>, d, h)
  PROVE  /\ H2!Decodes(d, h) /\ d \in H2!Directions
         /\ \E i \in 1 .. n : /\ H2!Frame(<<c, i>>).type = "headers"
                              /\ H2!Frame(<<c, i>>).sid = H2!Frame(<<c, n>>).sid
                              /\ H2!Frame(<<c, i>>).dir = d
                              /\ H2!Frame(<<c, i>>).value = H2!Decoded(d, h)
<1> DEFINE k == <<t, H2!Frame(<<c, n>>).sid>>
<1>1. k = H2!Key(t, <<c, n>>) /\ k[1] = t
  BY DEF H2!Key
<1>2. h2Pos[c] \in Nat
  BY DEF H2Shape
<1>3. PICK i \in 1 .. n :
             /\ h = <<c, i>> /\ i \in 1 .. Len(h2Traffic[c].frames)
             /\ H2!Frame(<<c, i>>).type = "headers" /\ H2!Frame(<<c, i>>).dir = d
             /\ H2!Frame(<<c, i>>).sid = H2!Frame(<<c, n>>).sid
             /\ d \in H2!Directions /\ H2Synced(h2Table[d], h2Traffic[c].frames, d, i)
  <2>1. CASE h = <<c, n>> /\ d = H2!Frame(<<c, n>>).dir /\ H2!Frame(<<c, n>>).type = "headers"
    <3>1. ~H2Awaits(h2Pending, t, d) /\ d \in H2!Directions
      BY <2>1, H2NoneAwaited, H2FrameIs
    <3>2. H2Synced(h2Table[d], h2Traffic[c].frames, d, n)
      BY <3>1, H2InStepIs
    <3> QED
      BY <2>1, <3>1, <3>2
  <2>2. CASE k \in DOMAIN h2Pending /\ h = h2Pending[k] /\ d = H2!Frame(h).dir
    <3>1. PICK b \in 1 .. Len(h2Traffic[c].frames) :
                 /\ h2Pending[k] = <<c, b>> /\ h2Pending[k][2] = b /\ b <= h2Pos[c]
                 /\ H2!Frame(<<c, b>>).type = "headers"
                 /\ k = <<t, H2!Frame(<<c, b>>).sid>> /\ H2!Frame(<<c, b>>).dir \in H2!Directions
      <4>1. \A j \in DOMAIN h2Pending : j[1] = t =>
              \E b \in 1 .. Len(h2Traffic[c].frames) :
                /\ h2Pending[j] = <<c, b>> /\ h2Pending[j][2] = b /\ b <= h2Pos[c]
                /\ H2!Frame(<<c, b>>).type = "headers"
                /\ j = <<t, H2!Frame(<<c, b>>).sid>> /\ H2!Frame(<<c, b>>).dir \in H2!Directions
        BY H2PendingOwn
      <4> HIDE DEF k
      <4> QED
        BY <1>1, <2>2, <4>1
    <3>2. H2Synced(h2Table[d], h2Traffic[c].frames, d, b)
      BY <1>1, <2>2, <3>1, H2InStepIs
    <3>3. b \in 1 .. n /\ H2!Frame(<<c, b>>).sid = H2!Frame(<<c, n>>).sid
      BY <1>1, <1>2, <3>1
    <3> QED
      BY <2>2, <3>1, <3>2, <3>3
  <2> QED
    BY <1>1, <2>1, <2>2 DEF H2BlockOf
<1>4. H2!Frame(h) = h2Traffic[c].frames[i] /\ H2!Frame(h).index \in Nat /\ i \in DOMAIN h2Traffic[c].frames
  BY <1>3, H2HeaderIs
<1>5. Len(h2Table[d]) \in Nat
  BY <1>3 DEF H2Pended
<1>6. H2!Decodes(d, h) /\ H2!Decoded(d, h) = H2!Frame(h).value
  <2>1. CASE H2!Frame(h).index = 0
    BY <1>5, <2>1 DEF H2!Decodes, H2!Decoded, H2!Decoder
  <2>2. CASE H2!Frame(h).index # 0
    <3>1. H2!Encoded(h2Traffic[c].frames)
      BY H2Peers
    <3>3. /\ h2Traffic[c].frames[i].type = "headers" /\ h2Traffic[c].frames[i].index # 0
          /\ h2Traffic[c].frames[i].dir = d
      BY <1>3, <1>4, <2>2
    <3>2. H2!Frame(h).index \in 1 .. Len(h2Table[d])
          /\ h2Table[d][H2!Frame(h).index].value = H2!Frame(h).value
      <4>1. H2Synced(h2Table[d], h2Traffic[c].frames, h2Traffic[c].frames[i].dir, i)
        BY <1>3, <3>3
      <4>2. /\ h2Traffic[c].frames[i].index \in 1 .. Len(h2Table[d])
            /\ h2Table[d][h2Traffic[c].frames[i].index].value = h2Traffic[c].frames[i].value
        <5>1. PICK frames, list : frames = h2Traffic[c].frames /\ list = h2Table[d]
          OBVIOUS
        <5>2. /\ i \in DOMAIN frames /\ H2!Encoded(frames) /\ frames[i].type = "headers"
              /\ frames[i].index # 0 /\ H2Synced(list, frames, frames[i].dir, i)
          BY <1>4, <3>1, <3>3, <4>1, <5>1
        <5>3. /\ frames[i].index \in 1 .. Len(list)
              /\ list[frames[i].index].value = frames[i].value
          BY <5>2, H2Understood, SMTT(20)
        <5> QED
          BY <5>1, <5>3
      <4> QED
        BY <1>4, <4>2
    <3> QED
      BY <2>2, <3>2 DEF H2!Decodes, H2!Decoded, H2!Decoder
  <2> QED
    BY <2>1, <2>2
<1> QED
  BY <1>3, <1>6

\* The headers that a record of the connection itself leaves its key with
LEMMA H2HeadersOf ==
  ASSUME H2Shape, H2Pended, NEW c \in H2Conns, NEW t \in H2Threads, H2Quiet(c, t), H2InStep(c, t),
         H2HeaderAt(c, t), NEW n, n = h2Pos[c] + 1, n \in 1 .. Len(h2Traffic[c].frames),
         h2Traffic' = h2Traffic, h2Pos'[c] = n,
         NEW state, NEW d, NEW ends, H2Handled(c, t, <<c, n>>, state, d, ends),
         NEW sid, sid = H2!Frame(<<c, n>>).sid,
         NEW side \in H2!Directions, NEW value \in state.hdr[side]
  PROVE  H2Carried(c, sid, side, value)'
<1>1. sid \in Nat
  BY H2FrameIs
<1>2. PICK old : old = H2Entry(h2Streams, <<t, sid>>).hdr /\ DOMAIN old = H2!Directions
  BY H2EntryIs DEF H2State
<1>3. h2Pos[c] \in Nat
  BY DEF H2Shape
<1>4. CASE value \in old[side]
  <2>1. H2Carried(c, sid, side, value)
    BY <1>1, <1>2, <1>4 DEF H2HeaderAt
  <2>2. h2Pos'[c] \in Nat /\ h2Pos[c] <= h2Pos'[c]
    BY <1>3
  <2> QED
    BY <2>1, <2>2, H2CarriedStays
<1>5. CASE value \notin old[side]
  <2>1. H2HasHeaders(t, <<c, n>>, state, d) /\ H2!Key(t, <<c, n>>) = <<t, sid>>
    BY DEF H2Handled, H2!Key
  <2>2. PICK h : /\ H2BlockOf(t, <<c, n>>, d, h)
                 /\ state.hdr = [old EXCEPT ![d] = old[d] \cup {H2!Decoded(d, h)}]
    BY <1>2, <1>5, <2>1 DEF H2HasHeaders
  <2>3. PICK i \in 1 .. n : /\ H2!Frame(<<c, i>>).type = "headers"
                            /\ H2!Frame(<<c, i>>).sid = H2!Frame(<<c, n>>).sid
                            /\ H2!Frame(<<c, i>>).dir = d
                            /\ H2!Frame(<<c, i>>).value = H2!Decoded(d, h)
    BY <2>2, H2Decoded
  <2>4. side = d /\ value = H2!Decoded(d, h)
    BY <1>2, <1>5, <2>2
  <2>5. H2!Frame(<<c, i>>)' = H2!Frame(<<c, i>>) /\ H2!Frame(<<c, n>>)' = H2!Frame(<<c, n>>)
    BY DEF H2!Frame
  <2> QED
    BY <2>3, <2>4, <2>5 DEF H2Carried
<1> QED
  BY <1>4, <1>5

\* Headers of the record's own connection
LEMMA H2OwnHeaded ==
  ASSUME H2Kept, H2Pended, NEW c \in H2Conns, NEW t \in H2Threads, H2!Receive(c, t),
         H2Quiet(c, t), H2Quiet(c, t)', H2InStep(c, t), H2HeaderAt(c, t)
  PROVE  H2HeaderAt(c, t)'
<1>1. PICK n, k : n = h2Pos[c] + 1 /\ k = H2!Key(t, <<c, n>>)
  OBVIOUS
<1> DEFINE f == <<c, n>>
<1>2. /\ n \in 1 .. Len(h2Traffic[c].frames) /\ h2Traffic' = h2Traffic /\ h2Pos'[c] = n
      /\ H2Ignored(f) \/ \E state, d, ends : H2Handled(c, t, f, state, d, ends)
  BY <1>1, H2ReceiveIs DEF H2Kept, H2Shape
<1>3. /\ h2Pos[c] \in Nat /\ h2Pos'[c] \in Nat /\ h2Pos[c] <= h2Pos'[c]
  BY <1>1, <1>2 DEF H2Kept, H2Shape
<1>4. \A sid, d, value : H2Carried(c, sid, d, value) => H2Carried(c, sid, d, value)'
  BY <1>2, <1>3, H2CarriedStays DEF H2Kept
<1>5. H2!Frame(f).sid \in Nat /\ k = <<t, H2!Frame(f).sid>>
  BY <1>1, <1>2, H2FrameIs DEF H2Kept, H2!Key
<1>6. ASSUME NEW state, NEW d, NEW ends, H2Handled(c, t, f, state, d, ends),
             NEW side \in H2!Directions, NEW value \in state.hdr[side]
      PROVE  H2Carried(c, H2!Frame(f).sid, side, value)'
  <2>1. PICK sid : sid = H2!Frame(f).sid
    OBVIOUS
  <2>2. H2Carried(c, sid, side, value)'
    BY <1>1, <1>2, <1>6, <2>1, H2HeadersOf DEF H2Kept
  <2>3. H2!Frame(f)' = H2!Frame(f)
    BY <1>2 DEF H2!Frame
  <2> QED
    BY <2>1, <2>2, <2>3
<1> HIDE DEF f
<1>7. ASSUME NEW sid \in Nat, NEW d \in H2!Directions,
             NEW value \in H2Entry(h2Streams', <<t, sid>>).hdr[d]
      PROVE  H2Carried(c, sid, d, value)'
  <2>1. CASE value \in H2Entry(h2Streams, <<t, sid>>).hdr[d]
    BY <1>4, <2>1 DEF H2HeaderAt
  <2>2. CASE H2Ignored(f)
    <3>1. h2Streams' = h2Streams
      BY <2>2 DEF H2Ignored
    <3> QED
      BY <1>7, <2>1, <3>1
  <2>3. ASSUME NEW state, NEW side, NEW ends, H2Handled(c, t, f, state, side, ends),
               value \notin H2Entry(h2Streams, <<t, sid>>).hdr[d]
        PROVE  H2Carried(c, sid, d, value)'
    <3> DEFINE after == H2After(state, side, ends)
    <3>1. H2!Finish(k, state, side, f, ends)
      BY <1>1, <2>3 DEF H2Handled, f
    <3>2. <<t, sid>> \notin h2Dropped'.keys
      BY DEF H2Quiet
    <3>3. H2Entry(h2Streams', <<t, sid>>)
            = IF <<t, sid>> # k THEN H2Entry(h2Streams, <<t, sid>>)
              ELSE IF after.emitted = H2!Directions THEN H2!Empty ELSE after
      BY <3>1, <3>2, H2FinishIs DEF H2Kept
    <3>4. after.hdr = state.hdr
      BY <2>3, H2HandledIs DEF H2Kept
    <3> HIDE DEF after
    <3>5. <<t, sid>> = k /\ value \in state.hdr[d]
      BY <1>7, <2>3, <3>3, <3>4, H2EmptyIs
    <3>6. sid = H2!Frame(f).sid
      BY <1>5, <3>5
    <3>7. H2!Frame(f)' = H2!Frame(f)
      BY <1>2 DEF H2!Frame
    <3>8. H2Carried(c, H2!Frame(f).sid, d, value)'
      BY <1>6, <2>3, <3>5 DEF f
    <3> QED
      BY <3>6, <3>7, <3>8
  <2> QED
    BY <1>2, <2>1, <2>2, <2>3
<1>8. ASSUME NEW i \in 1 .. Len(h2Messages'), h2Messages'[i].by[1] = c, h2Messages'[i].key[1] = t,
             NEW value \in h2Messages'[i].hdr
      PROVE  H2Carried(c, h2Messages[i].key[2], h2Messages[i].dir, value)'
  <2>1. CASE i \in 1 .. Len(h2Messages)
    <3>1. h2Messages'[i] = h2Messages[i]
      BY <2>1, H2MessagesAfter, H2SaidGrows DEF H2Kept
    <3>2. PICK sid, d : sid = h2Messages[i].key[2] /\ d = h2Messages[i].dir
      OBVIOUS
    <3>3. H2Carried(c, sid, d, value)
      BY <1>8, <2>1, <3>1, <3>2 DEF H2HeaderAt
    <3>4. H2Carried(c, sid, d, value)'
      BY <1>4, <3>3
    <3>5. sid = h2Messages'[i].key[2] /\ d = h2Messages'[i].dir
      BY <3>1, <3>2
    <3> QED
      BY <3>4, <3>5
  <2>2. CASE i \notin 1 .. Len(h2Messages)
    <3>1. PICK state, d, ends :
                 /\ H2Handled(c, t, f, state, d, ends)
                 /\ h2Messages'[i] = H2Message(k, state, d, f)
      BY <1>1, <2>2, H2MessagesAfter DEF f
    <3>2. /\ h2Messages'[i].key = k /\ h2Messages'[i].dir = d /\ h2Messages'[i].hdr = state.hdr[d]
      BY <3>1 DEF H2Message
    <3>3. d \in H2!Directions /\ value \in state.hdr[d]
      BY <1>8, <3>1, <3>2 DEF H2Handled
    <3>4. H2Carried(c, H2!Frame(f).sid, d, value)'
      BY <1>6, <3>1, <3>3
    <3>5. H2!Frame(f)' = H2!Frame(f)
      BY <1>2 DEF H2!Frame
    <3>6. h2Messages'[i].key[2] = H2!Frame(f).sid /\ h2Messages'[i].dir = d
      BY <1>5, <3>2
    <3> QED
      BY <3>4, <3>5, <3>6
  <2> QED
    BY <2>1, <2>2
<1> QED
  BY <1>7, <1>8 DEF H2HeaderAt

\* and of the others, whose keys and messages are as they were
LEMMA H2OthersHeaded ==
  ASSUME H2Kept, NEW c \in H2Conns, NEW t \in H2Threads, H2!Receive(c, t),
         NEW e \in H2Conns \ {c}, NEW u \in H2Threads, u # t, H2Quiet(e, u)', H2HeaderAt(e, u)
  PROVE  H2HeaderAt(e, u)'
<1>1. PICK f, k : f = <<c, h2Pos[c] + 1>> /\ k = H2!Key(t, f)
  OBVIOUS
<1>2. /\ h2Traffic' = h2Traffic /\ h2Pos'[e] = h2Pos[e]
      /\ H2Ignored(f) \/ \E state, d, ends : H2Handled(c, t, f, state, d, ends)
  BY <1>1, H2ReceiveIs DEF H2Kept, H2Shape
<1>3. h2Pos[e] \in Nat
  BY DEF H2Kept, H2Shape
<1>4. \A sid, d, value : H2Carried(e, sid, d, value) => H2Carried(e, sid, d, value)'
  BY <1>2, <1>3, H2CarriedStays DEF H2Kept
<1>5. \A sid : H2Entry(h2Streams', <<u, sid>>) = H2Entry(h2Streams, <<u, sid>>)
  <2>1. CASE H2Ignored(f)
    BY <2>1 DEF H2Ignored
  <2>2. ASSUME NEW state, NEW d, NEW ends, H2Handled(c, t, f, state, d, ends), NEW sid
        PROVE  H2Entry(h2Streams', <<u, sid>>) = H2Entry(h2Streams, <<u, sid>>)
    <3>1. H2!Finish(k, state, d, f, ends)
      BY <1>1, <2>2 DEF H2Handled
    <3>2. <<u, sid>> # k /\ <<u, sid>> \notin h2Dropped'.keys
      BY <1>1 DEF H2Quiet, H2!Key
    <3> QED
      BY <3>1, <3>2, H2FinishIs DEF H2Kept
  <2> QED
    BY <1>2, <2>1, <2>2
<1>6. ASSUME NEW i \in 1 .. Len(h2Messages'), h2Messages'[i].by[1] = e
      PROVE  i \in 1 .. Len(h2Messages) /\ h2Messages'[i] = h2Messages[i]
  <2>1. SUFFICES ASSUME i \notin 1 .. Len(h2Messages)
                 PROVE  FALSE
    BY H2MessagesAfter, H2SaidGrows DEF H2Kept
  <2>2. \E state, d, ends : h2Messages'[i] = H2Message(k, state, d, f)
    BY <1>1, <2>1, H2MessagesAfter
  <2>3. h2Messages'[i].by = f
    BY <2>2 DEF H2Message
  <2> QED
    BY <1>1, <1>6, <2>3
<1>7. ASSUME NEW sid \in Nat, NEW d \in H2!Directions,
             NEW value \in H2Entry(h2Streams', <<u, sid>>).hdr[d]
      PROVE  H2Carried(e, sid, d, value)'
  BY <1>4, <1>5, <1>7 DEF H2HeaderAt
<1>8. ASSUME NEW i \in 1 .. Len(h2Messages'), h2Messages'[i].by[1] = e, h2Messages'[i].key[1] = u,
             NEW value \in h2Messages'[i].hdr
      PROVE  H2Carried(e, h2Messages[i].key[2], h2Messages[i].dir, value)'
  <2>1. i \in 1 .. Len(h2Messages) /\ h2Messages'[i] = h2Messages[i]
    BY <1>6, <1>8
  <2>2. PICK sid, d : sid = h2Messages[i].key[2] /\ d = h2Messages[i].dir
    OBVIOUS
  <2>3. H2Carried(e, sid, d, value)
    BY <1>8, <2>1, <2>2 DEF H2HeaderAt
  <2>4. H2Carried(e, sid, d, value)'
    BY <1>4, <2>3
  <2>5. sid = h2Messages'[i].key[2] /\ d = h2Messages'[i].dir
    BY <2>1, <2>2
  <2> QED
    BY <2>4, <2>5
<1> QED
  BY <1>7, <1>8 DEF H2HeaderAt

LEMMA H2ReceiveHeaded ==
  ASSUME H2Kept, H2Heard, H2Headed, NEW c \in H2Conns, NEW t \in H2Threads, H2!Receive(c, t)
  PROVE  H2Headed'
<1>1. ASSUME NEW e \in H2Conns, NEW u \in H2Threads, H2Quiet(e, u)', H2!Synchronous(e)'
      PROVE  H2HeaderAt(e, u)'
  <2>1. H2Quiet(e, u) /\ (u = t <=> e = c)
    BY <1>1, H2QuietBefore DEF H2Heard
  <2>2. H2!Synchronous(e)
    BY <1>1, H2SynchronousBefore DEF H2Heard
  <2>3. H2InStep(e, u) /\ H2HeaderAt(e, u)
    BY <2>1, <2>2 DEF H2Heard, H2Decoding, H2Headed
  <2>4. CASE e = c
    <3>1. u = t /\ H2Quiet(c, t) /\ H2Quiet(c, t)' /\ H2InStep(c, t) /\ H2HeaderAt(c, t)
      BY <1>1, <2>1, <2>3, <2>4
    <3>2. H2HeaderAt(c, t)'
      BY <3>1, H2OwnHeaded DEF H2Heard
    <3> QED
      BY <2>4, <3>1, <3>2
  <2>5. CASE e # c
    BY <1>1, <2>1, <2>3, <2>5, H2OthersHeaded
  <2> QED
    BY <2>4, <2>5
<1> QED
  BY <1>1 DEF H2Headed

H2LoudKept == H2Kept /\ H2Pended /\ H2Decoding /\ H2Headed

LEMMA H2NoneSynchronous ==
  ASSUME H2Shape, NEW c \in H2Conns, H2!Lose(c)
  PROVE  \A e : ~H2!Synchronous(e)'
<1>1. h2Dropped' = [h2Dropped EXCEPT !.conns = @ \cup {c}]
  BY DEF H2!Lose
<1>2. h2Dropped' = [conns |-> h2Dropped.conns \cup {c}, keys |-> h2Dropped.keys,
                    blocks |-> h2Dropped.blocks]
  BY <1>1 DEF H2Shape
<1>3. h2Dropped'.conns # {}
  BY <1>2
<1> QED
  BY <1>3 DEF H2!Synchronous

LEMMA H2LoudStepKeeps ==
  ASSUME H2LoudKept, [ReassemblyNext]_<<part, vars, h2Vars>>
  PROVE  H2LoudKept'
<1> USE DEF H2LoudKept
<1>1. H2Kept' /\ H2Heard
  BY H2StepKeeps DEF H2Kept, H2Heard
<1>2. CASE UNCHANGED h2Vars
  <2>1. /\ UNCHANGED <<h2Traffic, h2Pos, h2Table, h2Streams>> /\ UNCHANGED <<h2Pending, h2Ran, h2Dropped>>
        /\ h2Messages' = h2Messages
    BY <1>2 DEF h2Vars
  <2>2. H2Pended' /\ H2Decoding'
    BY <1>1, <1>2, H2StillHeard
  <2>3. ASSUME NEW c \in H2Conns, NEW t \in H2Threads, H2Quiet(c, t)', H2!Synchronous(c)'
        PROVE  H2HeaderAt(c, t)'
    <3>1. H2Quiet(c, t) /\ H2!Synchronous(c)
      BY <2>1, <2>3 DEF H2Quiet, H2!Synchronous
    <3>2. H2HeaderAt(c, t)
      BY <3>1 DEF H2Headed
    <3> QED
      BY <2>1, <3>2 DEF H2HeaderAt, H2Carried, H2Entry, H2!Frame
  <2> QED
    BY <1>1, <2>2, <2>3 DEF H2Headed
<1>3. ASSUME NEW c \in H2Conns, H2!Lose(c)
      PROVE  H2LoudKept'
  <2>1. H2Pended' /\ H2Decoding'
    BY <1>1, <1>3, H2LoseHeard
  <2>2. H2Headed'
    BY <1>3, H2NoneSynchronous DEF H2Kept, H2Headed
  <2> QED
    BY <1>1, <2>1, <2>2
<1>4. ASSUME NEW c \in H2Conns, NEW t \in h2Traffic[c].threads, H2!Receive(c, t)
      PROVE  H2LoudKept'
  <2>1. t \in H2Threads
    BY H2Assumed DEF H2Kept, H2Shape
  <2>2. H2Pended' /\ H2Decoding'
    BY <1>1, <1>4, <2>1, H2ReceiveHeard
  <2>3. H2Headed'
    BY <1>1, <1>4, <2>1, H2ReceiveHeaded
  <2> QED
    BY <1>1, <2>2, <2>3
<1>5. CASE H2!Next
  BY <1>3, <1>4, <1>5 DEF H2!Next
<1> QED
  BY <1>2, <1>5 DEF ReassemblyNext

LEMMA H2InitLoud == H2!Init => H2LoudKept
<1> SUFFICES ASSUME H2!Init
             PROVE  H2Headed
  BY H2InitKept, H2InitHeard DEF H2LoudKept
<1>1. DOMAIN h2Streams = {} /\ h2Messages = << >>
  BY DEF H2!Init
<1>2. \A k : \A d \in H2!Directions : H2Entry(h2Streams, k).hdr[d] = {}
  BY <1>1, H2EmptyIs DEF H2Entry
<1> QED
  BY <1>1, <1>2 DEF H2Headed, H2HeaderAt

LEMMA H2OwnHeaders == H2LoudKept => H2!OwnHeaders
<1> SUFFICES ASSUME H2LoudKept, NEW i \in DOMAIN h2Messages, H2!Synchronous(h2Messages[i].by[1]),
                    H2!Intact(h2Messages[i].by[1]), NEW value \in h2Messages[i].hdr
             PROVE  LET m == h2Messages[i]
                    IN  \E f \in H2!Sent(m.by[1], H2!Frame(m.by).sid, m.dir) :
                          H2!Frame(f).type = "headers" /\ H2!Frame(f).value = value
  BY DEF H2!OwnHeaders
<1>1. PICK m : m = h2Messages[i]
  OBVIOUS
<1>2. PICK c, t : c = m.by[1] /\ t = m.key[1]
  OBVIOUS
<1>3. i \in 1 .. Len(h2Messages) /\ H2SaidBy(m)
  BY <1>1 DEF H2LoudKept, H2Kept, H2MessagesBy
<1>4. c \in H2Conns /\ t \in h2Ran[c] /\ m.key[2] = H2!Frame(m.by).sid
  BY <1>2, <1>3 DEF H2SaidBy
<1>5. H2!Intact(c) /\ H2!Synchronous(c)
  BY <1>1, <1>2
<1>6. H2Quiet(c, t) /\ t \in H2Threads
  BY <1>4, <1>5, H2IntactIs DEF H2LoudKept, H2Kept
<1>7. H2HeaderAt(c, t)
  BY <1>4, <1>5, <1>6 DEF H2LoudKept, H2Headed
<1>8. H2Carried(c, m.key[2], m.dir, value)
  BY <1>1, <1>2, <1>3, <1>7 DEF H2HeaderAt
<1>9. PICK n \in 1 .. h2Pos[c] :
             /\ H2!Frame(<<c, n>>).type = "headers" /\ H2!Frame(<<c, n>>).sid = m.key[2]
             /\ H2!Frame(<<c, n>>).dir = m.dir /\ H2!Frame(<<c, n>>).value = value
  BY <1>8 DEF H2Carried
<1>10. <<c, n>> \in H2!Sent(c, H2!Frame(m.by).sid, m.dir)
  BY <1>4, <1>9 DEF H2!Sent
<1> QED
  BY <1>1, <1>2, <1>9, <1>10

\* As long as only its own connection has used the HPACK decoders, and nothing was lost or
\* evicted, a message has no header that its stream did not carry: HTTP2State::apply_headers
\* and the pending blocks.
THEOREM HeadersAreOwn == ReassemblySpec => []OwnHeaders
<1>1. ReassemblyInit => H2LoudKept
  BY H2InitLoud DEF ReassemblyInit
<1>2. H2LoudKept /\ [ReassemblyNext]_<<part, vars, h2Vars>> => H2LoudKept'
  BY H2LoudStepKeeps
<1>3. H2LoudKept => OwnHeaders
  BY H2OwnHeaders DEF OwnHeaders
<1> QED
  BY <1>1, <1>2, <1>3, PTL DEF ReassemblySpec

-----------------------------------------------------------------------------
\* What becomes of the sides that end (EndedIsEmitted)

\* A walk has every frame that it passes and that is one.
LEMMA UpToHas ==
  ASSUME NEW tr, NEW c, NEW sid, NEW d, NEW type, NEW b \in Nat \ {0},
         H2Is(tr, <<c, b>>, sid, d, type), NEW n \in Nat, b <= n
  PROVE  \E l \in DOMAIN H2UpTo(tr, c, sid, d, type, n) : H2UpTo(tr, c, sid, d, type, n)[l] = <<c, b>>
<1> DEFINE UpTo(m) == H2UpTo(tr, c, sid, d, type, m)
           Has(s) == \E l \in DOMAIN s : s[l] = <<c, b>>
           Bad == {m \in Nat : b <= m /\ ~Has(UpTo(m))}
<1>1. \A m, k \in Nat : k = m + 1 => UpTo(k) = IF H2Is(tr, <<c, k>>, sid, d, type)
                                              THEN Append(UpTo(m), <<c, k>>) ELSE UpTo(m)
  BY UpToIs
<1>2. \A m \in Nat : UpTo(m) \in Seq({c} \X Nat)
  BY UpToSeq
<1> HIDE DEF UpTo
<1>3. SUFFICES ASSUME Bad # {}
               PROVE  FALSE
  BY DEF UpTo
<1>4. PICK m \in Bad : \A k \in Bad : m <= k
  <2>1. Bad \subseteq Nat
    OBVIOUS
  <2> HIDE DEF Bad
  <2> QED
    BY <1>3, <2>1, LeastOf
<1>5. m \in Nat /\ b <= m /\ ~Has(UpTo(m))
  OBVIOUS
<1>6. m - 1 \in Nat /\ (m - 1) + 1 = m /\ ~(m <= m - 1)
  BY <1>5
<1>7. UpTo(m) = IF H2Is(tr, <<c, m>>, sid, d, type) THEN Append(UpTo(m - 1), <<c, m>>) ELSE UpTo(m - 1)
  BY <1>1, <1>5, <1>6
<1>8. \A x : Has(UpTo(m - 1)) => Has(Append(UpTo(m - 1), x))
  <2>1. PICK s : s = UpTo(m - 1) /\ s \in Seq({c} \X Nat)
    BY <1>2, <1>6
  <2>2. \A x : \A l \in DOMAIN s : l \in DOMAIN Append(s, x) /\ Append(s, x)[l] = s[l]
    BY <2>1, H2AppendIs
  <2> QED
    BY <2>1, <2>2
<1>9. CASE b = m
  <2>1. PICK s : s = UpTo(m - 1) /\ s \in Seq({c} \X Nat)
    BY <1>2, <1>6
  <2>2. Append(s, <<c, m>>)[Len(s) + 1] = <<c, m>> /\ Len(s) + 1 \in DOMAIN Append(s, <<c, m>>)
    BY <2>1
  <2>3. UpTo(m) = Append(s, <<c, m>>)
    BY <1>7, <1>9, <2>1
  <2> QED
    BY <1>5, <1>9, <2>2, <2>3
<1>10. CASE b # m
  <2>1. b <= m - 1
    BY <1>5, <1>6, <1>10
  <2>2. m - 1 \notin Bad
    <3> HIDE DEF Bad
    <3> QED
      BY <1>4, <1>6
  <2>3. Has(UpTo(m - 1))
    BY <1>6, <2>1, <2>2
  <2> QED
    BY <1>5, <1>7, <1>8, <2>3
<1> QED
  BY <1>9, <1>10

\* Frames of a body that come after one, or no later
H2Later(body, p) == \A l \in DOMAIN body : p < body[l][2]
H2NoLater(body, p) == \A l \in DOMAIN body : body[l][2] <= p

LEMMA ExtendedHas ==
  ASSUME NEW S, NEW body \in Seq(S), NEW f
  PROVE  \A l \in DOMAIN H2!Extended(body, f) :
           \/ H2!Extended(body, f)[l] = f
           \/ \E m \in DOMAIN body : H2!Extended(body, f)[l] = body[m]
<1>1. CASE Len(body) < H2MaxBody
  BY <1>1, H2AppendIs DEF H2!Extended
<1>2. CASE ~(Len(body) < H2MaxBody)
  <2>1. body # << >>
    BY <1>2, H2Assumed
  <2>2. /\ Tail(body) \in Seq(S) /\ Len(Tail(body)) = Len(body) - 1
        /\ \A l \in DOMAIN Tail(body) : l + 1 \in DOMAIN body /\ Tail(body)[l] = body[l + 1]
    BY <2>1
  <2>3. PICK s : s = Tail(body)
    OBVIOUS
  <2>4. \A l \in DOMAIN Append(s, f) : l \in DOMAIN s \/ Append(s, f)[l] = f
    BY <2>2, <2>3
  <2>5. \A l \in DOMAIN s : Append(s, f)[l] = s[l]
    BY <2>2, <2>3
  <2>6. H2!Extended(body, f) = Append(s, f)
    BY <1>2, <2>3 DEF H2!Extended
  <2> QED
    BY <2>2, <2>3, <2>4, <2>5, <2>6
<1> QED
  BY <1>1, <1>2

\* Each message has a reason.
H2Because ==
  \A i \in 1 .. Len(h2Messages) :
    LET f == h2Messages[i].by
    IN  /\ f = <<f[1], f[2]>> /\ f[2] \in 1 .. Len(h2Traffic[f[1]].frames)
        /\ H2!Frame(f).dir = h2Messages[i].dir
        /\ H2!Ending(f) \/ (H2!Frame(f).type = "data" /\ H2!Frame(f).json)

\* A side's second message has frames alone that come after its first, which was not
\* its end.
H2TwiceAt(c, t) ==
  /\ \A sid \in Nat, d \in H2!Directions :
       /\ H2NoLater(H2Entry(h2Streams, <<t, sid>>).body[d], h2Pos[c])
       /\ d \notin H2Entry(h2Streams, <<t, sid>>).emitted =>
            \A i \in H2SaidOf(<<t, sid>>, d) :
              H2Later(H2Entry(h2Streams, <<t, sid>>).body[d], h2Messages[i].by[2])
  /\ \A i \in 1 .. Len(h2Messages) : h2Messages[i].key[1] = t =>
       H2NoLater(h2Messages[i].body, h2Messages[i].by[2])
  /\ \A i, j \in 1 .. Len(h2Messages) :
       /\ i < j /\ h2Messages[i].key[1] = t
       /\ h2Messages[i].key = h2Messages[j].key /\ h2Messages[i].dir = h2Messages[j].dir
       => /\ H2Later(h2Messages[j].body, h2Messages[i].by[2])
          /\ ~H2!Ending(h2Messages[i].by) /\ H2!Ending(h2Messages[j].by)

\* A side that has ended has a message, if the end was understood.
H2EndAt(c, t) ==
  \A n \in 1 .. h2Pos[c] : H2!Ending(<<c, n>>) =>
    H2SaidOf(<<t, H2!Frame(<<c, n>>).sid>>, H2!Frame(<<c, n>>).dir) # {}

H2Ended ==
  \A c \in H2Conns, t \in H2Threads : H2Quiet(c, t) =>
    H2TwiceAt(c, t) /\ (H2!Synchronous(c) => H2EndAt(c, t))

\* Messages of the thread of a quiet connection are the connection's.
LEMMA H2SaidHere ==
  ASSUME H2MessagesBy, NEW c \in H2Conns, NEW t, H2Quiet(c, t),
         NEW i \in 1 .. Len(h2Messages), h2Messages[i].key[1] = t
  PROVE  /\ h2Messages[i].by[1] = c /\ h2Messages[i].by[2] \in Nat
         /\ h2Messages[i].by[2] <= h2Pos[c]
<1>1. PICK m : m = h2Messages[i]
  OBVIOUS
<1>2. m.by[1] \in H2Conns /\ m.key[1] \in h2Ran[m.by[1]] /\ m.by[2] \in Nat /\ m.by[2] <= h2Pos[m.by[1]]
  BY <1>1 DEF H2MessagesBy, H2SaidBy
<1>3. m.by[1] = c
  BY <1>1, <1>2 DEF H2Quiet
<1> QED
  BY <1>1, <1>2, <1>3

LEMMA H2BecauseKeeps ==
  ASSUME H2Kept, H2Because, NEW c \in H2Conns, NEW t \in H2Threads, H2!Receive(c, t)
  PROVE  H2Because'
<1>1. PICK n : n = h2Pos[c] + 1
  OBVIOUS
<1> DEFINE f == <<c, n>>
<1>2. n \in 1 .. Len(h2Traffic[c].frames) /\ h2Traffic' = h2Traffic
  BY <1>1, H2ReceiveIs DEF H2Kept
<1>3. \A i \in 1 .. Len(h2Messages) : h2Messages'[i] = h2Messages[i]
  BY H2MessagesAfter, H2SaidGrows DEF H2Kept
<1>4. \A x : H2!Frame(x)' = H2!Frame(x)
  BY <1>2 DEF H2!Frame
<1>5. \A x : H2!Ending(x)' = H2!Ending(x)
  BY <1>4 DEF H2!Ending
<1>6. ASSUME NEW i \in 1 .. Len(h2Messages'), NEW g, g = h2Messages'[i].by
      PROVE  /\ g = <<g[1], g[2]>> /\ g[2] \in 1 .. Len(h2Traffic[g[1]].frames)
             /\ H2!Frame(g).dir = h2Messages'[i].dir
             /\ H2!Ending(g) \/ (H2!Frame(g).type = "data" /\ H2!Frame(g).json)
  <2>1. CASE i \in 1 .. Len(h2Messages)
    BY <1>3, <1>6, <2>1 DEF H2Because
  <2>2. CASE i \notin 1 .. Len(h2Messages)
    <3>1. PICK state, d, ends :
                 /\ H2Handled(c, t, f, state, d, ends) /\ H2Emits(state, d, ends)
                 /\ h2Messages'[i] = H2Message(H2!Key(t, f), state, d, f)
      BY <1>1, <2>2, H2MessagesAfter
    <3>2. h2Messages'[i].by = f /\ h2Messages'[i].dir = d
      BY <3>1 DEF H2Message
    <3>3. d = H2!Frame(f).dir /\ (H2!Ending(f) \/ (H2!Frame(f).type = "data" /\ H2!Frame(f).json))
      BY <3>1 DEF H2Handled, H2Emits, H2EndsFor
    <3> QED
      BY <1>2, <1>6, <3>2, <3>3
  <2> QED
    BY <2>1, <2>2
<1>7. ASSUME NEW i \in 1 .. Len(h2Messages')
      PROVE  LET g == h2Messages'[i].by
             IN  /\ g = <<g[1], g[2]>> /\ g[2] \in 1 .. Len(h2Traffic'[g[1]].frames)
                 /\ H2!Frame(h2Messages[i].by)'.dir = h2Messages'[i].dir
                 /\ \/ H2!Ending(h2Messages[i].by)'
                    \/ H2!Frame(h2Messages[i].by)'.type = "data" /\ H2!Frame(h2Messages[i].by)'.json
  <2>1. PICK g : g = h2Messages'[i].by
    OBVIOUS
  <2>2. H2!Frame(g)' = H2!Frame(h2Messages[i].by)' /\ (H2!Ending(g)' = H2!Ending(h2Messages[i].by)')
    BY <2>1 DEF H2!Frame, H2!Ending
  <2> QED
    BY <1>2, <1>4, <1>5, <1>6, <2>1, <2>2
<1> QED
  BY <1>7 DEF H2Because

\* What a record adds to a body comes after all that has come.
LEMMA H2BodyBounds ==
  ASSUME H2Shape, NEW c \in H2Conns, NEW t, NEW n, n = h2Pos[c] + 1,
         NEW state, NEW d, NEW ends, H2Handled(c, t, <<c, n>>, state, d, ends),
         NEW old, old = H2Entry(h2Streams, H2!Key(t, <<c, n>>)).body, NEW side \in H2!Directions
  PROVE  /\ H2NoLater(old[side], h2Pos[c]) => H2NoLater(state.body[side], n)
         /\ \A p \in Nat : p <= h2Pos[c] /\ H2Later(old[side], p) => H2Later(state.body[side], p)
<1>1. h2Pos[c] \in Nat /\ n \in Nat
  BY DEF H2Shape
<1> DEFINE f == <<c, n>>
<1>2. /\ state.body = IF H2!Frame(f).type = "data" THEN [old EXCEPT ![d] = H2!Extended(@, f)] ELSE old
      /\ old \in [H2!Directions -> Seq(H2Conns \X Nat)]
  BY H2EntryIs DEF H2Handled, H2State, H2Bodies
<1>3. PICK body, more : body = old[side] /\ more = state.body[side]
  OBVIOUS
<1>4. /\ body \in Seq(H2Conns \X Nat) /\ \A l \in DOMAIN body : body[l][2] \in Nat
      /\ more = body \/ more = H2!Extended(body, f)
  <2>1. body \in Seq(H2Conns \X Nat)
    BY <1>2, <1>3
  <2>2. \A l \in DOMAIN body : body[l] \in H2Conns \X Nat
    BY <2>1
  <2>3. more = body \/ more = H2!Extended(body, f)
    BY <1>2, <1>3
  <2> QED
    BY <2>1, <2>2, <2>3
<1>5. \A l \in DOMAIN more : more[l] = f \/ \E m \in DOMAIN body : more[l] = body[m]
  BY <1>4, ExtendedHas
<1>6. f[2] = n
  OBVIOUS
<1> HIDE DEF f
<1>7. ASSUME H2NoLater(body, h2Pos[c]), NEW l \in DOMAIN more
      PROVE  more[l][2] <= n
  <2>1. CASE more[l] = f
    BY <1>1, <1>6, <2>1
  <2>2. ASSUME NEW m \in DOMAIN body, more[l] = body[m]
        PROVE  more[l][2] <= n
    <3>1. body[m][2] <= h2Pos[c] /\ body[m][2] \in Nat
      BY <1>4, <1>7 DEF H2NoLater
    <3> QED
      BY <1>1, <2>2, <3>1
  <2> QED
    BY <1>5, <2>1, <2>2
<1>8. ASSUME NEW p \in Nat, p <= h2Pos[c], H2Later(body, p), NEW l \in DOMAIN more
      PROVE  p < more[l][2]
  <2>1. CASE more[l] = f
    BY <1>1, <1>6, <1>8, <2>1
  <2>2. ASSUME NEW m \in DOMAIN body, more[l] = body[m]
        PROVE  p < more[l][2]
    BY <1>8, <2>2 DEF H2Later
  <2> QED
    BY <1>5, <2>1, <2>2
<1> QED
  BY <1>3, <1>7, <1>8 DEF H2NoLater, H2Later

\* A message of a side that has one already: of its end, and not the first's.
LEMMA H2SecondIs ==
  ASSUME H2Kept, H2Because, NEW c \in H2Conns, NEW t, H2Quiet(c, t),
         NEW n, n = h2Pos[c] + 1, n \in 1 .. Len(h2Traffic[c].frames),
         NEW state, NEW d, NEW ends, H2Handled(c, t, <<c, n>>, state, d, ends),
         H2Emits(state, d, ends), H2TwiceAt(c, t),
         NEW i \in H2SaidOf(H2!Key(t, <<c, n>>), d)
  PROVE  /\ H2Later(state.body[d], h2Messages[i].by[2])
         /\ ~H2!Ending(h2Messages[i].by) /\ H2!Ending(<<c, n>>)
<1> DEFINE f == <<c, n>>
           k == H2!Key(t, f)
           frames == h2Traffic[c].frames
<1>1. PICK sid : sid = H2!Frame(f).sid /\ sid \in Nat /\ k = <<t, sid>> /\ k[1] = t /\ k[2] = sid
  BY H2FrameIs DEF H2Kept, H2!Key
<1>2. PICK m : m = h2Messages[i]
  OBVIOUS
<1>3. i \in 1 .. Len(h2Messages) /\ m.key = k /\ m.dir = d
  BY <1>2 DEF H2SaidOf
<1>4. PICK b : b = m.by[2]
  OBVIOUS
<1>5. m.by[1] = c /\ b \in Nat /\ b <= h2Pos[c]
  BY <1>1, <1>2, <1>3, <1>4, H2SaidHere DEF H2Kept
<1>6. /\ m.by = <<c, b>> /\ b \in 1 .. Len(frames) /\ H2!Frame(m.by).dir = d
      /\ H2!Ending(m.by) \/ (H2!Frame(m.by).type = "data" /\ H2!Frame(m.by).json)
  BY <1>2, <1>3, <1>4, <1>5 DEF H2Because
<1>7. H2!Frame(m.by).sid = sid
  BY <1>1, <1>2, <1>3 DEF H2Kept, H2MessagesBy, H2SaidBy
<1>8. /\ d = H2!Frame(f).dir /\ d \in H2!Directions
      /\ \/ H2!Ending(f)
         \/ /\ H2!Frame(f).type = "data" /\ H2!Frame(f).json
            /\ state.body[d] = H2UpTo(h2Traffic, c, sid, d, "data", n)
      /\ d \notin H2Entry(h2Streams, k).emitted
  BY <1>1 DEF H2Handled, H2Emits, H2EndsFor
<1>9. h2Pos[c] \in Nat /\ n \in Nat /\ b < n /\ b <= n
  BY <1>5 DEF H2Kept, H2Shape
<1>10. H2Later(state.body[d], b)
  <2>1. H2Later(H2Entry(h2Streams, k).body[d], b)
    BY <1>1, <1>2, <1>4, <1>8 DEF H2TwiceAt
  <2> QED
    BY <1>5, <1>8, <2>1, H2BodyBounds DEF H2Kept
<1>11. ~H2!Ending(m.by)
  <2>1. SUFFICES ASSUME H2!Ending(m.by)
                 PROVE  FALSE
    OBVIOUS
  <2>2. H2!SidesEnd(frames)
    BY H2Peers DEF H2Kept
  <2>3. H2!Frame(<<c, b>>) = frames[b] /\ H2!Frame(f) = frames[n] /\ n \in DOMAIN frames
    BY <1>6, H2HeaderIs DEF H2Kept
  <2>4. b \in 1 .. n - 1
    BY <1>6, <1>9
  <2>5. H2!Frame(<<c, b>>).endStream
    BY <1>6, <2>1 DEF H2!Ending
  <2>6. H2!Frame(f).type # "continuation"
    BY <1>8 DEF H2!Ending
  <2> HIDE DEF frames, f
  <2>7. frames[b].dir # frames[n].dir \/ frames[b].sid # frames[n].sid
    BY <2>2, <2>3, <2>4, <2>5, <2>6 DEF H2!SidesEnd
  <2> QED
    BY <1>1, <1>6, <1>7, <1>8, <2>3, <2>7
<1>12. H2!Ending(f)
  <2>1. SUFFICES ASSUME ~H2!Ending(f)
                 PROVE  FALSE
    OBVIOUS
  <2>2. H2Is(h2Traffic, <<c, b>>, sid, d, "data")
    BY <1>6, <1>7, <1>11 DEF H2Is, H2!Frame
  <2>3. PICK body : body = state.body[d] /\ body = H2UpTo(h2Traffic, c, sid, d, "data", n)
    BY <1>8, <2>1
  <2>4. PICK l \in DOMAIN body : body[l] = <<c, b>>
    <3>1. b \in Nat \ {0}
      BY <1>6
    <3> QED
      BY <1>9, <2>2, <2>3, <3>1, UpToHas
  <2>5. b < b
    BY <1>10, <2>3, <2>4 DEF H2Later
  <2> QED
    BY <1>5, <2>5
<1> QED
  BY <1>2, <1>4, <1>10, <1>11, <1>12

\* The records that have come, and the next
LEMMA H2EndingStays ==
  ASSUME h2Traffic' = h2Traffic
  PROVE  \A f : H2!Frame(f)' = H2!Frame(f) /\ (H2!Ending(f)' <=> H2!Ending(f))
<1>1. \A f : H2!Frame(f)' = H2!Frame(f)
  BY DEF H2!Frame
<1> QED
  BY <1>1 DEF H2!Ending

\* A side gets a message by the record that is handled for it, and by no other.
LEMMA H2SaidSince ==
  ASSUME H2Kept, NEW c, NEW t, NEW f, NEW state, NEW d, NEW ends, NEW k, k = H2!Key(t, f),
         H2Handled(c, t, f, state, d, ends), NEW j, NEW side,
         NEW i \in H2SaidOf(j, side)', i \notin H2SaidOf(j, side)
  PROVE  j = k /\ side = d /\ H2Emits(state, d, ends)
<1>1. h2Messages' = IF H2Emits(state, d, ends)
                    THEN Append(h2Messages, H2Message(k, state, d, f)) ELSE h2Messages
  BY H2HandledIs DEF H2Kept
<1>2. H2Emits(state, d, ends)
  BY <1>1 DEF H2SaidOf
<1>3. PICK S, m : /\ h2Messages \in Seq(S) /\ m = H2Message(k, state, d, f)
                  /\ h2Messages' = Append(h2Messages, m)
  BY <1>1, <1>2 DEF H2Kept, H2MessagesBy
<1>4. /\ Len(h2Messages') = Len(h2Messages) + 1 /\ h2Messages'[Len(h2Messages) + 1] = m
      /\ \A l \in 1 .. Len(h2Messages) : h2Messages'[l] = h2Messages[l]
      /\ Len(h2Messages) \in Nat
  BY <1>3, H2AppendIs
<1>5. i \in 1 .. Len(h2Messages') /\ h2Messages'[i].key = j /\ h2Messages'[i].dir = side
  BY DEF H2SaidOf
<1>6. i \notin 1 .. Len(h2Messages)
  BY <1>4, <1>5 DEF H2SaidOf
<1>7. h2Messages'[i] = m
  BY <1>4, <1>5, <1>6
<1>8. m.key = k /\ m.dir = d
  BY <1>3 DEF H2Message
<1> QED
  BY <1>2, <1>5, <1>7, <1>8

\* What keys of the record's own thread have
LEMMA H2OwnTwiceKeys ==
  ASSUME H2Kept, NEW c \in H2Conns, NEW t \in H2Threads, H2!Receive(c, t),
         H2Quiet(c, t), H2Quiet(c, t)', H2TwiceAt(c, t), NEW sid \in Nat, NEW d \in H2!Directions
  PROVE  /\ H2NoLater(H2Entry(h2Streams', <<t, sid>>).body[d], h2Pos'[c])
         /\ d \notin H2Entry(h2Streams', <<t, sid>>).emitted =>
              \A i \in H2SaidOf(<<t, sid>>, d)' :
                H2Later(H2Entry(h2Streams', <<t, sid>>).body[d], h2Messages'[i].by[2])
<1>1. PICK n, k : n = h2Pos[c] + 1 /\ k = H2!Key(t, <<c, n>>)
  OBVIOUS
<1> DEFINE f == <<c, n>>
           key == <<t, sid>>
           old == H2Entry(h2Streams, key)
           new == H2Entry(h2Streams', key)
<1>2. /\ n \in 1 .. Len(h2Traffic[c].frames) /\ h2Pos'[c] = n
      /\ H2Ignored(f) \/ \E state, side, ends : H2Handled(c, t, f, state, side, ends)
  BY <1>1, H2ReceiveIs DEF H2Kept, H2Shape
<1>3. h2Pos[c] \in Nat
  BY DEF H2Kept, H2Shape
<1>4. \A i \in H2SaidOf(key, d) :
        h2Messages'[i] = h2Messages[i] /\ h2Messages[i].by[2] \in Nat /\ h2Messages[i].by[2] <= h2Pos[c]
  <2> TAKE i \in H2SaidOf(key, d)
  <2>1. i \in 1 .. Len(h2Messages) /\ h2Messages[i].key[1] = t
    BY DEF H2SaidOf
  <2>2. h2Messages'[i] = h2Messages[i]
    BY <2>1, H2MessagesAfter, H2SaidGrows DEF H2Kept
  <2> QED
    BY <2>1, <2>2, H2SaidHere DEF H2Kept
<1>5. /\ H2NoLater(old.body[d], h2Pos[c])
      /\ d \notin old.emitted => \A i \in H2SaidOf(key, d) : H2Later(old.body[d], h2Messages[i].by[2])
  BY DEF H2TwiceAt
<1>6. \A l \in DOMAIN old.body[d] : old.body[d][l][2] \in Nat
  <2>1. old.body \in [H2!Directions -> Seq(H2Conns \X Nat)]
    BY H2EntryIs DEF H2Kept, H2State, H2Bodies
  <2>2. PICK body : body = old.body[d] /\ body \in Seq(H2Conns \X Nat)
    BY <2>1
  <2>3. \A l \in DOMAIN body : body[l] \in H2Conns \X Nat
    BY <2>2
  <2> QED
    BY <2>2, <2>3
<1>7. H2NoLater(old.body[d], n)
  BY <1>1, <1>3, <1>5, <1>6 DEF H2NoLater
<1> HIDE DEF f, key, old, new
<1>8. CASE new = old /\ H2SaidOf(key, d)' \subseteq H2SaidOf(key, d)
  BY <1>2, <1>4, <1>5, <1>7, <1>8 DEF new, old, key
<1>9. CASE H2Ignored(f)
  <2>1. h2Streams' = h2Streams /\ h2Messages' = h2Messages
    BY <1>9 DEF H2Ignored
  <2> QED
    BY <1>8, <2>1 DEF new, old, H2SaidOf
<1>10. ASSUME NEW state, NEW side, NEW ends, H2Handled(c, t, f, state, side, ends), key # k
       PROVE  new = old /\ H2SaidOf(key, d)' \subseteq H2SaidOf(key, d)
  <2>1. H2!Finish(k, state, side, f, ends)
    BY <1>1, <1>10 DEF H2Handled, f
  <2>2. key \notin h2Dropped'.keys
    BY DEF H2Quiet, key
  <2> QED
    BY <1>1, <1>10, <2>1, <2>2, H2FinishIs, H2SaidSince DEF H2Kept, new, old, f
<1>11. ASSUME NEW state, NEW side, NEW ends, H2Handled(c, t, f, state, side, ends), key = k
       PROVE  /\ H2NoLater(new.body[d], n)
              /\ d \notin new.emitted =>
                   \A i \in H2SaidOf(key, d)' : H2Later(new.body[d], h2Messages'[i].by[2])
  <2> DEFINE after == H2After(state, side, ends)
  <2>1. H2!Finish(k, state, side, f, ends)
    BY <1>1, <1>11 DEF H2Handled, f
  <2>2. key \notin h2Dropped'.keys
    BY DEF H2Quiet, key
  <2>3. new = IF after.emitted = H2!Directions THEN H2!Empty ELSE after
    BY <1>11, <2>1, <2>2, H2FinishIs DEF H2Kept, new
  <2>4. /\ after.body = state.body
        /\ after.emitted = old.emitted \cup (IF H2Emits(state, side, ends) THEN {side} ELSE {})
    BY <1>1, <1>11, H2HandledIs DEF H2Kept, f, old
  <2> HIDE DEF after
  <2>5. CASE new = H2!Empty
    <3>1. new.body[d] = << >>
      BY <2>5, H2EmptyIs
    <3> QED
      BY <3>1 DEF H2NoLater, H2Later
  <2>6. CASE new = after
    <3>1. H2NoLater(state.body[d], n)
          /\ \A p \in Nat : p <= h2Pos[c] /\ H2Later(old.body[d], p) => H2Later(state.body[d], p)
      <4>1. PICK body : body = H2Entry(h2Streams, H2!Key(t, <<c, n>>)).body /\ body = old.body
        BY <1>1, <1>11 DEF f, old
      <4>2. /\ H2NoLater(body[d], h2Pos[c]) => H2NoLater(state.body[d], n)
            /\ \A p \in Nat : p <= h2Pos[c] /\ H2Later(body[d], p) => H2Later(state.body[d], p)
        BY <1>1, <1>11, <4>1, H2BodyBounds DEF H2Kept, f
      <4> QED
        BY <1>5, <4>1, <4>2
    <3>2. ASSUME d \notin new.emitted, NEW i \in H2SaidOf(key, d)'
          PROVE  H2Later(new.body[d], h2Messages'[i].by[2])
      <4>1. d \notin old.emitted /\ ~(d = side /\ H2Emits(state, side, ends))
        BY <2>4, <2>6, <3>2
      <4>2. i \in H2SaidOf(key, d)
        BY <1>1, <1>11, <3>2, <4>1, H2SaidSince DEF f
      <4>3. H2Later(old.body[d], h2Messages[i].by[2])
        BY <1>5, <4>1, <4>2
      <4> QED
        BY <1>4, <2>4, <2>6, <3>1, <4>2, <4>3
    <3> QED
      BY <2>4, <2>6, <3>1, <3>2
  <2> QED
    BY <2>3, <2>5, <2>6
<1> QED
  <2>1. CASE \E state, side, ends : H2Handled(c, t, f, state, side, ends) /\ key # k
    BY <1>8, <1>10, <2>1
  <2>2. CASE \E state, side, ends : H2Handled(c, t, f, state, side, ends) /\ key = k
    <3>1. /\ H2NoLater(new.body[d], n)
          /\ d \notin new.emitted =>
               \A i \in H2SaidOf(key, d)' : H2Later(new.body[d], h2Messages'[i].by[2])
      BY <1>11, <2>2
    <3> QED
      BY <1>2, <3>1 DEF new, key
  <2> QED
    BY <1>2, <1>9, <2>1, <2>2

\* The messages of the record's own thread
LEMMA H2OwnTwice ==
  ASSUME H2Kept, H2Because, NEW c \in H2Conns, NEW t \in H2Threads, H2!Receive(c, t),
         H2Quiet(c, t), H2Quiet(c, t)', H2TwiceAt(c, t)
  PROVE  H2TwiceAt(c, t)'
<1>1. PICK n, k : n = h2Pos[c] + 1 /\ k = H2!Key(t, <<c, n>>)
  OBVIOUS
<1> DEFINE f == <<c, n>>
<1>2. n \in 1 .. Len(h2Traffic[c].frames) /\ h2Traffic' = h2Traffic
  BY <1>1, H2ReceiveIs DEF H2Kept
<1>3. \A x : H2!Ending(x)' <=> H2!Ending(x)
  BY <1>2, H2EndingStays
<1>4. \A i \in 1 .. Len(h2Messages) : h2Messages'[i] = h2Messages[i]
  BY H2MessagesAfter, H2SaidGrows DEF H2Kept
<1>5. ASSUME NEW i \in 1 .. Len(h2Messages'), i \notin 1 .. Len(h2Messages)
      PROVE  /\ i = Len(h2Messages) + 1
             /\ \E state, d, ends :
                  /\ H2Handled(c, t, f, state, d, ends) /\ H2Emits(state, d, ends)
                  /\ h2Messages'[i].by = f /\ h2Messages'[i].key = k /\ h2Messages'[i].dir = d
                  /\ h2Messages'[i].body = state.body[d]
  <2>1. PICK state, d, ends :
               /\ H2Handled(c, t, f, state, d, ends) /\ H2Emits(state, d, ends)
               /\ h2Messages'[i] = H2Message(k, state, d, f) /\ i = Len(h2Messages) + 1
    BY <1>1, <1>5, H2MessagesAfter
  <2>2. /\ h2Messages'[i].by = f /\ h2Messages'[i].key = k /\ h2Messages'[i].dir = d
        /\ h2Messages'[i].body = state.body[d]
    BY <2>1 DEF H2Message
  <2> QED
    BY <2>1, <2>2
<1>6. f[2] = n /\ Len(h2Messages) \in Nat
  BY DEF H2Kept, H2MessagesBy
<1>7. H2!Frame(f).sid \in Nat /\ k = <<t, H2!Frame(f).sid>>
  BY <1>1, <1>2, H2FrameIs DEF H2Kept, H2!Key
<1> HIDE DEF f
<1>8. ASSUME NEW i \in 1 .. Len(h2Messages'), h2Messages'[i].key[1] = t
      PROVE  H2NoLater(h2Messages'[i].body, h2Messages'[i].by[2])
  <2>1. CASE i \in 1 .. Len(h2Messages)
    BY <1>4, <1>8, <2>1 DEF H2TwiceAt
  <2>2. CASE i \notin 1 .. Len(h2Messages)
    <3>1. PICK state, d, ends :
                 /\ H2Handled(c, t, f, state, d, ends)
                 /\ h2Messages'[i].by = f /\ h2Messages'[i].body = state.body[d]
      BY <1>5, <2>2
    <3>2. d \in H2!Directions
      BY <3>1 DEF H2Handled
    <3>3. PICK old : old = H2Entry(h2Streams, H2!Key(t, f)).body
      OBVIOUS
    <3>4. H2NoLater(old[d], h2Pos[c])
      BY <1>1, <1>7, <3>2, <3>3 DEF H2TwiceAt, f
    <3>5. H2NoLater(state.body[d], n)
      BY <1>1, <3>1, <3>2, <3>3, <3>4, H2BodyBounds DEF H2Kept, f
    <3> QED
      BY <1>6, <3>1, <3>5
  <2> QED
    BY <2>1, <2>2
<1>9. ASSUME NEW i \in 1 .. Len(h2Messages'), NEW j \in 1 .. Len(h2Messages'), i < j,
             h2Messages'[i].key[1] = t, h2Messages'[i].key = h2Messages'[j].key,
             h2Messages'[i].dir = h2Messages'[j].dir
      PROVE  /\ H2Later(h2Messages'[j].body, h2Messages'[i].by[2])
             /\ ~H2!Ending(h2Messages'[i].by) /\ H2!Ending(h2Messages'[j].by)
  <2>1. i \in 1 .. Len(h2Messages)
    BY <1>5, <1>6, <1>9
  <2>2. CASE j \in 1 .. Len(h2Messages)
    BY <1>4, <1>9, <2>1, <2>2 DEF H2TwiceAt
  <2>3. CASE j \notin 1 .. Len(h2Messages)
    <3>1. PICK state, d, ends :
                 /\ H2Handled(c, t, f, state, d, ends) /\ H2Emits(state, d, ends)
                 /\ h2Messages'[j].by = f /\ h2Messages'[j].key = k /\ h2Messages'[j].dir = d
                 /\ h2Messages'[j].body = state.body[d]
      BY <1>5, <2>3
    <3>2. i \in H2SaidOf(H2!Key(t, <<c, n>>), d)
      BY <1>1, <1>4, <1>9, <2>1, <3>1 DEF H2SaidOf
    <3>3. /\ H2Later(state.body[d], h2Messages[i].by[2])
          /\ ~H2!Ending(h2Messages[i].by) /\ H2!Ending(<<c, n>>)
      BY <1>1, <1>2, <3>1, <3>2, H2SecondIs DEF f
    <3> QED
      BY <1>4, <2>1, <3>1, <3>3 DEF f
  <2> QED
    BY <2>2, <2>3
<1>10. ASSUME NEW i \in 1 .. Len(h2Messages'), NEW j \in 1 .. Len(h2Messages')
       PROVE  /\ H2!Ending(h2Messages[i].by)' <=> H2!Ending(h2Messages'[i].by)
              /\ H2!Ending(h2Messages[j].by)' <=> H2!Ending(h2Messages'[j].by)
  <2>1. PICK x, y : x = h2Messages'[i].by /\ y = h2Messages'[j].by
    OBVIOUS
  <2>2. (H2!Ending(x)' <=> H2!Ending(h2Messages[i].by)') /\ (H2!Ending(y)' <=> H2!Ending(h2Messages[j].by)')
    BY <2>1 DEF H2!Ending, H2!Frame
  <2> QED
    BY <1>3, <2>1, <2>2
<1>11. ASSUME NEW sid \in Nat, NEW d \in H2!Directions
       PROVE  /\ H2NoLater(H2Entry(h2Streams', <<t, sid>>).body[d], h2Pos'[c])
              /\ d \notin H2Entry(h2Streams', <<t, sid>>).emitted =>
                   \A i \in H2SaidOf(<<t, sid>>, d)' :
                     H2Later(H2Entry(h2Streams', <<t, sid>>).body[d], h2Messages'[i].by[2])
  BY H2OwnTwiceKeys
<1> QED
  BY <1>8, <1>9, <1>10, <1>11 DEF H2TwiceAt

\* A side that has ended has its message, if the record's connection is in step.
LEMMA H2OwnEnd ==
  ASSUME H2Kept, H2Pended, NEW c \in H2Conns, NEW t \in H2Threads, H2!Receive(c, t),
         H2Quiet(c, t), H2InStep(c, t), H2EndAt(c, t)
  PROVE  H2EndAt(c, t)'
<1>1. PICK n, k : n = h2Pos[c] + 1 /\ k = H2!Key(t, <<c, n>>)
  OBVIOUS
<1> DEFINE f == <<c, n>>
<1>2. /\ n \in 1 .. Len(h2Traffic[c].frames) /\ h2Traffic' = h2Traffic /\ h2Pos'[c] = n
      /\ H2Ignored(f) \/ \E state, d, ends : H2Handled(c, t, f, state, d, ends)
  BY <1>1, H2ReceiveIs DEF H2Kept, H2Shape
<1>3. h2Pos[c] \in Nat
  BY DEF H2Kept, H2Shape
<1>4. \A x : H2!Frame(x)' = H2!Frame(x) /\ (H2!Ending(x)' <=> H2!Ending(x))
  BY <1>2, H2EndingStays
<1>5. \A j, side : H2SaidOf(j, side) \subseteq H2SaidOf(j, side)'
  BY H2MessagesAfter, H2SaidGrows DEF H2Kept
<1>6. k = <<t, H2!Frame(f).sid>>
  BY <1>1 DEF H2!Key
<1> HIDE DEF f
<1>7. ASSUME H2!Ending(f)
      PROVE  H2SaidOf(<<t, H2!Frame(f).sid>>, H2!Frame(f).dir)' # {}
  <2>1. ~H2Ignored(f)
    <3>1. SUFFICES ASSUME H2Ignored(f)
                   PROVE  FALSE
      OBVIOUS
    <3>2. H2!Frame(f).type = "headers" /\ ~H2!Decodes(H2!Frame(f).dir, f)
      BY <1>7, <3>1 DEF H2Ignored, H2!Ending
    <3>3. H2BlockOf(t, f, H2!Frame(f).dir, f)
      BY <3>2 DEF H2BlockOf
    <3>4. H2!Decodes(H2!Frame(f).dir, f)
      BY <1>1, <1>2, <3>3, H2Decoded DEF H2Kept, f
    <3> QED
      BY <3>2, <3>4
  <2>2. PICK state, d, ends : H2Handled(c, t, f, state, d, ends)
    BY <1>2, <2>1
  <2>3. ends /\ d = H2!Frame(f).dir
    BY <1>7, <2>2 DEF H2Handled, H2EndsFor
  <2>4. d \in H2After(state, d, ends).emitted
    <3>1. H2After(state, d, ends).emitted
            = H2Entry(h2Streams, H2!Key(t, f)).emitted
                \cup (IF H2Emits(state, d, ends) THEN {d} ELSE {})
      BY <2>2, H2HandledIs DEF H2Kept
    <3>2. state.emitted = H2Entry(h2Streams, H2!Key(t, f)).emitted
      BY <2>2 DEF H2Handled
    <3> QED
      BY <2>3, <3>1, <3>2 DEF H2Emits
  <2>5. k = H2!Key(t, f)
    BY <1>1 DEF f
  <2>6. H2SaidOf(k, d)' # {}
    BY <2>2, <2>4, <2>5, H2SaidNow
  <2>7. H2SaidOf(k, H2!Frame(f).dir)' # {}
    BY <1>4, <2>3, <2>6
  <2> QED
    BY <1>4, <1>6, <2>7
<1>8. ASSUME NEW i \in 1 .. n, H2!Ending(<<c, i>>)
      PROVE  H2SaidOf(<<t, H2!Frame(<<c, i>>).sid>>, H2!Frame(<<c, i>>).dir)' # {}
  <2>1. CASE i = n
    BY <1>7, <1>8, <2>1 DEF f
  <2>2. CASE i # n
    <3>1. i \in 1 .. h2Pos[c]
      BY <1>1, <1>3, <2>2
    <3>2. PICK j, side : /\ j = <<t, H2!Frame(<<c, i>>).sid>> /\ side = H2!Frame(<<c, i>>).dir
      OBVIOUS
    <3>3. H2SaidOf(j, side) # {}
      BY <1>8, <3>1, <3>2 DEF H2EndAt
    <3>4. H2SaidOf(j, side)' # {}
      BY <1>5, <3>3
    <3> QED
      BY <1>4, <3>2, <3>4
  <2> QED
    BY <2>1, <2>2
<1> QED
  BY <1>2, <1>4, <1>8 DEF H2EndAt

\* The keys and messages of a thread that a step does not touch
LEMMA H2EndedStays ==
  ASSUME H2Kept, NEW e \in H2Conns, NEW u \in H2Threads, h2Traffic' = h2Traffic,
         h2Pos'[e] = h2Pos[e], Len(h2Messages') \in Nat,
         \A i \in 1 .. Len(h2Messages) : i \in 1 .. Len(h2Messages') /\ h2Messages'[i] = h2Messages[i],
         \A i \in 1 .. Len(h2Messages') : i \notin 1 .. Len(h2Messages) => h2Messages'[i].key[1] # u,
         \A sid : H2Entry(h2Streams', <<u, sid>>) = H2Entry(h2Streams, <<u, sid>>)
  PROVE  /\ H2TwiceAt(e, u) => H2TwiceAt(e, u)'
         /\ H2EndAt(e, u) => H2EndAt(e, u)'
<1>1. \A x : H2!Frame(x)' = H2!Frame(x) /\ (H2!Ending(x)' <=> H2!Ending(x))
  BY H2EndingStays
<1>2. \A sid, d : H2SaidOf(<<u, sid>>, d)' = H2SaidOf(<<u, sid>>, d)
  <2> TAKE sid, d
  <2>1. <<u, sid>>[1] = u
    OBVIOUS
  <2> QED
    BY <2>1 DEF H2SaidOf
<1>3. \A i \in 1 .. Len(h2Messages') : h2Messages'[i].key[1] = u =>
        i \in 1 .. Len(h2Messages) /\ h2Messages'[i] = h2Messages[i]
  OBVIOUS
<1>4. ASSUME NEW i \in 1 .. Len(h2Messages'), h2Messages'[i].key[1] = u
      PROVE  H2!Ending(h2Messages[i].by)' <=> H2!Ending(h2Messages[i].by)
  <2>1. PICK x : x = h2Messages'[i].by /\ x = h2Messages[i].by
    BY <1>3, <1>4
  <2>2. H2!Ending(x)' <=> H2!Ending(h2Messages[i].by)'
    BY <2>1 DEF H2!Ending, H2!Frame
  <2> QED
    BY <1>1, <2>1, <2>2
<1>5. ASSUME H2TwiceAt(e, u)
      PROVE  H2TwiceAt(e, u)'
  <2>1. ASSUME NEW sid \in Nat, NEW d \in H2!Directions
        PROVE  /\ H2NoLater(H2Entry(h2Streams', <<u, sid>>).body[d], h2Pos'[e])
               /\ d \notin H2Entry(h2Streams', <<u, sid>>).emitted =>
                    \A i \in H2SaidOf(<<u, sid>>, d)' :
                      H2Later(H2Entry(h2Streams', <<u, sid>>).body[d], h2Messages'[i].by[2])
    <3>1. \A i \in H2SaidOf(<<u, sid>>, d) : h2Messages'[i] = h2Messages[i]
      BY DEF H2SaidOf
    <3> QED
      BY <1>2, <1>5, <3>1 DEF H2TwiceAt
  <2>2. \A i \in 1 .. Len(h2Messages') : h2Messages'[i].key[1] = u =>
          H2NoLater(h2Messages'[i].body, h2Messages'[i].by[2])
    BY <1>3, <1>5 DEF H2TwiceAt
  <2>3. ASSUME NEW i \in 1 .. Len(h2Messages'), NEW j \in 1 .. Len(h2Messages'), i < j,
               h2Messages'[i].key[1] = u, h2Messages'[i].key = h2Messages'[j].key,
               h2Messages'[i].dir = h2Messages'[j].dir
        PROVE  /\ H2Later(h2Messages'[j].body, h2Messages'[i].by[2])
               /\ ~H2!Ending(h2Messages[i].by)' /\ H2!Ending(h2Messages[j].by)'
    <3>1. /\ i \in 1 .. Len(h2Messages) /\ h2Messages'[i] = h2Messages[i]
          /\ j \in 1 .. Len(h2Messages) /\ h2Messages'[j] = h2Messages[j]
      BY <1>3, <2>3
    <3>2. /\ H2Later(h2Messages[j].body, h2Messages[i].by[2])
          /\ ~H2!Ending(h2Messages[i].by) /\ H2!Ending(h2Messages[j].by)
      BY <1>5, <2>3, <3>1 DEF H2TwiceAt
    <3> QED
      BY <1>4, <2>3, <3>1, <3>2
  <2> QED
    BY <2>1, <2>2, <2>3 DEF H2TwiceAt
<1>6. ASSUME H2EndAt(e, u)
      PROVE  H2EndAt(e, u)'
  <2>1. ASSUME NEW n \in 1 .. h2Pos[e], H2!Ending(<<e, n>>)
        PROVE  H2SaidOf(<<u, H2!Frame(<<e, n>>).sid>>, H2!Frame(<<e, n>>).dir)' # {}
    <3>1. PICK sid, d : sid = H2!Frame(<<e, n>>).sid /\ d = H2!Frame(<<e, n>>).dir
      OBVIOUS
    <3>2. H2SaidOf(<<u, sid>>, d) # {}
      BY <1>6, <2>1, <3>1 DEF H2EndAt
    <3>3. H2SaidOf(<<u, sid>>, d)' # {}
      BY <1>2, <3>2
    <3>4. sid = H2!Frame(<<e, n>>)'.sid /\ d = H2!Frame(<<e, n>>)'.dir
      BY <1>1, <3>1
    <3> QED
      BY <3>3, <3>4
  <2> QED
    BY <1>1, <2>1 DEF H2EndAt
<1> QED
  BY <1>5, <1>6

LEMMA H2OthersEnded ==
  ASSUME H2Kept, NEW c \in H2Conns, NEW t \in H2Threads, H2!Receive(c, t),
         NEW e \in H2Conns \ {c}, NEW u \in H2Threads, u # t, H2Quiet(e, u)'
  PROVE  /\ H2TwiceAt(e, u) => H2TwiceAt(e, u)'
         /\ H2EndAt(e, u) => H2EndAt(e, u)'
<1>1. PICK f, k : f = <<c, h2Pos[c] + 1>> /\ k = H2!Key(t, f) /\ k[1] = t
  <2>1. PICK f : f = <<c, h2Pos[c] + 1>>
    OBVIOUS
  <2>2. H2!Key(t, f)[1] = t
    BY DEF H2!Key
  <2> QED
    BY <2>1, <2>2
<1>2. /\ h2Traffic' = h2Traffic /\ h2Pos'[e] = h2Pos[e]
      /\ H2Ignored(f) \/ \E state, d, ends : H2Handled(c, t, f, state, d, ends)
  BY <1>1, H2ReceiveIs DEF H2Kept, H2Shape
<1>3. /\ Len(h2Messages') \in Nat
      /\ \A i \in 1 .. Len(h2Messages) : i \in 1 .. Len(h2Messages') /\ h2Messages'[i] = h2Messages[i]
  <2>1. /\ Len(h2Messages) \in Nat /\ Len(h2Messages') \in Nat
        /\ Len(h2Messages) <= Len(h2Messages')
        /\ \A i \in 1 .. Len(h2Messages) : h2Messages'[i] = h2Messages[i]
    BY H2MessagesAfter, H2SaidGrows DEF H2Kept
  <2>2. \A i \in 1 .. Len(h2Messages) : i \in 1 .. Len(h2Messages')
    BY <2>1
  <2> QED
    BY <2>1, <2>2
<1>4. ASSUME NEW i \in 1 .. Len(h2Messages'), i \notin 1 .. Len(h2Messages)
      PROVE  h2Messages'[i].key[1] # u
  <2>1. \E state, d, ends : h2Messages'[i] = H2Message(k, state, d, f)
    BY <1>1, <1>4, H2MessagesAfter
  <2>2. h2Messages'[i].key = k
    BY <2>1 DEF H2Message
  <2> QED
    BY <1>1, <2>2
<1>5. ASSUME NEW sid
      PROVE  H2Entry(h2Streams', <<u, sid>>) = H2Entry(h2Streams, <<u, sid>>)
  <2>1. CASE H2Ignored(f)
    BY <2>1 DEF H2Ignored
  <2>2. ASSUME NEW state, NEW d, NEW ends, H2Handled(c, t, f, state, d, ends)
        PROVE  H2Entry(h2Streams', <<u, sid>>) = H2Entry(h2Streams, <<u, sid>>)
    <3>1. H2!Finish(k, state, d, f, ends)
      BY <1>1, <2>2 DEF H2Handled
    <3>2. <<u, sid>> # k /\ <<u, sid>> \notin h2Dropped'.keys
      BY <1>1 DEF H2Quiet
    <3> QED
      BY <3>1, <3>2, H2FinishIs DEF H2Kept
  <2> QED
    BY <1>2, <2>1, <2>2
<1> QED
  BY <1>2, <1>3, <1>4, <1>5, H2EndedStays

LEMMA H2ReceiveEnded ==
  ASSUME H2LoudKept, H2Because, H2Ended, NEW c \in H2Conns, NEW t \in H2Threads, H2!Receive(c, t)
  PROVE  H2Ended'
<1> USE DEF H2LoudKept
<1>0. H2Kept /\ H2Shape
  BY DEF H2Kept
<1>1. ASSUME NEW e \in H2Conns, NEW u \in H2Threads, H2Quiet(e, u)'
      PROVE  /\ H2TwiceAt(e, u)'
             /\ H2!Synchronous(e)' => H2EndAt(e, u)'
  <2>1. H2Quiet(e, u) /\ (u = t <=> e = c)
    BY <1>0, <1>1, H2QuietBefore
  <2>2. H2TwiceAt(e, u)
    BY <2>1 DEF H2Ended
  <2>3. ASSUME H2!Synchronous(e)'
        PROVE  H2InStep(e, u) /\ H2EndAt(e, u)
    <3>1. H2!Synchronous(e)
      BY <1>0, <2>3, H2SynchronousBefore
    <3> QED
      BY <2>1, <3>1 DEF H2Decoding, H2Ended
  <2>4. CASE e = c
    <3>1. u = t /\ H2Quiet(c, t) /\ H2Quiet(c, t)' /\ H2TwiceAt(c, t)
      BY <1>1, <2>1, <2>2, <2>4
    <3>2. H2TwiceAt(c, t)'
      BY <1>0, <3>1, H2OwnTwice
    <3>3. ASSUME H2!Synchronous(c)'
          PROVE  H2EndAt(c, t)'
      <4>1. H2InStep(c, t) /\ H2EndAt(c, t)
        BY <2>3, <2>4, <3>1, <3>3
      <4> QED
        BY <1>0, <3>1, <4>1, H2OwnEnd
    <3> QED
      BY <2>4, <3>1, <3>2, <3>3
  <2>5. CASE e # c
    BY <1>0, <1>1, <2>1, <2>2, <2>3, <2>5, H2OthersEnded
  <2> QED
    BY <2>4, <2>5
<1> QED
  BY <1>1 DEF H2Ended

\* A message's key is a pair, and its body frames.
H2Plain ==
  \A i \in 1 .. Len(h2Messages) :
    /\ h2Messages[i].key = <<h2Messages[i].key[1], h2Messages[i].key[2]>>
    /\ \A l \in DOMAIN h2Messages[i].body : h2Messages[i].body[l][2] \in Nat

LEMMA H2PlainKeeps ==
  ASSUME H2Kept, H2Plain, NEW c \in H2Conns, NEW t \in H2Threads, H2!Receive(c, t)
  PROVE  H2Plain'
<1>1. PICK f : f = <<c, h2Pos[c] + 1>>
  OBVIOUS
<1>2. \A i \in 1 .. Len(h2Messages) : h2Messages'[i] = h2Messages[i]
  BY H2MessagesAfter, H2SaidGrows DEF H2Kept
<1>3. ASSUME NEW i \in 1 .. Len(h2Messages'), NEW m, m = h2Messages'[i]
      PROVE  m.key = <<m.key[1], m.key[2]>> /\ \A l \in DOMAIN m.body : m.body[l][2] \in Nat
  <2>1. CASE i \in 1 .. Len(h2Messages)
    BY <1>2, <1>3, <2>1 DEF H2Plain
  <2>2. CASE i \notin 1 .. Len(h2Messages)
    <3>1. PICK state, d, ends :
                 /\ H2Handled(c, t, f, state, d, ends)
                 /\ m = H2Message(H2!Key(t, f), state, d, f)
      BY <1>1, <1>3, <2>2, H2MessagesAfter
    <3>2. m.key = H2!Key(t, f) /\ m.body = state.body[d]
      BY <3>1 DEF H2Message
    <3>3. state.body \in [H2!Directions -> Seq(H2Conns \X Nat)] /\ d \in H2!Directions
      BY <3>1 DEF H2Handled, H2State, H2Bodies
    <3>4. PICK body : body = state.body[d] /\ body \in Seq(H2Conns \X Nat)
      BY <3>3
    <3>5. \A l \in DOMAIN body : body[l] \in H2Conns \X Nat
      BY <3>4
    <3>6. m.key = <<m.key[1], m.key[2]>>
      BY <3>2 DEF H2!Key
    <3> QED
      BY <3>2, <3>4, <3>5, <3>6
  <2> QED
    BY <2>1, <2>2
<1> QED
  BY <1>3 DEF H2Plain

H2AllKept == H2LoudKept /\ H2Because /\ H2Plain /\ H2Ended

LEMMA H2AllStepKeeps ==
  ASSUME H2AllKept, [ReassemblyNext]_<<part, vars, h2Vars>>
  PROVE  H2AllKept'
<1>0. H2LoudKept /\ H2Because /\ H2Plain /\ H2Ended /\ H2Kept /\ H2Shape
  BY DEF H2AllKept, H2LoudKept, H2Kept
<1>1. H2LoudKept'
  BY <1>0, H2LoudStepKeeps
<1>2. ASSUME h2Traffic' = h2Traffic, h2Messages' = h2Messages, h2Streams' = h2Streams,
             \A e \in H2Conns, u \in H2Threads : H2Quiet(e, u)' =>
               H2Quiet(e, u) /\ h2Pos'[e] = h2Pos[e],
             \A e \in H2Conns : H2!Synchronous(e)' => H2!Synchronous(e)
      PROVE  H2AllKept'
  <2>1. H2Because'
    <3>1. \A x : H2!Frame(x)' = H2!Frame(x) /\ (H2!Ending(x)' <=> H2!Ending(x))
      BY <1>2, H2EndingStays
    <3>2. ASSUME NEW i \in 1 .. Len(h2Messages)
          PROVE  LET g == h2Messages'[i].by
                 IN  /\ g = <<g[1], g[2]>> /\ g[2] \in 1 .. Len(h2Traffic'[g[1]].frames)
                     /\ H2!Frame(h2Messages[i].by)'.dir = h2Messages'[i].dir
                     /\ \/ H2!Ending(h2Messages[i].by)'
                        \/ /\ H2!Frame(h2Messages[i].by)'.type = "data"
                           /\ H2!Frame(h2Messages[i].by)'.json
      <4>1. PICK g : g = h2Messages[i].by /\ g = h2Messages'[i].by
        BY <1>2
      <4>2. H2!Frame(g)' = H2!Frame(h2Messages[i].by)'
            /\ (H2!Ending(g)' = H2!Ending(h2Messages[i].by)')
        BY <4>1 DEF H2!Frame, H2!Ending
      <4>3. /\ g = <<g[1], g[2]>> /\ g[2] \in 1 .. Len(h2Traffic[g[1]].frames)
            /\ H2!Frame(g).dir = h2Messages[i].dir
            /\ H2!Ending(g) \/ (H2!Frame(g).type = "data" /\ H2!Frame(g).json)
        BY <1>0, <4>1 DEF H2Because
      <4> QED
        BY <1>2, <3>1, <4>1, <4>2, <4>3
    <3> QED
      BY <1>2, <3>2 DEF H2Because
  <2>2. H2Plain'
    BY <1>0, <1>2 DEF H2Plain
  <2>3. ASSUME NEW e \in H2Conns, NEW u \in H2Threads, H2Quiet(e, u)'
        PROVE  H2TwiceAt(e, u)' /\ (H2!Synchronous(e)' => H2EndAt(e, u)')
    <3>1. H2Quiet(e, u) /\ h2Pos'[e] = h2Pos[e]
      BY <1>2, <2>3
    <3>2. /\ Len(h2Messages') \in Nat
          /\ \A i \in 1 .. Len(h2Messages) : i \in 1 .. Len(h2Messages') /\ h2Messages'[i] = h2Messages[i]
          /\ \A i \in 1 .. Len(h2Messages') : i \notin 1 .. Len(h2Messages) => h2Messages'[i].key[1] # u
          /\ \A sid : H2Entry(h2Streams', <<u, sid>>) = H2Entry(h2Streams, <<u, sid>>)
      BY <1>0, <1>2 DEF H2Kept, H2MessagesBy
    <3>3. H2TwiceAt(e, u) /\ (H2!Synchronous(e) => H2EndAt(e, u))
      BY <1>0, <3>1 DEF H2Ended
    <3>4. /\ H2TwiceAt(e, u) => H2TwiceAt(e, u)'
          /\ H2EndAt(e, u) => H2EndAt(e, u)'
      BY <1>0, <1>2, <3>1, <3>2, H2EndedStays
    <3> QED
      BY <1>2, <3>3, <3>4
  <2> QED
    BY <1>1, <2>1, <2>2, <2>3 DEF H2AllKept, H2Ended
<1>3. CASE UNCHANGED h2Vars
  <2>1. /\ UNCHANGED <<h2Traffic, h2Pos, h2Table, h2Streams>> /\ UNCHANGED <<h2Pending, h2Ran, h2Dropped>>
        /\ h2Messages' = h2Messages
    BY <1>3 DEF h2Vars
  <2>2. \A e \in H2Conns, u \in H2Threads : H2Quiet(e, u)' => H2Quiet(e, u)
    BY <2>1 DEF H2Quiet
  <2>3. \A e \in H2Conns : H2!Synchronous(e)' => H2!Synchronous(e)
    BY <2>1 DEF H2!Synchronous
  <2> QED
    BY <1>2, <2>1, <2>2, <2>3
<1>4. ASSUME NEW c \in H2Conns, H2!Lose(c)
      PROVE  H2AllKept'
  <2>1. /\ h2Pos' = [h2Pos EXCEPT ![c] = h2Pos[c] + 1]
        /\ h2Dropped' = [h2Dropped EXCEPT !.conns = @ \cup {c}]
        /\ UNCHANGED <<h2Traffic, h2Table, h2Streams, h2Pending, h2Messages, h2Ran>>
    BY <1>4 DEF H2!Lose
  <2>2. h2Dropped' = [conns |-> h2Dropped.conns \cup {c}, keys |-> h2Dropped.keys,
                      blocks |-> h2Dropped.blocks]
    BY <1>0, <2>1 DEF H2Shape
  <2>3. ASSUME NEW e \in H2Conns, NEW u \in H2Threads, H2Quiet(e, u)'
        PROVE  H2Quiet(e, u) /\ h2Pos'[e] = h2Pos[e]
    <3>1. e # c /\ H2Quiet(e, u)
      BY <2>1, <2>2, <2>3 DEF H2Quiet
    <3> QED
      BY <1>0, <2>1, <3>1 DEF H2Shape
  <2>4. \A e \in H2Conns : ~H2!Synchronous(e)'
    BY <1>0, <1>4, H2NoneSynchronous
  <2> QED
    BY <1>2, <2>1, <2>3, <2>4
<1>5. ASSUME NEW c \in H2Conns, NEW t \in h2Traffic[c].threads, H2!Receive(c, t)
      PROVE  H2AllKept'
  <2>1. t \in H2Threads
    BY <1>0, H2Assumed DEF H2Shape
  <2>2. H2Because' /\ H2Plain'
    BY <1>0, <1>5, <2>1, H2BecauseKeeps, H2PlainKeeps
  <2>3. H2Ended'
    BY <1>0, <1>5, <2>1, H2ReceiveEnded
  <2> QED
    BY <1>1, <2>2, <2>3 DEF H2AllKept
<1>6. CASE H2!Next
  BY <1>4, <1>5, <1>6 DEF H2!Next
<1> QED
  BY <1>3, <1>6 DEF ReassemblyNext

LEMMA H2InitAll == H2!Init => H2AllKept
<1> SUFFICES ASSUME H2!Init
             PROVE  H2Because /\ H2Plain /\ H2Ended
  BY H2InitLoud DEF H2AllKept
<1>1. /\ DOMAIN h2Streams = {} /\ h2Messages = << >> /\ Len(h2Messages) = 0
      /\ \A c \in H2Conns : h2Pos[c] = 0
  BY DEF H2!Init
<1>2. \A k : \A d \in H2!Directions : H2Entry(h2Streams, k).body[d] = << >>
  BY <1>1, H2EmptyIs DEF H2Entry
<1>3. H2Because /\ H2Plain
  BY <1>1 DEF H2Because, H2Plain
<1>4. \A c \in H2Conns, t \in H2Threads : H2TwiceAt(c, t)
  BY <1>1, <1>2 DEF H2TwiceAt, H2NoLater, H2Later
<1>5. \A c \in H2Conns, t \in H2Threads : H2EndAt(c, t)
  BY <1>1 DEF H2EndAt
<1> QED
  BY <1>3, <1>4, <1>5 DEF H2Ended

\* The messages of a side are those of its key.
LEMMA H2MessagesOfKey ==
  ASSUME H2AllKept, NEW c \in H2Conns, NEW t, h2Ran[c] = {t}, H2Quiet(c, t), NEW sid, NEW d
  PROVE  H2!MessagesOf(c, sid, d) = H2SaidOf(<<t, sid>>, d)
<1>0. H2MessagesBy /\ H2Plain
  BY DEF H2AllKept, H2LoudKept, H2Kept
<1>1. DOMAIN h2Messages = 1 .. Len(h2Messages)
  BY <1>0 DEF H2MessagesBy
<1>2. ASSUME NEW i \in 1 .. Len(h2Messages)
      PROVE  (h2Messages[i].by[1] = c /\ H2!Frame(h2Messages[i].by).sid = sid)
               <=> h2Messages[i].key = <<t, sid>>
  <2>1. PICK m : m = h2Messages[i]
    OBVIOUS
  <2>2. /\ m.key = <<m.key[1], m.key[2]>> /\ m.key[2] = H2!Frame(m.by).sid
        /\ m.key[1] \in h2Ran[m.by[1]]
    BY <1>0, <2>1 DEF H2MessagesBy, H2SaidBy, H2Plain
  <2>3. m.by[1] = c /\ H2!Frame(m.by).sid = sid => m.key = <<t, sid>>
    BY <2>2
  <2>4. m.key = <<t, sid>> => m.by[1] = c /\ H2!Frame(m.by).sid = sid
    <3>1. m.key = <<t, sid>> => m.key[1] = t /\ m.key[2] = sid
      OBVIOUS
    <3> QED
      BY <1>0, <2>1, <2>2, <3>1, H2SaidHere
  <2> QED
    BY <2>1, <2>3, <2>4
<1> QED
  BY <1>1, <1>2 DEF H2!MessagesOf, H2SaidOf

\* The record by which a side's message was created has been sent on it.
LEMMA H2BySent ==
  ASSUME H2AllKept, NEW c \in H2Conns, NEW t, h2Ran[c] = {t}, H2Quiet(c, t), NEW sid, NEW d,
         NEW i \in H2SaidOf(<<t, sid>>, d)
  PROVE  LET f == h2Messages[i].by
         IN  /\ f \in H2!Sent(c, sid, d) /\ f[2] \in Nat
             /\ H2!Ending(f) \/ (H2!Frame(f).type = "data" /\ H2!Frame(f).json)
<1>0. H2MessagesBy /\ H2Because /\ H2Shape
  BY DEF H2AllKept, H2LoudKept, H2Kept
<1>1. PICK f : f = h2Messages[i].by
  OBVIOUS
<1>2. /\ i \in 1 .. Len(h2Messages) /\ h2Messages[i].key[1] = t
      /\ h2Messages[i].key[2] = sid /\ h2Messages[i].dir = d
  BY DEF H2SaidOf
<1>3. f[1] = c /\ f[2] \in Nat /\ f[2] <= h2Pos[c]
  BY <1>0, <1>1, <1>2, H2SaidHere
<1>4. /\ f = <<f[1], f[2]>> /\ f[2] \in 1 .. Len(h2Traffic[f[1]].frames)
      /\ H2!Frame(f).dir = d /\ H2!Frame(f).sid = sid
      /\ H2!Ending(f) \/ (H2!Frame(f).type = "data" /\ H2!Frame(f).json)
  BY <1>0, <1>1, <1>2 DEF H2Because, H2MessagesBy, H2SaidBy
<1>5. f[2] \in 1 .. h2Pos[c]
  BY <1>0, <1>3, <1>4 DEF H2Shape
<1>6. f \in {c} \X (1 .. h2Pos[c])
  BY <1>3, <1>4, <1>5
<1>7. f \in H2!Sent(c, sid, d)
  BY <1>4, <1>6 DEF H2!Sent
<1> QED
  BY <1>1, <1>3, <1>4, <1>7

LEMMA H2EndedIsEmitted == H2AllKept => H2!EndedIsEmitted
<1> SUFFICES ASSUME H2AllKept, NEW c \in H2Conns, H2!Intact(c), NEW n \in 1 .. h2Pos[c],
                    NEW sid, sid = H2!Frame(<<c, n>>).sid, NEW d \in H2!Directions
             PROVE  LET ended == \E f \in H2!Sent(c, sid, d) : H2!Ending(f)
                        early == \E f \in H2!Sent(c, sid, d) :
                                   H2!Frame(f).type = "data" /\ H2!Frame(f).json
                        out == H2!MessagesOf(c, sid, d)
                    IN  /\ (ended /\ H2!Synchronous(c)) => out # {}
                        /\ out # {} => ended \/ early
                        /\ H2!Cardinality(out) > 1 => early /\ H2!Cardinality(out) = 2
                        /\ \A i, j \in out : i # j =>
                             H2!ToSet(h2Messages[i].body) \cap H2!ToSet(h2Messages[j].body) = {}
  BY DEF H2!EndedIsEmitted
<1>0. H2MessagesBy /\ H2Ended /\ H2Shape /\ H2Plain
  BY DEF H2AllKept, H2LoudKept, H2Kept
<1>1. PICK t : h2Ran[c] = {t}
  <2>1. h2Ran[c] \in SUBSET H2Threads /\ IsFiniteSet(h2Ran[c])
    BY <1>0 DEF H2Shape
  <2> QED
    BY <2>1, FS_Singleton, H2Words DEF H2!Intact, H2!Apart
<1>2. H2Quiet(c, t) /\ t \in H2Threads
  BY <1>0, <1>1, H2IntactIs
<1>3. H2TwiceAt(c, t) /\ (H2!Synchronous(c) => H2EndAt(c, t))
  BY <1>0, <1>2 DEF H2Ended
<1> DEFINE ended == \E f \in H2!Sent(c, sid, d) : H2!Ending(f)
           early == \E f \in H2!Sent(c, sid, d) : H2!Frame(f).type = "data" /\ H2!Frame(f).json
           out == H2SaidOf(<<t, sid>>, d)
<1>4. H2!MessagesOf(c, sid, d) = out
  BY <1>1, <1>2, H2MessagesOfKey
<1>5. \A i \in out : /\ h2Messages[i].by \in H2!Sent(c, sid, d) /\ h2Messages[i].by[2] \in Nat
                     /\ \/ H2!Ending(h2Messages[i].by)
                        \/ H2!Frame(h2Messages[i].by).type = "data" /\ H2!Frame(h2Messages[i].by).json
  BY <1>1, <1>2, H2BySent
<1>6. \A i \in out : /\ i \in 1 .. Len(h2Messages) /\ h2Messages[i].key = <<t, sid>>
                     /\ h2Messages[i].dir = d /\ h2Messages[i].key[1] = t
  BY DEF H2SaidOf
<1>7. \A i, j \in out : i < j =>
        /\ H2Later(h2Messages[j].body, h2Messages[i].by[2])
        /\ ~H2!Ending(h2Messages[i].by) /\ H2!Ending(h2Messages[j].by)
  BY <1>3, <1>6 DEF H2TwiceAt
<1>8. out \subseteq Nat /\ IsFiniteSet(out)
  <2>1. Len(h2Messages) \in Nat
    BY <1>0 DEF H2MessagesBy
  <2>2. out \subseteq 1 .. Len(h2Messages)
    BY DEF H2SaidOf
  <2> QED
    <3>1. IsFiniteSet(1 .. Len(h2Messages))
      BY <2>1, FS_Interval
    <3>2. 1 .. Len(h2Messages) \subseteq Nat
      BY <2>1
    <3> QED
      BY <2>2, <3>1, <3>2, FS_Subset
<1>9. (ended /\ H2!Synchronous(c)) => out # {}
  <2> SUFFICES ASSUME H2!Synchronous(c), NEW f \in H2!Sent(c, sid, d), H2!Ending(f)
               PROVE  out # {}
    OBVIOUS
  <2>1. f \in {c} \X (1 .. h2Pos[c]) /\ H2!Frame(f).sid = sid /\ H2!Frame(f).dir = d
    BY DEF H2!Sent
  <2>2. PICK l \in 1 .. h2Pos[c] : f = <<c, l>>
    BY <2>1
  <2> QED
    BY <1>3, <2>1, <2>2 DEF H2EndAt
<1>10. out # {} => ended \/ early
  BY <1>5
<1>11. Cardinality(out) > 1 => early /\ Cardinality(out) = 2
  <2> SUFFICES ASSUME Cardinality(out) > 1
               PROVE  early /\ Cardinality(out) = 2
    OBVIOUS
  <2> HIDE DEF out, early
  <2>1. out # {} /\ \A x : out # {x}
    <3>1. out # {}
      <4>1. Cardinality({}) = 0
        BY FS_EmptySet
      <4>2. ~(0 > 1)
        OBVIOUS
      <4> QED
        BY <4>1, <4>2
    <3>2. \A x : out # {x}
      <4>1. \A x : Cardinality({x}) = 1
        BY FS_Singleton
      <4>2. ~(1 > 1)
        OBVIOUS
      <4> QED
        BY <4>1, <4>2
    <3> QED
      BY <3>1, <3>2
  <2>2. PICK i, j : i \in out /\ j \in out /\ i < j
    <3>1. PICK x \in out : TRUE
      BY <2>1
    <3>2. PICK y \in out : y # x
      BY <2>1, <3>1
    <3> QED
      BY <1>8, <3>1, <3>2
  <2>3. out = {i, j}
    <3> SUFFICES ASSUME NEW k \in out, k # i, k # j
                 PROVE  FALSE
      BY <2>2
    <3>1. k < i \/ (i < k /\ k < j) \/ j < k
      BY <1>8, <2>2
    <3> QED
      BY <1>7, <2>2, <3>1
  <2>4. early
    BY <1>5, <1>7, <2>2 DEF early
  <2>5. Cardinality({i} \cup {j}) = 2
    <3>1. IsFiniteSet({i}) /\ Cardinality({i}) = 1
      BY FS_Singleton
    <3>2. j \notin {i}
      BY <1>8, <2>2
    <3>3. Cardinality({i} \cup {j}) = Cardinality({i}) + 1
      BY <3>1, <3>2, FS_AddElement
    <3> QED
      BY <3>1, <3>3
  <2>6. {i} \cup {j} = out
    BY <2>3
  <2> QED
    BY <2>4, <2>5, <2>6
<1>12. ASSUME NEW i \in out, NEW j \in out, i < j
       PROVE  \A k \in DOMAIN h2Messages[i].body, l \in DOMAIN h2Messages[j].body :
                h2Messages[i].body[k] # h2Messages[j].body[l]
  <2>1. H2Later(h2Messages[j].body, h2Messages[i].by[2])
    BY <1>7, <1>12
  <2>2. H2NoLater(h2Messages[i].body, h2Messages[i].by[2])
    BY <1>3, <1>6 DEF H2TwiceAt
  <2>3. \A k \in DOMAIN h2Messages[i].body : h2Messages[i].body[k][2] \in Nat
    BY <1>0, <1>6 DEF H2Plain
  <2>4. h2Messages[i].by[2] \in Nat
    BY <1>5
  <2>5. ASSUME NEW k \in DOMAIN h2Messages[i].body, NEW l \in DOMAIN h2Messages[j].body,
               NEW x, x = h2Messages[i].body[k][2], x = h2Messages[j].body[l][2]
        PROVE  FALSE
    <3>1. PICK p : p = h2Messages[i].by[2]
      OBVIOUS
    <3>2. x \in Nat /\ p \in Nat /\ x <= p /\ p < x
      BY <2>1, <2>2, <2>3, <2>4, <2>5, <3>1 DEF H2Later, H2NoLater
    <3> QED
      BY <3>2
  <2> QED
    BY <2>5
<1>13. \A i, j \in out : i # j =>
         H2!ToSet(h2Messages[i].body) \cap H2!ToSet(h2Messages[j].body) = {}
  <2> SUFFICES ASSUME NEW i \in out, NEW j \in out, i # j,
                      NEW k \in DOMAIN h2Messages[i].body, NEW l \in DOMAIN h2Messages[j].body,
                      h2Messages[i].body[k] = h2Messages[j].body[l]
               PROVE  FALSE
    BY H2Words
  <2>1. i < j \/ j < i
    BY <1>8
  <2> QED
    BY <1>12, <2>1
<1> QED
  BY <1>4, <1>9, <1>10, <1>11, <1>13, H2Words

\* Of a connection with a thread of its own, of which nothing was lost or evicted: each side of
\* a stream that has ended became one message, or two of which the first was a body of complete
\* JSON and the second repeats nothing of it; no other side did: the branch of
\* HTTP2State::handle_event that emits, with `emitted` and the removal of the state after it.
THEOREM EndsAreEmitted == ReassemblySpec => []EndedIsEmitted
<1>1. ReassemblyInit => H2AllKept
  BY H2InitAll DEF ReassemblyInit
<1>2. H2AllKept /\ [ReassemblyNext]_<<part, vars, h2Vars>> => H2AllKept'
  BY H2AllStepKeeps
<1>3. H2AllKept => EndedIsEmitted
  BY H2EndedIsEmitted DEF EndedIsEmitted
<1> QED
  BY <1>1, <1>2, <1>3, PTL DEF ReassemblySpec

=============================================================================
