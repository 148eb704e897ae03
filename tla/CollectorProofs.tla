--------------------------- MODULE CollectorProofs ---------------------------
(***************************************************************************)
(* Which response completes an LLM call and where its usage is counted,    *)
(* for any number of streams and requests, any limits, any order of the    *)
(* timestamps and any failures of the sinks.  And (names that begin with   *)
(* Mon) whose PID is in the file of the background monitor, for any number *)
(* of programs, failures, crashes and reboots.                             *)
(***************************************************************************)
EXTENDS Collector, FiniteSetTheorems, SequenceTheorems, WellFoundedInduction, TLAPS

Schemes == {"nobody", "server", "client"}
ExchangeTypes == [stream : Streams, scheme : Schemes, llm : BOOLEAN, open : BOOLEAN,
                  counted : BOOLEAN]
Waiting == [n : Nat, time : Nat]

Shape ==
  /\ traffic \in Traffics /\ exchange \in Seq(ExchangeTypes) /\ now \in Nat
  /\ \A n \in Exchanges : exchange[n].scheme \in traffic.schemes
  /\ ~traffic.others => \A n \in Exchanges : exchange[n].llm
  /\ traffic.sequential => \A m, n \in Exchanges :
       exchange[m].open /\ exchange[n].open /\ exchange[m].stream = exchange[n].stream => m = n

\* A row is of an exchange; one of a response alone, of one that is over.
RowsOfExchanges ==
  \A c \in DOMAIN calls \cup DOMAIN usage :
    \E n \in Exchanges : c = Call(n) \/ (c = Orphan(n) /\ ~exchange[n].open)

\* A request that waits is of its stream, and its row is pending, without usage.
Waits(s, r) ==
  /\ r.n \in Exchanges /\ r.time <= now /\ exchange[r.n].stream = s
  /\ Call(r.n) \in DOMAIN calls /\ calls[Call(r.n)] = None /\ Call(r.n) \notin DOMAIN usage

Members(queue) == {queue[i] : i \in 1 .. Len(queue)}

Distinct(queue) == \A i, j \in 1 .. Len(queue) : queue[i].n = queue[j].n => i = j

Queues(p) ==
  /\ p \in [Streams -> Seq(Waiting)]
  /\ \A s \in Streams :
       /\ Len(p[s]) <= MaxPending /\ Distinct(p[s])
       /\ \A r \in Members(p[s]) : Waits(s, r)

\* On a stream with one exchange at a time and sinks that do not fail, the
\* request whose response is due is the last that waits, or none does.
Latest(p) ==
  ~traffic.others /\ traffic.sequential /\ ~traffic.failing =>
    \A n \in Exchanges : exchange[n].open =>
      LET queue == p[exchange[n].stream] IN queue = <<>> \/ queue[Len(queue)].n = n

\* Usage that is counted is in one row, which the same response has completed
\* unless a sink has failed.
Counted ==
  /\ \A c \in DOMAIN usage : usage[c] \in Exchanges /\ exchange[usage[c]].counted
  /\ \A c, d \in DOMAIN usage : usage[c] = usage[d] => c = d
  /\ \A n \in Exchanges : exchange[n].counted =>
       ~exchange[n].open /\ \E c \in DOMAIN usage : usage[c] = n
  /\ ~traffic.failing => \A c \in DOMAIN usage : c \in DOMAIN calls /\ calls[c] = usage[c]

Kept == /\ Shape /\ RowsOfExchanges /\ Queues(pending) /\ Latest(pending) /\ Counted
        /\ OwnResponse

-----------------------------------------------------------------------------
\* A set of naturals that is not empty has a least element.
LEMMA LeastOf ==
  ASSUME NEW T, T \subseteq Nat, T # {}
  PROVE  \E x \in T : \A y \in T : x <= y
<1>1. IsWellFoundedOn(OpToRel(<, Nat), Nat)
  BY NatLessThanWellFounded
<1>2. PICK x \in T : \A y \in T : ~ (<<y, x>> \in OpToRel(<, Nat))
  BY <1>1, WFMin
<1>3. \A y \in T : ~ (y < x)
  BY <1>2 DEF OpToRel
<1> QED
  BY <1>3

\* Rows of different kinds, or of different exchanges, have different ids.
LEMMA RowsDiffer ==
  ASSUME NEW m, NEW n
  PROVE  Call(m) # Orphan(n) /\ (Call(m) = Call(n) => m = n) /\ (Orphan(m) = Orphan(n) => m = n)
BY DEF Call, Orphan

-----------------------------------------------------------------------------
\* What a queue keeps of another: its members in some order of their own, and
\* its last, or nothing.
KeptOf(queue, longer) ==
  /\ queue \in Seq(Waiting) /\ Len(queue) <= Len(longer)
  /\ Members(queue) \subseteq Members(longer)
  /\ Distinct(longer) => Distinct(queue)

\* The end of a queue.
LEMMA EndOf ==
  ASSUME NEW queue \in Seq(Waiting), NEW k \in 1 .. Len(queue)
  PROVE  LET rest == SubSeq(queue, k, Len(queue)) IN
           KeptOf(rest, queue) /\ Len(rest) = Len(queue) - k + 1 /\ rest # <<>>
             /\ rest[Len(rest)] = queue[Len(queue)]
<1> DEFINE n == Len(queue)
           rest == SubSeq(queue, k, n)
<1>1. n \in Nat /\ k \in Nat /\ k >= 1 /\ k <= n /\ \A i \in k .. n : queue[i] \in Waiting
  OBVIOUS
<1> HIDE DEF n
<1>2. /\ rest \in Seq(Waiting) /\ Len(rest) = n - k + 1
      /\ \A i \in 1 .. n - k + 1 : rest[i] = queue[k + i - 1]
  <2>1. /\ rest \in Seq(Waiting) /\ Len(rest) = IF k <= n THEN n - k + 1 ELSE 0
        /\ \A i \in 1 .. n - k + 1 : rest[i] = queue[k + i - 1]
    BY <1>1, SubSeqProperties
  <2> QED
    BY <1>1, <2>1
<1> HIDE DEF rest
<1>3. \A i \in 1 .. Len(rest) : k + i - 1 \in 1 .. n /\ rest[i] = queue[k + i - 1]
  BY <1>1, <1>2
<1>4. Len(rest) <= n /\ Len(rest) \in 1 .. Len(rest) /\ k + Len(rest) - 1 = n /\ Len(rest) # 0
  BY <1>1, <1>2
<1>5. rest # <<>> /\ rest[Len(rest)] = queue[n]
  BY <1>2, <1>3, <1>4
<1>6. Members(rest) \subseteq Members(queue)
  BY <1>3 DEF Members, n
<1>7. Distinct(queue) => Distinct(rest)
  <2> SUFFICES ASSUME Distinct(queue), NEW i \in 1 .. Len(rest), NEW j \in 1 .. Len(rest),
                      rest[i].n = rest[j].n
               PROVE  i = j
    BY DEF Distinct
  <2>1. k + i - 1 = k + j - 1
    BY <1>3 DEF Distinct, n
  <2> QED
    BY <1>1, <1>2, <2>1
<1> QED
  BY <1>2, <1>4, <1>5, <1>6, <1>7 DEF KeptOf, n, rest

\* What expires goes from the front.
LEMMA PrunedIsEnd ==
  ASSUME NEW queue \in Seq(Waiting), NEW time
  PROVE  KeptOf(Pruned(queue, time), queue)
         /\ LET rest == Pruned(queue, time) IN
              rest = <<>> \/ (queue # <<>> /\ rest[Len(rest)] = queue[Len(queue)])
<1> DEFINE fresh == {i \in 1 .. Len(queue) : queue[i].time + TTL >= time}
<1>1. CASE fresh = {}
  <2>1. Pruned(queue, time) = <<>>
    BY <1>1 DEF Pruned
  <2>2. <<>> \in Seq(Waiting) /\ Len(<<>>) = 0 /\ Len(queue) \in Nat
    OBVIOUS
  <2> QED
    BY <2>1, <2>2 DEF KeptOf, Members, Distinct
<1>2. CASE fresh # {}
  <2>1. \E i \in fresh : \A j \in fresh : i <= j
    <3>1. fresh \subseteq Nat
      OBVIOUS
    <3> HIDE DEF fresh
    <3> QED
      BY <1>2, <3>1, LeastOf
  <2> DEFINE k == CHOOSE i \in fresh : \A j \in fresh : i <= j
  <2>2. k \in fresh
    BY <2>1
  <2>3. Pruned(queue, time) = SubSeq(queue, k, Len(queue))
    BY <1>2 DEF Pruned
  <2>4. k \in 1 .. Len(queue) /\ queue # <<>>
    BY <2>2
  <2> HIDE DEF k
  <2> QED
    BY <2>3, <2>4, EndOf
<1> QED
  BY <1>1, <1>2

\* A request joins the end of its queue, and the oldest makes room.
LEMMA StoredLast ==
  ASSUME NEW queue \in Seq(Waiting), NEW r \in Waiting, Len(queue) <= MaxPending, Distinct(queue),
         \A x \in Members(queue) : x.n # r.n
  PROVE  LET longer == Stored(queue, r) IN
           /\ longer \in Seq(Waiting) /\ Len(longer) <= MaxPending /\ Distinct(longer)
           /\ Members(longer) \subseteq Members(queue) \cup {r} /\ longer[Len(longer)] = r
<1> DEFINE long == Append(queue, r)
           n == Len(queue)
<1>1. /\ long \in Seq(Waiting) /\ Len(long) = n + 1 /\ long[n + 1] = r /\ n \in Nat
      /\ \A i \in 1 .. n : long[i] = queue[i]
  OBVIOUS
<1>2. \A i \in 1 .. n + 1 : i \in 1 .. n \/ i = n + 1
  BY <1>1
<1> HIDE DEF long
<1>3. Members(long) \subseteq Members(queue) \cup {r}
  BY <1>1, <1>2 DEF Members
<1>4. Distinct(long)
  <2> SUFFICES ASSUME NEW i \in 1 .. n + 1, NEW j \in 1 .. n + 1, long[i].n = long[j].n
               PROVE  i = j
    BY <1>1 DEF Distinct
  <2>1. \A k \in 1 .. n : queue[k].n # r.n
    BY DEF Members
  <2> QED
    BY <1>1, <1>2, <2>1 DEF Distinct
<1>5. CASE Len(long) > MaxPending
  <2>1. Len(long) \in Nat /\ Len(long) >= 2 /\ 2 \in 1 .. Len(long) /\ MaxPending \in Nat \ {0}
        /\ long # <<>>
    BY <1>1, <1>5, PairingAssumption
  <2>2. Stored(queue, r) = SubSeq(long, 2, Len(long))
    BY <1>1, <1>5, <2>1, TailIsSubSeq DEF Stored, long
  <2>3. LET rest == SubSeq(long, 2, Len(long)) IN
          KeptOf(rest, long) /\ Len(rest) = Len(long) - 2 + 1 /\ rest[Len(rest)] = long[Len(long)]
    BY <1>1, <2>1, EndOf
  <2>4. Len(long) - 2 + 1 <= MaxPending
    BY <1>1, <2>1
  <2> QED
    BY <1>1, <1>3, <1>4, <2>2, <2>3, <2>4 DEF KeptOf
<1>6. CASE ~(Len(long) > MaxPending)
  <2>1. Stored(queue, r) = long
    BY <1>6 DEF Stored, long
  <2>2. Len(long) <= MaxPending
    BY <1>1, <1>6, PairingAssumption
  <2> QED
    BY <1>1, <1>3, <1>4, <2>1, <2>2
<1> QED
  BY <1>5, <1>6

\* A request that is taken is gone.
LEMMA TakenIsGone ==
  ASSUME NEW queue \in Seq(Waiting), NEW k \in 1 .. Len(queue), Distinct(queue)
  PROVE  KeptOf(Without(queue, k), queue) /\ \A r \in Members(Without(queue, k)) : r.n # queue[k].n
<1> DEFINE n == Len(queue)
           one == SubSeq(queue, 1, k - 1)
           two == SubSeq(queue, k + 1, n)
           w == Without(queue, k)
<1>1. n \in Nat /\ k \in Nat /\ k >= 1 /\ k <= n /\ \A i \in 1 .. n : queue[i] \in Waiting
  OBVIOUS
<1> HIDE DEF n
<1>2. one \in Seq(Waiting) /\ Len(one) = k - 1 /\ \A i \in 1 .. k - 1 : one[i] = queue[i]
  <2>1. 1 \in Int /\ k - 1 \in Int /\ \A i \in 1 .. k - 1 : queue[i] \in Waiting
    BY <1>1
  <2>2. /\ one \in Seq(Waiting) /\ Len(one) = IF 1 <= k - 1 THEN k - 1 - 1 + 1 ELSE 0
        /\ \A i \in 1 .. k - 1 - 1 + 1 : one[i] = queue[1 + i - 1]
    BY <2>1, SubSeqProperties
  <2> HIDE DEF one
  <2>3. Len(one) = k - 1 /\ k - 1 - 1 + 1 = k - 1 /\ \A i \in 1 .. k - 1 : 1 + i - 1 = i
    BY <1>1, <2>2
  <2> QED
    BY <2>2, <2>3
<1>3. two \in Seq(Waiting) /\ Len(two) = n - k /\ \A i \in 1 .. n - k : two[i] = queue[k + i]
  <2>1. k + 1 \in Int /\ n \in Int /\ \A i \in k + 1 .. n : queue[i] \in Waiting
    BY <1>1
  <2>2. /\ two \in Seq(Waiting) /\ Len(two) = IF k + 1 <= n THEN n - (k + 1) + 1 ELSE 0
        /\ \A i \in 1 .. n - (k + 1) + 1 : two[i] = queue[(k + 1) + i - 1]
    BY <2>1, SubSeqProperties
  <2> HIDE DEF two
  <2>3. Len(two) = n - k /\ n - (k + 1) + 1 = n - k /\ \A i \in 1 .. n - k : (k + 1) + i - 1 = k + i
    BY <1>1, <2>2
  <2> QED
    BY <2>2, <2>3
<1>4. w = one \o two
  BY DEF Without, n
<1> HIDE DEF one, two, w
<1>5. /\ w \in Seq(Waiting) /\ Len(w) = Len(one) + Len(two)
      /\ \A i \in 1 .. Len(one) + Len(two) :
           w[i] = IF i <= Len(one) THEN one[i] ELSE two[i - Len(one)]
  BY <1>2, <1>3, <1>4, ConcatProperties
<1>6. Len(w) = n - 1
  BY <1>1, <1>2, <1>3, <1>5
<1>7. \A i \in 1 .. n - 1 : w[i] = IF i < k THEN queue[i] ELSE queue[i + 1]
  <2> SUFFICES ASSUME NEW i \in 1 .. n - 1
               PROVE  w[i] = IF i < k THEN queue[i] ELSE queue[i + 1]
    OBVIOUS
  <2>1. CASE i < k
    <3>1. i <= Len(one) /\ i \in 1 .. k - 1 /\ i \in 1 .. Len(one) + Len(two)
      BY <1>1, <1>2, <1>3, <2>1
    <3> QED
      BY <1>2, <1>5, <2>1, <3>1
  <2>2. CASE ~(i < k)
    <3>1. /\ ~(i <= Len(one)) /\ i - Len(one) \in 1 .. n - k /\ i \in 1 .. Len(one) + Len(two)
          /\ k + (i - Len(one)) = i + 1
      BY <1>1, <1>2, <1>3, <2>2
    <3>2. w[i] = two[i - Len(one)]
      BY <1>5, <3>1
    <3> QED
      BY <1>3, <2>2, <3>1, <3>2
  <2> QED
    BY <2>1, <2>2
<1>8. \A i \in 1 .. n - 1 : \E j \in 1 .. n : w[i] = queue[j] /\ j # k
  <2> SUFFICES ASSUME NEW i \in 1 .. n - 1
               PROVE  \E j \in 1 .. n : w[i] = queue[j] /\ j # k
    OBVIOUS
  <2>1. (i < k => i \in 1 .. n /\ i # k) /\ (~(i < k) => i + 1 \in 1 .. n /\ i + 1 # k)
    BY <1>1
  <2> QED
    BY <1>7, <2>1
<1>9. Members(w) \subseteq Members(queue) /\ \A r \in Members(w) : r.n # queue[k].n
  BY <1>6, <1>8 DEF Members, Distinct, n
<1>10. Distinct(w)
  <2> SUFFICES ASSUME NEW i \in 1 .. n - 1, NEW j \in 1 .. n - 1, w[i].n = w[j].n
               PROVE  i = j
    BY <1>6 DEF Distinct
  <2> DEFINE a == IF i < k THEN i ELSE i + 1
             b == IF j < k THEN j ELSE j + 1
  <2>1. a \in 1 .. n /\ b \in 1 .. n /\ (a = b => i = j)
    BY <1>1
  <2>2. w[i] = queue[a] /\ w[j] = queue[b]
    BY <1>7
  <2> HIDE DEF a, b
  <2> QED
    BY <2>1, <2>2 DEF Distinct, n
<1>11. Len(w) <= n
  BY <1>1, <1>6
<1> QED
  BY <1>5, <1>9, <1>10, <1>11 DEF KeptOf, n, w

-----------------------------------------------------------------------------
\* Exchanges have the fields they have.
LEMMA ExchangeShape ==
  ASSUME Shape, NEW n \in Exchanges
  PROVE  /\ exchange[n] \in ExchangeTypes /\ exchange[n].stream \in Streams
         /\ exchange[n].scheme \in Schemes /\ n \in Nat /\ n # None
         /\ exchange[n].open \in BOOLEAN /\ exchange[n].counted \in BOOLEAN
<1>1. exchange[n] \in ExchangeTypes /\ n \in Nat /\ n # None
  BY DEF Shape, Exchanges, None
<1> QED
  BY <1>1 DEF ExchangeTypes

\* Each event prunes the queues; what they say stays true.
LEMMA PrunedQueues ==
  ASSUME Shape, Queues(pending), Latest(pending), NEW time, NEW old,
         old = [s \in Streams |-> Pruned(pending[s], time)]
  PROVE  Queues(old) /\ Latest(old)
<1>1. ASSUME NEW s \in Streams
      PROVE  /\ pending[s] \in Seq(Waiting) /\ KeptOf(old[s], pending[s])
             /\ old[s] = <<>> \/ (pending[s] # <<>> /\ old[s][Len(old[s])] = pending[s][Len(pending[s])])
  <2>1. pending[s] \in Seq(Waiting) /\ old[s] = Pruned(pending[s], time)
    BY DEF Queues
  <2> QED
    BY <2>1, PrunedIsEnd
<1>2. Queues(old)
  <2>1. old \in [Streams -> Seq(Waiting)]
    BY <1>1 DEF KeptOf
  <2> SUFFICES ASSUME NEW s \in Streams
               PROVE  /\ Len(old[s]) <= MaxPending /\ Distinct(old[s])
                      /\ \A r \in Members(old[s]) : Waits(s, r)
    BY <2>1 DEF Queues
  <2>2. Len(old[s]) \in Nat /\ Len(pending[s]) \in Nat /\ MaxPending \in Nat
    BY <1>1, <2>1, PairingAssumption
  <2>3. Len(old[s]) <= MaxPending
    BY <1>1, <2>2 DEF KeptOf, Queues
  <2> QED
    BY <1>1, <2>3 DEF KeptOf, Queues
<1>3. Latest(old)
  <2> SUFFICES ASSUME ~traffic.others, traffic.sequential, ~traffic.failing,
                      NEW n \in Exchanges, exchange[n].open
               PROVE  LET queue == old[exchange[n].stream] IN queue = <<>> \/ queue[Len(queue)].n = n
    BY DEF Latest
  <2>1. exchange[n].stream \in Streams
    BY ExchangeShape
  <2>2. LET queue == pending[exchange[n].stream] IN queue = <<>> \/ queue[Len(queue)].n = n
    BY DEF Latest
  <2> QED
    BY <1>1, <2>1, <2>2
<1> QED
  BY <1>2, <1>3

-----------------------------------------------------------------------------
\* An exchange is over, all else about the exchanges stays.
Closes(n) ==
  /\ exchange' \in Seq(ExchangeTypes) /\ Len(exchange') = Len(exchange) /\ traffic' = traffic
  /\ \A m \in Exchanges : m # n => exchange'[m] = exchange[m]
  /\ exchange'[n].stream = exchange[n].stream /\ exchange'[n].scheme = exchange[n].scheme
  /\ exchange'[n].llm = exchange[n].llm /\ ~exchange'[n].open

LEMMA ShapeStays ==
  ASSUME Shape, NEW n \in Exchanges, Closes(n), now' = now
  PROVE  Shape'
BY DEF Shape, Closes, Exchanges

\* Rows keep their exchanges, and get the one whose response is ingested.
LEMMA RowsStay ==
  ASSUME RowsOfExchanges, Shape, NEW n \in Exchanges, Closes(n), NEW id,
         DOMAIN calls' \subseteq DOMAIN calls \cup {id}, DOMAIN usage' \subseteq DOMAIN usage \cup {id},
         id = Orphan(n) \/ id \in DOMAIN calls
  PROVE  RowsOfExchanges'
<1> SUFFICES ASSUME NEW c \in DOMAIN calls' \cup DOMAIN usage'
             PROVE  \E m \in Exchanges' : c = Call(m) \/ (c = Orphan(m) /\ ~exchange'[m].open)
  BY DEF RowsOfExchanges, Call, Orphan
<1>1. Exchanges' = Exchanges
  BY DEF Closes, Exchanges
<1>2. CASE c = Orphan(n)
  BY <1>1, <1>2 DEF Closes
<1>3. CASE c # Orphan(n)
  <2>1. c \in DOMAIN calls \cup DOMAIN usage
    BY <1>3
  <2>2. PICK m \in Exchanges : c = Call(m) \/ (c = Orphan(m) /\ ~exchange[m].open)
    BY <2>1 DEF RowsOfExchanges
  <2>3. m # n /\ c = Orphan(m) => ~exchange'[m].open
    BY <2>2, RowsDiffer DEF Closes
  <2> QED
    BY <1>1, <1>3, <2>2, <2>3
<1> QED
  BY <1>2, <1>3

\* Requests wait on when nothing happens to their rows.
LEMMA WaitingStay ==
  ASSUME Shape, NEW p, Queues(p), NEW n \in Exchanges, Closes(n), now' = now, pending' = p,
         DOMAIN calls \subseteq DOMAIN calls',
         \A s \in Streams : \A r \in Members(p[s]) :
           calls'[Call(r.n)] = calls[Call(r.n)] /\ Call(r.n) \notin DOMAIN usage'
  PROVE  Queues(pending)'
<1> SUFFICES ASSUME NEW s \in Streams, NEW r \in Members(p[s])
             PROVE  Waits(s, r)'
  BY DEF Queues, Members, Distinct
<1>1. Waits(s, r)
  BY DEF Queues
<1>2. r.n \in Exchanges' /\ exchange'[r.n].stream = exchange[r.n].stream
  BY <1>1 DEF Waits, Closes, Exchanges
<1> QED
  BY <1>1, <1>2 DEF Waits

\* Only the stream of the exchange that is over may have another queue.
LEMMA LatestStays ==
  ASSUME Shape, NEW p, Latest(p), NEW n \in Exchanges, exchange[n].open, Closes(n),
         \A s \in Streams : s # exchange[n].stream => pending'[s] = p[s]
  PROVE  Latest(pending)'
<1> SUFFICES ASSUME ~traffic.others, traffic.sequential, ~traffic.failing,
                    NEW m \in Exchanges, exchange'[m].open
             PROVE  LET queue == pending'[exchange'[m].stream] IN
                      queue = <<>> \/ queue[Len(queue)].n = m
  BY DEF Latest, Closes, Exchanges
<1>1. m # n /\ exchange'[m] = exchange[m]
  BY DEF Closes
<1>2. exchange[m].stream \in Streams /\ exchange[m].stream # exchange[n].stream
  BY <1>1, ExchangeShape DEF Shape
<1> QED
  BY <1>1, <1>2 DEF Latest

\* A response completes a row, unless a sink fails before, and its usage is counted there.
RowCompleted(id, n, outcome) ==
  /\ DOMAIN calls \subseteq DOMAIN calls' /\ DOMAIN calls' \subseteq DOMAIN calls \cup {id}
  /\ \A c \in DOMAIN calls : c # id => calls'[c] = calls[c]
  /\ outcome = "before" => DOMAIN calls' = DOMAIN calls /\ \A c \in DOMAIN calls : calls'[c] = calls[c]
  /\ outcome # "before" => id \in DOMAIN calls' /\ calls'[id] = n

UsageWritten(id, n) ==
  /\ DOMAIN usage' = DOMAIN usage \cup {id} /\ usage'[id] = n
  /\ \A c \in DOMAIN usage : c # id => usage'[c] = usage[c]

LEMMA KeptByComplete ==
  ASSUME Kept, NEW n \in Exchanges, exchange[n].open, Closes(n), now' = now,
         NEW outcome \in Outcomes, NEW id, RowCompleted(id, n, outcome),
         \/ exchange'[n].counted /\ UsageWritten(id, n)
         \/ ~exchange'[n].counted /\ usage' = usage,
         id \notin DOMAIN usage,
         id = Orphan(n) \/ (id \in DOMAIN calls /\ calls[id] = None),
         Distinguishable => \A m \in Exchanges : id = Call(m) => m = n,
         Queues(pending)', Latest(pending)'
  PROVE  Kept'
<1>1. /\ DOMAIN calls \subseteq DOMAIN calls' /\ DOMAIN calls' \subseteq DOMAIN calls \cup {id}
      /\ \A c \in DOMAIN calls : c # id => calls'[c] = calls[c]
      /\ outcome = "before" => DOMAIN calls' = DOMAIN calls /\ \A c \in DOMAIN calls : calls'[c] = calls[c]
      /\ outcome # "before" => id \in DOMAIN calls' /\ calls'[id] = n
  BY DEF RowCompleted
<1>2. /\ ~exchange'[n].counted => usage' = usage
      /\ exchange'[n].counted => /\ DOMAIN usage' = DOMAIN usage \cup {id} /\ usage'[id] = n
                                 /\ \A c \in DOMAIN usage : c # id => usage'[c] = usage[c]
  BY DEF UsageWritten
<1>3. Shape' /\ RowsOfExchanges' /\ Exchanges' = Exchanges /\ traffic' = traffic
  <2>1. DOMAIN usage' \subseteq DOMAIN usage \cup {id}
    BY <1>2
  <2> QED
    BY <1>1, <2>1, ShapeStays, RowsStay DEF Kept, Closes, Exchanges
<1>4. OwnResponse'
  <2> SUFFICES ASSUME Distinguishable, NEW m \in Exchanges, Call(m) \in DOMAIN calls'
               PROVE  calls'[Call(m)] \in {None, m}
    BY <1>3 DEF OwnResponse, Distinguishable
  <2>1. CASE Call(m) = id /\ outcome # "before"
    BY <1>1, <2>1
  <2>2. CASE ~(Call(m) = id /\ outcome # "before")
    <3>1. Call(m) \in DOMAIN calls /\ calls'[Call(m)] = calls[Call(m)]
      BY <1>1, <2>2
    <3> QED
      BY <3>1 DEF Kept, OwnResponse
  <2> QED
    BY <2>1, <2>2
<1>5. \A m \in Exchanges : m # n => (exchange'[m].counted <=> exchange[m].counted)
                                    /\ (exchange'[m].open <=> exchange[m].open)
  BY DEF Closes
<1>6. ~exchange[n].counted /\ \A c \in DOMAIN usage : usage[c] # n
  BY DEF Kept, Counted
<1>7. CASE ~exchange'[n].counted
  <2>1. usage' = usage /\ ~exchange'[n].counted
    BY <1>2, <1>7
  <2>2. \A c \in DOMAIN usage : usage[c] \in Exchanges /\ exchange'[usage[c]].counted
    BY <1>5, <1>6 DEF Kept, Counted
  <2>3. \A m \in Exchanges : exchange'[m].counted =>
          ~exchange'[m].open /\ \E c \in DOMAIN usage : usage[c] = m
    BY <1>5, <2>1 DEF Kept, Counted
  <2>4. ~traffic.failing => \A c \in DOMAIN usage : c \in DOMAIN calls' /\ calls'[c] = usage[c]
    BY <1>1 DEF Kept, Counted
  <2>5. Counted'
    BY <1>3, <2>1, <2>2, <2>3, <2>4 DEF Kept, Counted
  <2> QED
    BY <1>3, <1>4, <2>5 DEF Kept
<1>8. CASE exchange'[n].counted
  <2>1. /\ DOMAIN usage' = DOMAIN usage \cup {id} /\ usage'[id] = n /\ exchange'[n].counted
        /\ \A c \in DOMAIN usage : c # id /\ usage'[c] = usage[c]
    BY <1>2, <1>8
  <2>2. \A c \in DOMAIN usage' : usage'[c] \in Exchanges /\ exchange'[usage'[c]].counted
    BY <1>5, <1>6, <2>1 DEF Kept, Counted
  <2>3. \A m \in Exchanges : exchange'[m].counted =>
          ~exchange'[m].open /\ \E c \in DOMAIN usage' : usage'[c] = m
    BY <1>5, <2>1 DEF Kept, Counted, Closes
  <2>4. ~traffic.failing => \A c \in DOMAIN usage' : c \in DOMAIN calls' /\ calls'[c] = usage'[c]
    <3> SUFFICES ASSUME ~traffic.failing, NEW c \in DOMAIN usage'
                 PROVE  c \in DOMAIN calls' /\ calls'[c] = usage'[c]
      OBVIOUS
    <3>1. outcome # "before"
      BY DEF Outcomes
    <3> QED
      BY <1>1, <2>1, <3>1 DEF Kept, Counted
  <2>5. \A c, d \in DOMAIN usage' : usage'[c] = usage'[d] => c = d
    BY <1>6, <2>1 DEF Kept, Counted
  <2>6. Counted'
    BY <1>3, <2>2, <2>3, <2>4, <2>5 DEF Counted
  <2> QED
    BY <1>3, <1>4, <2>6 DEF Kept
<1> QED
  BY <1>7, <1>8

\* An exchange that is over without an ingested response gives no row.
LEMMA KeptWithoutRows ==
  ASSUME Kept, NEW n \in Exchanges, Closes(n), ~exchange'[n].counted, exchange[n].open,
         calls' = calls, usage' = usage, now' = now, Queues(pending)', Latest(pending)'
  PROVE  Kept'
<1>1. Exchanges' = Exchanges /\ traffic' = traffic /\ ~exchange[n].counted
  BY DEF Closes, Exchanges, Kept, Counted
<1>2. Shape'
  BY ShapeStays DEF Kept
<1>3. RowsOfExchanges'
  <2> SUFFICES ASSUME NEW c \in DOMAIN calls \cup DOMAIN usage
               PROVE  \E m \in Exchanges : c = Call(m) \/ (c = Orphan(m) /\ ~exchange'[m].open)
    BY <1>1 DEF RowsOfExchanges, Call, Orphan
  <2>1. PICK m \in Exchanges : c = Call(m) \/ (c = Orphan(m) /\ ~exchange[m].open)
    BY DEF Kept, RowsOfExchanges
  <2> QED
    BY <2>1 DEF Closes
<1>4. Counted' /\ OwnResponse'
  BY <1>1 DEF Kept, Counted, Closes, OwnResponse, Distinguishable
<1> QED
  BY <1>2, <1>3, <1>4 DEF Kept

-----------------------------------------------------------------------------
\* The invariant holds at first,
LEMMA KeptAtFirst == Init => Kept
<1> SUFFICES ASSUME Init
             PROVE  Kept
  OBVIOUS
<1>1. /\ Exchanges = {} /\ DOMAIN calls = {} /\ DOMAIN usage = {}
      /\ \A s \in Streams : pending[s] = <<>> /\ Len(pending[s]) = 0
      /\ exchange \in Seq(ExchangeTypes) /\ now \in Nat /\ <<>> \in Seq(Waiting)
  BY DEF Init, Exchanges
<1>2. Shape
  BY <1>1 DEF Init, Shape
<1>3. RowsOfExchanges /\ Latest(pending) /\ Counted /\ OwnResponse
  BY <1>1 DEF RowsOfExchanges, Latest, Counted, OwnResponse
<1>4. Queues(pending)
  <2>1. pending \in [Streams -> Seq(Waiting)] /\ 0 <= MaxPending
    BY <1>1, PairingAssumption DEF Init
  <2> QED
    BY <1>1, <2>1 DEF Queues, Distinct, Members
<1> QED
  BY <1>2, <1>3, <1>4 DEF Kept

\* when a response is missed,
LEMMA KeptByLose ==
  ASSUME Kept, NEW n \in Exchanges, Lose(n)
  PROVE  Kept'
<1>1. Closes(n) /\ ~exchange'[n].counted
  <2>1. exchange \in Seq(ExchangeTypes) /\ n \in 1 .. Len(exchange) /\ exchange[n] \in ExchangeTypes
    BY DEF Kept, Shape, Exchanges
  <2> DEFINE x == [exchange[n] EXCEPT !.open = FALSE]
  <2>2. /\ x \in ExchangeTypes /\ x.stream = exchange[n].stream /\ x.scheme = exchange[n].scheme
        /\ x.llm = exchange[n].llm /\ ~x.open /\ (x.counted <=> exchange[n].counted)
    BY <2>1 DEF ExchangeTypes
  <2>3. exchange' = [exchange EXCEPT ![n] = x]
    BY <2>1 DEF Lose
  <2> HIDE DEF x
  <2>4. /\ exchange' \in Seq(ExchangeTypes) /\ Len(exchange') = Len(exchange) /\ exchange'[n] = x
        /\ \A m \in 1 .. Len(exchange) : m # n => exchange'[m] = exchange[m]
    BY <2>1, <2>2, <2>3, ExceptSeq
  <2>5. ~exchange[n].counted /\ traffic' = traffic
    BY DEF Lose, Kept, Counted
  <2> QED
    BY <2>2, <2>4, <2>5 DEF Closes, Exchanges
<1>2. /\ traffic' = traffic /\ pending' = pending /\ calls' = calls /\ usage' = usage /\ now' = now
      /\ exchange[n].open
  BY DEF Lose
<1>3. Queues(pending)'
  BY <1>1, <1>2, WaitingStay DEF Kept, Queues, Waits
<1>4. Latest(pending)'
  BY <1>1, <1>2, LatestStays DEF Kept
<1> QED
  BY <1>1, <1>2, <1>3, <1>4, KeptWithoutRows

\* when other events are observed and when time passes,
LEMMA KeptByOther ==
  ASSUME Kept, Tick \/ \E time \in 0 .. now : Other(time)
  PROVE  Kept'
<1>1. /\ traffic' = traffic /\ exchange' = exchange /\ calls' = calls /\ usage' = usage
      /\ Exchanges' = Exchanges /\ now' \in Nat /\ now \in Nat /\ now <= now'
  BY DEF Tick, Other, Kept, Shape, Exchanges
<1>2. Queues(pending') /\ Latest(pending')
  <2>1. CASE Tick
    BY <2>1 DEF Tick, Kept
  <2>2. ASSUME NEW time \in 0 .. now, Other(time)
        PROVE  Queues(pending') /\ Latest(pending')
    BY <2>2, PrunedQueues DEF Other, Kept
  <2> QED
    BY <2>1, <2>2
<1>3. Queues(pending)' /\ Latest(pending)'
  <2>1. \A s \in Streams : \A r \in Members(pending'[s]) : r.time \in Nat
    <3> SUFFICES ASSUME NEW s \in Streams, NEW r \in Members(pending'[s])
                 PROVE  r.time \in Nat
      OBVIOUS
    <3>1. pending'[s] \in Seq(Waiting)
      BY <1>2 DEF Queues
    <3>2. r \in Waiting
      BY <3>1 DEF Members
    <3> QED
      BY <3>2 DEF Waiting
  <2> QED
    BY <1>1, <1>2, <2>1 DEF Queues, Waits, Latest
<1>4. Shape' /\ RowsOfExchanges' /\ Counted' /\ OwnResponse'
  BY <1>1 DEF Kept, Shape, RowsOfExchanges, Counted, OwnResponse, Distinguishable, Call, Orphan
<1> QED
  BY <1>3, <1>4 DEF Kept

\* when a request is sent,
LEMMA KeptByRequest ==
  ASSUME Kept, NEW s \in traffic.streams, NEW scheme \in traffic.schemes,
         NEW llm \in {TRUE, ~traffic.others}, NEW time \in 0 .. now, NEW outcome \in Outcomes,
         Request(s, scheme, llm, time, outcome)
  PROVE  Kept'
<1> DEFINE old == [q \in Streams |-> Pruned(pending[q], time)]
           x == [stream |-> s, scheme |-> scheme, llm |-> llm, open |-> TRUE, counted |-> FALSE]
           r(m) == [n |-> m, time |-> time]
<1>1. s \in Streams /\ scheme \in Schemes /\ llm \in BOOLEAN /\ time \in Nat /\ time <= now
  <2>1. traffic \in [schemes : SUBSET Schemes, others : BOOLEAN, sequential : BOOLEAN,
                      failing : BOOLEAN, streams : SUBSET Streams, requests : Nat]
    BY PairingAssumption DEF Kept, Shape, Schemes
  <2>2. s \in Streams /\ scheme \in Schemes
    BY <2>1
  <2>3. time \in Nat /\ time <= now
    BY DEF Kept, Shape
  <2> QED
    BY <2>2, <2>3
<1>2. Queues(old) /\ Latest(old)
  BY PrunedQueues DEF Kept
<1>3. PICK n : n = Len(exchange) + 1
  OBVIOUS
<1>4. /\ exchange' = Append(exchange, x) /\ traffic' = traffic /\ usage' = usage /\ now' = now
      /\ traffic.sequential => \A m \in Exchanges : exchange[m].stream = s => ~exchange[m].open
      /\ calls' = IF llm /\ outcome \in {"done", "call"} THEN Upsert(calls, Call(n), None) ELSE calls
      /\ pending' = IF llm /\ outcome = "done" THEN [old EXCEPT ![s] = Stored(@, r(n))] ELSE old
  BY <1>3 DEF Request
<1>5. /\ x \in ExchangeTypes /\ x.stream = s /\ x.scheme = scheme /\ (x.llm <=> llm)
      /\ x.open /\ ~x.counted
  BY <1>1 DEF ExchangeTypes
<1>6. /\ exchange' \in Seq(ExchangeTypes) /\ n \in Nat /\ n # None /\ exchange'[n] = x
      /\ Exchanges' = Exchanges \cup {n} /\ n \notin Exchanges
      /\ \A m \in Exchanges : exchange'[m] = exchange[m]
  <2>1. exchange \in Seq(ExchangeTypes)
    BY DEF Kept, Shape
  <2> HIDE DEF x
  <2>2. /\ exchange' \in Seq(ExchangeTypes) /\ Len(exchange') = Len(exchange) + 1 /\ exchange'[n] = x
        /\ Len(exchange) \in Nat /\ \A m \in 1 .. Len(exchange) : exchange'[m] = exchange[m]
    BY <1>3, <1>4, <1>5, <2>1
  <2> QED
    BY <1>3, <2>2 DEF Exchanges, None
<1> HIDE DEF x, old
<1>7. /\ Call(n) \notin DOMAIN calls \cup DOMAIN usage
      /\ DOMAIN calls \subseteq DOMAIN calls' /\ DOMAIN calls' \subseteq DOMAIN calls \cup {Call(n)}
      /\ \A c \in DOMAIN calls : calls'[c] = calls[c]
      /\ Call(n) \in DOMAIN calls' => calls'[Call(n)] = None
      /\ llm /\ outcome = "done" => Call(n) \in DOMAIN calls'
  <2>1. Call(n) \notin DOMAIN calls \cup DOMAIN usage
    BY <1>6, RowsDiffer DEF Kept, RowsOfExchanges
  <2> QED
    BY <1>4, <2>1 DEF Upsert
<1>8. Shape'
  <2>1. \A m \in Exchanges' : exchange'[m].scheme \in traffic.schemes
    BY <1>5, <1>6 DEF Kept, Shape
  <2>2. ~traffic.others => \A m \in Exchanges' : exchange'[m].llm
    BY <1>5, <1>6 DEF Kept, Shape
  <2>3. traffic.sequential => \A k, m \in Exchanges' :
          exchange'[k].open /\ exchange'[m].open /\ exchange'[k].stream = exchange'[m].stream => k = m
    <3> SUFFICES ASSUME traffic.sequential, NEW k \in Exchanges', NEW m \in Exchanges',
                        exchange'[k].open, exchange'[m].open,
                        exchange'[k].stream = exchange'[m].stream
                 PROVE  k = m
      OBVIOUS
    <3>1. \A l \in Exchanges : exchange'[l].open => exchange'[l].stream # s
      BY <1>4, <1>6
    <3>2. CASE k = n \/ m = n
      BY <1>5, <1>6, <3>1, <3>2
    <3>3. CASE k # n /\ m # n
      BY <1>6, <3>3 DEF Kept, Shape
    <3> QED
      BY <3>2, <3>3
  <2> QED
    BY <1>4, <1>6, <2>1, <2>2, <2>3 DEF Kept, Shape
<1>9. RowsOfExchanges'
  <2> SUFFICES ASSUME NEW c \in DOMAIN calls' \cup DOMAIN usage
               PROVE  \E m \in Exchanges' : c = Call(m) \/ (c = Orphan(m) /\ ~exchange'[m].open)
    BY <1>4 DEF RowsOfExchanges, Call, Orphan
  <2>1. CASE c = Call(n)
    BY <1>6, <2>1
  <2>2. CASE c \in DOMAIN calls \cup DOMAIN usage
    <3>1. PICK m \in Exchanges : c = Call(m) \/ (c = Orphan(m) /\ ~exchange[m].open)
      BY <2>2 DEF Kept, RowsOfExchanges
    <3> QED
      BY <1>6, <3>1
  <2> QED
    BY <1>7, <2>1, <2>2
<1>10. \A q \in Streams : \A y \in Members(old[q]) : Waits(q, y)' /\ y.n # n
  <2> SUFFICES ASSUME NEW q \in Streams, NEW y \in Members(old[q])
               PROVE  Waits(q, y)' /\ y.n # n
    OBVIOUS
  <2>1. Waits(q, y)
    BY <1>2 DEF Queues
  <2> QED
    BY <1>4, <1>6, <1>7, <2>1 DEF Waits
<1>11. Queues(pending)' /\ Latest(pending)'
  <2>1. CASE ~(llm /\ outcome = "done")
    <3>1. pending' = old
      BY <1>4, <2>1
    <3>2. Queues(pending)'
      BY <1>2, <1>10, <3>1 DEF Queues
    <3>3. ~traffic.others /\ ~traffic.failing => FALSE
      BY <2>1 DEF Outcomes
    <3>4. Latest(pending)'
      BY <1>4, <3>3 DEF Latest
    <3> QED
      BY <3>2, <3>4
  <2>2. CASE llm /\ outcome = "done"
    <3> DEFINE new == Stored(old[s], r(n))
    <3>1. r(n) \in Waiting /\ r(n).n = n /\ r(n).time = time
      BY <1>1, <1>6 DEF Waiting
    <3>2. /\ old[s] \in Seq(Waiting) /\ Len(old[s]) <= MaxPending /\ Distinct(old[s])
          /\ \A y \in Members(old[s]) : y.n # n
      BY <1>1, <1>2, <1>10 DEF Queues
    <3> HIDE DEF r
    <3>3. /\ new \in Seq(Waiting) /\ Len(new) <= MaxPending /\ Distinct(new)
          /\ Members(new) \subseteq Members(old[s]) \cup {r(n)} /\ new[Len(new)] = r(n)
      BY <3>1, <3>2, StoredLast
    <3>4. pending' = [old EXCEPT ![s] = new]
      BY <1>4, <2>2
    <3> HIDE DEF new
    <3>5. /\ pending' \in [Streams -> Seq(Waiting)] /\ pending'[s] = new
          /\ \A q \in Streams : q # s => pending'[q] = old[q]
      BY <1>1, <1>2, <3>3, <3>4 DEF Queues
    <3>6. Waits(s, r(n))'
      BY <1>1, <1>4, <1>5, <1>6, <1>7, <2>2, <3>1 DEF Waits
    <3>7. Queues(pending)'
      <4> SUFFICES ASSUME NEW q \in Streams
                   PROVE  /\ Len(pending'[q]) <= MaxPending /\ Distinct(pending'[q])
                          /\ \A y \in Members(pending'[q]) : Waits(q, y)'
        BY <3>5 DEF Queues, Distinct, Members
      <4>1. CASE q = s
        BY <1>10, <3>3, <3>5, <3>6, <4>1
      <4>2. CASE q # s
        BY <1>2, <1>10, <3>5, <4>2 DEF Queues
      <4> QED
        BY <4>1, <4>2
    <3>8. Latest(pending)'
      <4> SUFFICES ASSUME ~traffic.others, traffic.sequential, ~traffic.failing,
                          NEW m \in Exchanges', exchange'[m].open
                   PROVE  LET queue == pending'[exchange'[m].stream] IN
                            queue = <<>> \/ queue[Len(queue)].n = m
        BY <1>4 DEF Latest
      <4>1. CASE m = n
        BY <1>5, <1>6, <3>1, <3>3, <3>5, <4>1
      <4>2. CASE m # n
        <5>1. m \in Exchanges /\ exchange'[m] = exchange[m]
          BY <1>6, <4>2
        <5>2. exchange[m].stream \in Streams /\ exchange[m].stream # s
          BY <1>4, <5>1, ExchangeShape DEF Kept
        <5> QED
          BY <1>2, <3>5, <5>1, <5>2 DEF Latest
      <4> QED
        BY <4>1, <4>2
    <3> QED
      BY <3>7, <3>8
  <2> QED
    BY <2>1, <2>2
<1>12. Counted'
  <2>1. \A c \in DOMAIN usage : usage[c] \in Exchanges /\ exchange[usage[c]].counted
    BY DEF Kept, Counted
  <2>2. \A m \in Exchanges' : exchange'[m].counted =>
          ~exchange'[m].open /\ \E c \in DOMAIN usage : usage[c] = m
    BY <1>5, <1>6 DEF Kept, Counted
  <2>3. ~traffic.failing => \A c \in DOMAIN usage : c \in DOMAIN calls' /\ calls'[c] = usage[c]
    BY <1>7 DEF Kept, Counted
  <2> QED
    BY <1>4, <1>6, <2>1, <2>2, <2>3 DEF Kept, Counted
<1>13. OwnResponse'
  <2> SUFFICES ASSUME Distinguishable, NEW m \in Exchanges', Call(m) \in DOMAIN calls'
               PROVE  calls'[Call(m)] \in {None, m}
    BY <1>4 DEF OwnResponse, Distinguishable
  <2>1. CASE m = n
    BY <1>7, <2>1
  <2>2. CASE m # n
    <3>1. m \in Exchanges /\ Call(m) \in DOMAIN calls /\ calls'[Call(m)] = calls[Call(m)]
      BY <1>6, <1>7, <2>2, RowsDiffer
    <3> QED
      BY <3>1 DEF Kept, OwnResponse
  <2> QED
    BY <2>1, <2>2
<1> QED
  BY <1>8, <1>9, <1>11, <1>12, <1>13 DEF Kept

\* The request a response is matched with waits, and has its id or is alone.
LEMMA MatchedWaits ==
  ASSUME NEW queue \in Seq(Waiting), NEW id, NEW i, i = Match(queue, id), i # None
  PROVE  /\ i \in 1 .. Len(queue)
         /\ id # None => RequestId(queue[i].n) = id
         /\ id = None => Len(queue) = 1
<1> DEFINE same == {j \in 1 .. Len(queue) : RequestId(queue[j].n) = id}
<1>1. CASE id # None
  <2>1. same # {} /\ i = CHOOSE j \in same : \A k \in same : j <= k
    BY <1>1 DEF Match
  <2>2. same \subseteq Nat
    OBVIOUS
  <2> HIDE DEF same
  <2>3. \E j \in same : \A k \in same : j <= k
    BY <2>1, <2>2, LeastOf
  <2>4. i \in same
    BY <2>1, <2>3
  <2> QED
    BY <1>1, <2>4 DEF same
<1>2. CASE id = None
  BY <1>2 DEF Match, None
<1> QED
  BY <1>1, <1>2

\* Where requests and responses can be told apart, it is the own request.
LEMMA MatchedIsOwn ==
  ASSUME Kept, Distinguishable, NEW n \in Exchanges, exchange[n].open, NEW p, Queues(p), Latest(p),
         NEW i, i = Match(p[exchange[n].stream], ResponseId(n)), i # None
  PROVE  p[exchange[n].stream][i].n = n
<1> DEFINE queue == p[exchange[n].stream]
<1>1. exchange[n].stream \in Streams /\ n # None
  BY ExchangeShape DEF Kept
<1>2. /\ queue \in Seq(Waiting)
      /\ \A r \in Members(queue) : r.n \in Exchanges
  BY <1>1 DEF Queues, Waits
<1> HIDE DEF queue
<1>3. /\ i \in 1 .. Len(queue)
      /\ ResponseId(n) # None => RequestId(queue[i].n) = ResponseId(n)
      /\ ResponseId(n) = None => Len(queue) = 1
  BY <1>2, MatchedWaits DEF queue
<1>4. queue[i].n \in Exchanges
  BY <1>2, <1>3 DEF Members
<1>5. CASE traffic.schemes = {"client"}
  <2>1. exchange[n].scheme = "client" /\ exchange[queue[i].n].scheme = "client"
    BY <1>4, <1>5 DEF Kept, Shape
  <2> QED
    BY <1>1, <1>3, <2>1 DEF RequestId, ResponseId, queue
<1>6. CASE traffic.schemes = {"nobody"} /\ traffic.sequential /\ ~traffic.failing
  <2>1. ResponseId(n) = None
    BY <1>6 DEF Kept, Shape, ResponseId
  <2>2. Len(queue) = 1 /\ i = 1 /\ queue # <<>>
    <3>1. Len(queue) = 1 /\ i \in 1 .. 1
      BY <1>3, <2>1
    <3> HIDE DEF queue
    <3>2. Len(<<>>) = 0
      OBVIOUS
    <3>3. queue # <<>>
      <4>1. queue = <<>> => Len(queue) = 0
        BY <3>2
      <4> QED
        BY <3>1, <4>1
    <3> QED
      BY <3>1, <3>3
  <2>3. queue[Len(queue)].n = n
    BY <1>6, <2>2 DEF Latest, queue, Distinguishable
  <2> QED
    BY <2>2, <2>3 DEF queue
<1> QED
  BY <1>5, <1>6 DEF Distinguishable

\* and when a response is observed: it is over, and the rows it gives are the
\* completed row of the request it is matched with, or one of its own.
LEMMA KeptByResponse ==
  ASSUME Kept, NEW n \in Exchanges, NEW classified \in BOOLEAN, NEW withUsage \in BOOLEAN,
         NEW time \in 0 .. now, NEW outcome \in Outcomes,
         Response(n, classified, withUsage, time, outcome)
  PROVE  Kept'
<1> DEFINE s == exchange[n].stream
           old == [q \in Streams |-> Pruned(pending[q], time)]
           i == Match(old[s], ResponseId(n))
           ingested == outcome # "target" /\ (classified \/ old[s] # <<>>)
           x == [exchange[n] EXCEPT !.open = FALSE, !.counted = withUsage /\ ingested]
<1>1. Queues(old) /\ Latest(old)
  BY PrunedQueues DEF Kept
<1>2. /\ exchange[n].open /\ traffic' = traffic /\ now' = now
      /\ exchange' = [exchange EXCEPT ![n].open = FALSE, ![n].counted = withUsage /\ ingested]
      /\ ~ingested => pending' = old /\ calls' = calls /\ usage' = usage
      /\ ingested /\ i = None => pending' = old /\ Complete(Orphan(n), n, withUsage, outcome)
      /\ ingested /\ i # None =>
           /\ pending' = [old EXCEPT ![s] = Without(old[s], i)]
           /\ Complete(Call(old[s][i].n), n, withUsage, outcome)
  <2>1. s \in Streams /\ old[s] = Pruned(pending[s], time)
    BY ExchangeShape DEF Kept
  <2> QED
    BY <2>1 DEF Response
<1> HIDE DEF old
<1>3. Closes(n) /\ (exchange'[n].counted <=> withUsage /\ ingested)
  <2>1. exchange \in Seq(ExchangeTypes) /\ n \in 1 .. Len(exchange) /\ exchange[n] \in ExchangeTypes
    BY DEF Kept, Shape, Exchanges
  <2>2. /\ x \in ExchangeTypes /\ x.stream = exchange[n].stream /\ x.scheme = exchange[n].scheme
        /\ x.llm = exchange[n].llm /\ ~x.open /\ (x.counted <=> withUsage /\ ingested)
    <3> HIDE DEF ingested
    <3> QED
      BY <2>1 DEF ExchangeTypes
  <2>3. exchange' = [exchange EXCEPT ![n] = x]
    BY <1>2, <2>1
  <2> HIDE DEF x, ingested
  <2>4. /\ exchange' \in Seq(ExchangeTypes) /\ Len(exchange') = Len(exchange) /\ exchange'[n] = x
        /\ \A m \in 1 .. Len(exchange) : m # n => exchange'[m] = exchange[m]
    BY <2>1, <2>2, <2>3, ExceptSeq
  <2> QED
    BY <1>2, <2>2, <2>4 DEF Closes, Exchanges
<1> HIDE DEF x, ingested
<1>4. s \in Streams /\ old[s] \in Seq(Waiting) /\ Distinct(old[s])
  BY <1>1, ExchangeShape DEF Kept, Queues
<1>5. CASE ~ingested
  <2>1. pending' = old /\ calls' = calls /\ usage' = usage /\ ~exchange'[n].counted
    BY <1>2, <1>3, <1>5
  <2>2. Queues(pending)'
    BY <1>1, <1>2, <1>3, <2>1, WaitingStay DEF Kept, Queues, Waits
  <2>3. Latest(pending)'
    BY <1>1, <1>2, <1>3, <2>1, LatestStays DEF Kept
  <2> QED
    BY <1>2, <1>3, <2>1, <2>2, <2>3, KeptWithoutRows
<1>6. CASE ingested
  <2>1. PICK id : /\ calls' = IF outcome = "before" THEN calls ELSE Upsert(calls, id, n)
                  /\ usage' = IF withUsage THEN Upsert(usage, id, n) ELSE usage
                  /\ i = None => id = Orphan(n) /\ pending' = old
                  /\ i # None => /\ id = Call(old[s][i].n)
                                 /\ pending' = [old EXCEPT ![s] = Without(old[s], i)]
    <3>1. CASE i = None
      BY <1>2, <1>6, <3>1 DEF Complete
    <3>2. CASE i # None
      BY <1>2, <1>6, <3>2 DEF Complete
    <3> QED
      BY <3>1, <3>2
  <2>2. RowCompleted(id, n, outcome)
    BY <2>1 DEF RowCompleted, Upsert
  <2>3. \/ exchange'[n].counted /\ UsageWritten(id, n)
        \/ ~exchange'[n].counted /\ usage' = usage
    BY <1>3, <1>6, <2>1 DEF UsageWritten, Upsert
  <2>4. CASE i = None
    <3>1. id = Orphan(n) /\ pending' = old
      BY <2>1, <2>4
    <3>2. id \notin DOMAIN usage \cup DOMAIN calls /\ \A m : id # Call(m)
      BY <1>2, <3>1, RowsDiffer DEF Kept, RowsOfExchanges
    <3>3. Queues(pending)'
      <4>1. \A q \in Streams : \A r \in Members(old[q]) :
              calls'[Call(r.n)] = calls[Call(r.n)] /\ Call(r.n) \notin DOMAIN usage'
        BY <1>1, <2>2, <2>3, <3>2 DEF RowCompleted, UsageWritten, Queues, Waits
      <4> QED
        BY <1>1, <1>2, <1>3, <2>2, <3>1, <4>1, WaitingStay DEF Kept, RowCompleted
    <3>4. Latest(pending)'
      BY <1>1, <1>2, <1>3, <3>1, LatestStays DEF Kept
    <3> QED
      BY <1>2, <1>3, <2>2, <2>3, <3>1, <3>2, <3>3, <3>4, KeptByComplete
  <2>5. CASE i # None
    <3> DEFINE m == old[s][i].n
               rest == Without(old[s], i)
    <3>1. i \in 1 .. Len(old[s]) /\ id = Call(m) /\ pending' = [old EXCEPT ![s] = rest]
      BY <1>4, <2>1, <2>5, MatchedWaits
    <3>2. Waits(s, old[s][i])
      BY <1>1, <1>4, <3>1 DEF Queues, Members
    <3>3. KeptOf(rest, old[s]) /\ \A r \in Members(rest) : r.n # m
      BY <1>4, <3>1, TakenIsGone
    <3> HIDE DEF rest
    <3>4. /\ pending' \in [Streams -> Seq(Waiting)] /\ pending'[s] = rest
          /\ \A q \in Streams : q # s => pending'[q] = old[q]
      BY <1>1, <1>4, <3>1, <3>3 DEF Queues, KeptOf
    <3>5. Queues(pending')
      <4> SUFFICES ASSUME NEW q \in Streams
                   PROVE  /\ Len(pending'[q]) <= MaxPending /\ Distinct(pending'[q])
                          /\ \A r \in Members(pending'[q]) : Waits(q, r)
        BY <3>4 DEF Queues
      <4>1. CASE q = s
        <5>1. Len(rest) \in Nat /\ Len(old[s]) \in Nat /\ MaxPending \in Nat
          BY <1>4, <3>3, PairingAssumption DEF KeptOf
        <5>2. Len(rest) <= MaxPending
          BY <1>1, <1>4, <3>3, <5>1 DEF Queues, KeptOf
        <5> QED
          BY <1>1, <1>4, <3>3, <3>4, <4>1, <5>2 DEF Queues, KeptOf
      <4>2. CASE q # s
        BY <1>1, <3>4, <4>2 DEF Queues
      <4> QED
        BY <4>1, <4>2
    <3>6. Queues(pending)'
      <4>1. ASSUME NEW q \in Streams, NEW r \in Members(pending'[q])
            PROVE  calls'[Call(r.n)] = calls[Call(r.n)] /\ Call(r.n) \notin DOMAIN usage'
        <5>1. Waits(q, r)
          BY <3>5 DEF Queues
        <5>2. r.n # m
          BY <3>2, <3>3, <3>4, <5>1 DEF Waits
        <5>3. Call(r.n) # id
          BY <3>1, <5>2, RowsDiffer
        <5> QED
          BY <2>2, <2>3, <5>1, <5>3 DEF RowCompleted, UsageWritten, Waits
      <4>2. PICK p : p = pending'
        OBVIOUS
      <4> QED
        BY <1>2, <1>3, <2>2, <3>5, <4>1, <4>2, WaitingStay DEF Kept, RowCompleted
    <3>7. Latest(pending)'
      BY <1>1, <1>2, <1>3, <3>4, LatestStays DEF Kept
    <3>8. id \notin DOMAIN usage /\ id \in DOMAIN calls /\ calls[id] = None
      BY <3>1, <3>2 DEF Waits
    <3>9. Distinguishable => m = n
      BY <1>1, <1>2, <2>5, MatchedIsOwn
    <3>10. Distinguishable => \A k \in Exchanges : id = Call(k) => k = n
      BY <3>1, <3>9, RowsDiffer
    <3> QED
      BY <1>2, <1>3, <2>2, <2>3, <3>6, <3>7, <3>8, <3>10, KeptByComplete
  <2> QED
    BY <2>4, <2>5
<1> QED
  BY <1>5, <1>6

\* so it always does.
LEMMA AlwaysKept == Spec => []Kept
<1>1. Kept /\ [Next]_vars => Kept'
  <2> SUFFICES ASSUME Kept, [Next]_vars
               PROVE  Kept'
    OBVIOUS
  <2>1. CASE UNCHANGED vars
    BY <2>1 DEF vars, Kept, Shape, RowsOfExchanges, Queues, Latest, Counted, OwnResponse, Waits,
                Distinguishable, Exchanges, Call, Orphan
  <2>2. ASSUME NEW n \in Exchanges, Lose(n)
        PROVE  Kept'
    BY <2>2, KeptByLose
  <2>3. CASE Tick \/ \E time \in 0 .. now : Other(time)
    BY <2>3, KeptByOther
  <2>4. ASSUME NEW s \in traffic.streams, NEW scheme \in traffic.schemes,
               NEW llm \in {TRUE, ~traffic.others}, NEW time \in 0 .. now, NEW outcome \in Outcomes,
               Request(s, scheme, llm, time, outcome)
        PROVE  Kept'
    BY <2>4, KeptByRequest
  <2>5. ASSUME NEW n \in Exchanges, NEW classified \in BOOLEAN, NEW withUsage \in BOOLEAN,
               NEW time \in 0 .. now, NEW outcome \in Outcomes,
               Response(n, classified, withUsage, time, outcome)
        PROVE  Kept'
    BY <2>5, KeptByResponse
  <2> QED
    BY <2>1, <2>2, <2>3, <2>4, <2>5 DEF Next
<1> QED
  BY KeptAtFirst, <1>1, PTL DEF Spec

\* A call is completed by the response to its own request, where requests and
\* responses can be told apart (take_matching_request).
THEOREM ResponsesAreOwn == Spec => []OwnResponse
<1>1. Kept => OwnResponse
  BY DEF Kept
<1> QED
  BY AlwaysKept, <1>1, PTL

\* Usage in an ingested response is counted once, in the row it completed
\* (ingest_llm_response, with apply_token_usage under the same id).
THEOREM UsageIsCounted == Spec => []UsageCountedOnce
<1>1. Kept => UsageCountedOnce
  <2> SUFFICES ASSUME Kept
               PROVE  UsageCountedOnce
    OBVIOUS
  <2>1. \A s \in Streams : \A i \in 1 .. Len(pending[s]) :
          /\ pending[s][i].time \in 0 .. now /\ Waits(s, pending[s][i])
          /\ \A j \in 1 .. i - 1 : pending[s][j].n # pending[s][i].n
    <3> SUFFICES ASSUME NEW s \in Streams, NEW i \in 1 .. Len(pending[s])
                 PROVE  /\ pending[s][i].time \in 0 .. now /\ Waits(s, pending[s][i])
                        /\ \A j \in 1 .. i - 1 : pending[s][j].n # pending[s][i].n
      OBVIOUS
    <3>1. pending[s] \in Seq(Waiting) /\ Distinct(pending[s]) /\ now \in Nat
      BY DEF Kept, Queues, Shape
    <3>2. pending[s][i] \in Waiting /\ Waits(s, pending[s][i])
      BY <3>1 DEF Kept, Queues, Members
    <3>3. pending[s][i].time \in 0 .. now
      BY <3>1, <3>2 DEF Waits, Waiting
    <3>4. \A j \in 1 .. i - 1 : j \in 1 .. Len(pending[s]) /\ j # i
      BY <3>1
    <3> QED
      BY <3>1, <3>2, <3>3, <3>4 DEF Distinct
  <2>2. DOMAIN usage \subseteq {Call(n) : n \in Exchanges} \cup {Orphan(n) : n \in Exchanges}
    BY DEF Kept, RowsOfExchanges
  <2>3. TypeOK
    BY <2>1, <2>2 DEF TypeOK, Waits, Kept, Queues
  <2>4. ASSUME NEW n \in Exchanges
        PROVE  Cardinality({c \in DOMAIN usage : usage[c] = n}) = IF exchange[n].counted THEN 1 ELSE 0
    <3>1. CASE exchange[n].counted
      <4>1. PICK c \in DOMAIN usage : usage[c] = n
        BY <3>1 DEF Kept, Counted
      <4>2. {d \in DOMAIN usage : usage[d] = n} = {c}
        BY <4>1 DEF Kept, Counted
      <4> QED
        BY <3>1, <4>2, FS_Singleton
    <3>2. CASE ~exchange[n].counted
      <4>1. {d \in DOMAIN usage : usage[d] = n} = {}
        BY <3>2 DEF Kept, Counted
      <4> QED
        BY <3>2, <4>1, FS_EmptySet
    <3> QED
      BY <3>1, <3>2
  <2> QED
    BY <2>3, <2>4 DEF UsageCountedOnce, Kept, Counted
<1> QED
  BY AlwaysKept, <1>1, PTL

\* Nothing is written over the row of a completed call (apply_llm_call is only
\* given ids of pending rows and new ones).
THEOREM CompletedStays == Spec => CompleteIsFinal
<1>1. ASSUME Kept, [Next]_vars, NEW c \in DOMAIN calls, calls[c] # None
      PROVE  calls'[c] = calls[c]
  <2>1. CASE calls' = calls
    BY <2>1
  <2>2. ASSUME NEW s \in traffic.streams, NEW scheme \in traffic.schemes,
               NEW llm \in {TRUE, ~traffic.others}, NEW time \in 0 .. now, NEW outcome \in Outcomes,
               Request(s, scheme, llm, time, outcome)
        PROVE  calls'[c] = calls[c]
    <3>1. calls' = calls \/ calls' = Upsert(calls, Call(Len(exchange) + 1), None)
      BY <2>2 DEF Request
    <3>2. c # Call(Len(exchange) + 1)
      <4>1. Len(exchange) + 1 \notin Exchanges
        BY <1>1 DEF Kept, Shape, Exchanges
      <4> QED
        BY <1>1, <4>1, RowsDiffer DEF Kept, RowsOfExchanges
    <3> QED
      BY <3>1, <3>2 DEF Upsert
  <2>3. ASSUME NEW n \in Exchanges, NEW classified \in BOOLEAN, NEW withUsage \in BOOLEAN,
               NEW time \in 0 .. now, NEW outcome \in Outcomes,
               Response(n, classified, withUsage, time, outcome)
        PROVE  calls'[c] = calls[c]
    <3> DEFINE s == exchange[n].stream
               old == [q \in Streams |-> Pruned(pending[q], time)]
               i == Match(old[s], ResponseId(n))
    <3>1. Queues(old)
      BY <1>1, PrunedQueues DEF Kept
    <3>2. /\ exchange[n].open
          /\ \/ calls' = calls
             \/ i = None /\ calls' = Upsert(calls, Orphan(n), n)
             \/ i # None /\ calls' = Upsert(calls, Call(old[s][i].n), n)
      BY <2>3 DEF Response, Complete
    <3> HIDE DEF old
    <3>3. c # Orphan(n)
      BY <1>1, <3>2, RowsDiffer DEF Kept, RowsOfExchanges
    <3>4. i # None => c # Call(old[s][i].n)
      <4> SUFFICES ASSUME i # None
                   PROVE  c # Call(old[s][i].n)
        OBVIOUS
      <4>1. s \in Streams
        BY <1>1, ExchangeShape DEF Kept
      <4>2. old[s] \in Seq(Waiting)
        BY <3>1, <4>1 DEF Queues
      <4>3. Waits(s, old[s][i])
        BY <3>1, <4>1, <4>2, MatchedWaits DEF Queues, Members
      <4> QED
        BY <1>1, <4>3 DEF Waits
    <3> QED
      BY <3>2, <3>3, <3>4 DEF Upsert
  <2> QED
    BY <1>1, <2>1, <2>2, <2>3 DEF Next, Tick, Lose, Other, vars
<1>2. Kept /\ [Next]_vars => [\A c \in DOMAIN calls : calls[c] # None => calls'[c] = calls[c]]_vars
  BY <1>1
<1> QED
  BY AlwaysKept, <1>2, PTL DEF Spec, CompleteIsFinal

-----------------------------------------------------------------------------
\* The pid file of the background monitor

MonPlaces == {"read", "verify", "remove", "open", "truncate", "write", "work", "select", "sleep", "guard",
              "unlink", "exited"}
MonFiles == [state : {"absent", "partial", "whole"}, pid : Nat, by : Nat]
MonTypes == [kind : Monitor!Kinds, pid : MonPids \cup {0}, pc : MonPlaces, seen : MonFiles,
             asked : BOOLEAN, ok : BOOLEAN]

MonUsing == {"verify", "remove", "open", "truncate", "write", "unlink"}
MonServing == {"work", "select", "sleep", "guard", "unlink"}

MonShape ==
  /\ monInst \in Seq(MonTypes) /\ monFile \in MonFiles /\ monDb \in BOOLEAN
  /\ monFile.by \in DOMAIN monInst \cup {0}

\* A PID is of one program that has not exited, top needs none, and never gets to
\* the place where the file is written.
MonOwnPids ==
  /\ \A i \in DOMAIN monInst :
       LET r == monInst[i] IN
         /\ r.pc = "exited" => r.pid = 0
         /\ r.pc # "exited" /\ r.kind # "top" => r.pid # 0
         /\ r.kind = "top" => r.pc \in {"read", "verify", "remove"}
  /\ \A i, j \in DOMAIN monInst : monInst[i].pid = monInst[j].pid /\ monInst[i].pid # 0 => i = j

\* A monitor that nobody has disturbed is named in the file.
MonNamed ==
  \A i \in DOMAIN monInst \ monDisturbed :
    /\ monInst[i].pc \in MonServing =>
         monFile.state = "whole" /\ monFile.by = i /\ monFile.pid = monInst[i].pid
    /\ monInst[i].pc \in MonServing \cup {"truncate", "write"} => monDb

\* While it uses the file no other does, and while it serves others do not get
\* beyond finding that its PID lives.
MonAlone ==
  \A i \in DOMAIN monInst \ monDisturbed, j \in DOMAIN monInst :
    i # j /\ monInst[j].pc \in MonUsing =>
    /\ monInst[i].pc \notin MonUsing
    /\ monInst[i].pc \in MonServing =>
         monInst[j].pc = "verify" /\ monInst[j].seen.pid = monInst[i].pid

MonKept == MonShape /\ MonOwnPids /\ MonNamed /\ MonAlone

LEMMA MonWords ==
  /\ Monitor!Kinds = {"service", "user", "top"}
  /\ Monitor!Absent \in MonFiles /\ Monitor!Absent.by = 0 /\ Monitor!Absent.pid = 0
  /\ Monitor!Partial \in MonFiles /\ Monitor!Partial.by = 0
  /\ Monitor!Exited \in MonTypes /\ Monitor!Exited.pc = "exited" /\ Monitor!Exited.pid = 0
  /\ Monitor!Exited.kind = "user"
  /\ \A i : Monitor!UsesFile(i) <=> monInst[i].pc \in MonUsing
  /\ \A i : Monitor!Serving(i) <=> monInst[i].pc \in MonServing
  /\ \A i : Monitor!Alive(i) <=> monInst[i].pc # "exited"
BY DEF Monitor!Kinds, Monitor!Absent, Monitor!Partial, Monitor!Exited, MonFiles, MonTypes,
       MonPlaces, Monitor!UsesFile, Monitor!Serving, Monitor!Alive, MonUsing, MonServing

LEMMA MonAtFirst == Monitor!Init => MonKept
<1> SUFFICES ASSUME Monitor!Init
             PROVE  MonKept
  OBVIOUS
<1>1. monInst = << >> /\ DOMAIN monInst = {} /\ monInst \in Seq(MonTypes)
  BY DEF Monitor!Init
<1>2. monFile \in MonFiles /\ monFile.by = 0
  BY CollectorAssumption, MonWords DEF Monitor!Init, Monitor!MonitorAssumption, MonFiles
<1>3. monDb \in BOOLEAN
  BY DEF Monitor!Init
<1> QED
  BY <1>1, <1>2, <1>3 DEF MonKept, MonShape, MonOwnPids, MonNamed, MonAlone

-----------------------------------------------------------------------------
\* One program takes a step.
LEMMA MonOne ==
  ASSUME MonShape, NEW i \in DOMAIN monInst, NEW r \in MonTypes,
         monInst' = [monInst EXCEPT ![i] = r]
  PROVE  /\ monInst' \in Seq(MonTypes) /\ DOMAIN monInst' = DOMAIN monInst /\ monInst'[i] = r
         /\ \A j \in DOMAIN monInst : j # i => monInst'[j] = monInst[j]
<1>1. monInst \in Seq(MonTypes)
  BY DEF MonShape
<1> QED
  BY <1>1

LEMMA MonKeptByOne ==
  ASSUME MonKept, NEW i \in DOMAIN monInst, NEW r \in MonTypes,
         monInst' = [monInst EXCEPT ![i] = r],
         monFile' \in MonFiles, monFile'.by \in DOMAIN monInst \cup {0}, monDb' \in BOOLEAN,
         monDb => monDb', monDisturbed \subseteq monDisturbed',
         \/ r.pc = "exited" /\ r.pid = 0 /\ r.kind # "top"
         \/ /\ r.pc # "exited" /\ monInst[i].pc # "exited"
            /\ r.pid = monInst[i].pid /\ r.kind = monInst[i].kind
            /\ r.kind = "top" => r.pc \in {"read", "verify", "remove"},
         \* what others have in the file stays
         \/ monFile' = monFile
         \/ \A j \in DOMAIN monInst \ monDisturbed : j # i => monInst[j].pc \notin MonServing,
         \* it has come to use the file before others, or now
         r.pc \in MonUsing =>
           /\ monInst[i].pc \in MonUsing \/ Monitor!Disturbs(i)
           /\ \A j \in DOMAIN monInst \ monDisturbed : j # i /\ monInst[j].pc \in MonServing =>
                r.pc = "verify" /\ r.seen.pid = monInst[j].pid,
         \* it serves, with its name in the file
         r.pc \in MonServing /\ i \notin monDisturbed' =>
           /\ monFile'.state = "whole" /\ monFile'.by = i /\ monFile'.pid = r.pid
           /\ monInst[i].pc \in MonServing \cup MonUsing,
         r.pc \in MonServing \cup {"truncate", "write"} /\ i \notin monDisturbed' => monDb'
  PROVE  MonKept'
<1> USE DEF MonKept
<1> DEFINE I == monInst
<1>0. MonShape
  OBVIOUS
<1>1. /\ I' \in Seq(MonTypes) /\ DOMAIN I' = DOMAIN I /\ I'[i] = r
      /\ \A j \in DOMAIN I : j # i => I'[j] = I[j]
  BY <1>0, MonOne
<1>2. MonShape'
  BY <1>1 DEF MonShape
<1>3. MonOwnPids'
  BY <1>1 DEF MonOwnPids
<1>4. MonNamed'
  <2> SUFFICES ASSUME NEW k \in DOMAIN I, k \notin monDisturbed'
               PROVE  /\ I'[k].pc \in MonServing =>
                           monFile'.state = "whole" /\ monFile'.by = k /\ monFile'.pid = I'[k].pid
                      /\ I'[k].pc \in MonServing \cup {"truncate", "write"} => monDb'
    BY <1>1 DEF MonNamed
  <2>1. CASE k = i
    BY <1>1, <2>1
  <2>2. CASE k # i
    BY <1>1, <2>2 DEF MonNamed
  <2> QED
    BY <2>1, <2>2
<1>5. MonAlone'
  <2> SUFFICES ASSUME NEW k \in DOMAIN I, k \notin monDisturbed', NEW l \in DOMAIN I, k # l,
                      I'[l].pc \in MonUsing
               PROVE  /\ I'[k].pc \notin MonUsing
                      /\ I'[k].pc \in MonServing =>
                           I'[l].pc = "verify" /\ I'[l].seen.pid = I'[k].pid
    BY <1>1 DEF MonAlone
  <2>1. ASSUME Monitor!Disturbs(i), NEW j \in DOMAIN I, j # i, I[j].pc \in MonUsing
        PROVE  i \in monDisturbed' /\ j \in monDisturbed'
    <3>1. Monitor!UsesFile(j)
      BY <2>1, MonWords
    <3> QED
      BY <2>1, <3>1 DEF Monitor!Disturbs
  <2>2. CASE k = i
    <3>1. I'[l] = I[l] /\ I[l].pc \in MonUsing /\ i \notin monDisturbed
      BY <1>1, <2>2
    <3>2. I[i].pc \notin MonUsing
      BY <2>2, <3>1 DEF MonAlone
    <3>3. r.pc \notin MonUsing
      BY <2>1, <2>2, <3>1, <3>2
    <3>4. r.pc \in MonServing => /\ I[i].pc \in MonServing /\ r.pid = I[i].pid
      BY <2>2, <3>2 DEF MonServing
    <3> QED
      BY <1>1, <2>2, <3>1, <3>3, <3>4 DEF MonAlone
  <2>3. CASE l = i
    <3>1. I'[k] = I[k] /\ r.pc \in MonUsing /\ k \notin monDisturbed
      BY <1>1, <2>3
    <3>2. I[k].pc \notin MonUsing
      <4>1. CASE I[i].pc \in MonUsing
        BY <2>3, <3>1, <4>1 DEF MonAlone
      <4>2. CASE Monitor!Disturbs(i)
        BY <2>1, <2>3, <4>2
      <4> QED
        BY <3>1, <4>1, <4>2
    <3> QED
      BY <1>1, <2>3, <3>1, <3>2
  <2>4. CASE k # i /\ l # i
    BY <1>1, <2>4 DEF MonAlone
  <2> QED
    BY <2>2, <2>3, <2>4
<1> QED
  BY <1>2, <1>3, <1>4, <1>5

\* It ends.
LEMMA MonKeptByEnd ==
  ASSUME MonKept, NEW i \in DOMAIN monInst, NEW ok \in BOOLEAN, Monitor!Ends(i, ok),
         monFile' \in MonFiles, monFile'.by \in DOMAIN monInst \cup {0}, monDb' = monDb,
         monDisturbed \subseteq monDisturbed',
         \/ monFile' = monFile
         \/ \A j \in DOMAIN monInst \ monDisturbed : j # i => monInst[j].pc \notin MonServing
  PROVE  MonKept'
<1> DEFINE r == Monitor!Exited
<1>1. r \in MonTypes /\ r.pc = "exited" /\ r.pid = 0 /\ r.kind # "top"
  BY MonWords
<1>2. monInst' = [monInst EXCEPT ![i] = r]
  BY DEF Monitor!Ends
<1>3. r.pc \notin MonUsing /\ r.pc \notin MonServing \cup {"truncate", "write"}
  BY <1>1 DEF MonUsing, MonServing
<1>4. monDb' \in BOOLEAN
  BY DEF MonKept, MonShape
<1> HIDE DEF r
<1> QED
  BY <1>1, <1>2, <1>3, <1>4, MonKeptByOne

\* It goes on to another place, with the file as it is.
LEMMA MonKeptByGo ==
  ASSUME MonKept, NEW i \in DOMAIN monInst, NEW r \in MonTypes,
         monInst' = [monInst EXCEPT ![i] = r], monInst[i].pc \in MonServing,
         r.pc \in MonServing \ MonUsing,
         r.pid = monInst[i].pid, r.kind = monInst[i].kind,
         UNCHANGED <<monFile, monDb, monDisturbed>>
  PROVE  MonKept'
<1> USE DEF MonKept
<1>1. monInst[i].pc # "exited" /\ r.pc # "exited"
  BY DEF MonServing
<1>2. r.kind # "top"
  BY DEF MonOwnPids, MonServing
<1>3. monFile' \in MonFiles /\ monFile'.by \in DOMAIN monInst \cup {0} /\ monDb' \in BOOLEAN
  BY DEF MonShape
<1>4. i \notin monDisturbed' =>
        /\ monFile'.state = "whole" /\ monFile'.by = i /\ monFile'.pid = r.pid /\ monDb'
  BY DEF MonNamed
<1> QED
  BY <1>1, <1>2, <1>3, <1>4, MonKeptByOne

-----------------------------------------------------------------------------
\* The programs' steps
LEMMA MonTyped ==
  ASSUME MonShape, NEW i \in DOMAIN monInst
  PROVE  /\ monInst[i] \in MonTypes
         /\ \A pc \in MonPlaces : [monInst[i] EXCEPT !.pc = pc] \in MonTypes
<1>1. monInst[i] \in MonTypes
  BY DEF MonShape
<1> QED
  BY <1>1 DEF MonTypes

LEMMA MonKeptByRead ==
  ASSUME MonKept, NEW i \in DOMAIN monInst, Monitor!Read(i)
  PROVE  MonKept'
<1> USE DEF MonKept
<1>1. monInst[i] \in MonTypes /\ monInst[i].pc = "read" /\ UNCHANGED <<monFile, monDb>>
      /\ Monitor!Disturbs(i)
  BY MonTyped DEF Monitor!Read, Monitor!At
<1>2. monFile \in MonFiles /\ monFile.by \in DOMAIN monInst \cup {0} /\ monDb \in BOOLEAN
      /\ monDisturbed \subseteq monDisturbed'
  BY <1>1 DEF MonShape, Monitor!Disturbs
<1>3. CASE monFile.state = "whole"
  <2> DEFINE r == [monInst[i] EXCEPT !.pc = "verify", !.seen = monFile]
  <2>1. monInst' = [monInst EXCEPT ![i] = r]
    BY <1>3 DEF Monitor!Read
  <2>2. r \in MonTypes /\ r.pc = "verify" /\ r.seen = monFile /\ r.pid = monInst[i].pid
        /\ r.kind = monInst[i].kind
    BY <1>1, <1>2 DEF MonTypes, MonPlaces
  <2>3. \A j \in DOMAIN monInst \ monDisturbed : monInst[j].pc \in MonServing =>
          r.seen.pid = monInst[j].pid
    BY <2>2 DEF MonNamed
  <2>4. r.pc \notin MonServing \cup {"truncate", "write"}
    BY <2>2 DEF MonServing
  <2> HIDE DEF r
  <2> QED
    BY <1>1, <1>2, <2>1, <2>2, <2>3, <2>4, MonKeptByOne
<1>4. CASE monFile.state # "whole" /\ monInst[i].kind = "top"
  <2>1. Monitor!Ends(i, TRUE)
    BY <1>4 DEF Monitor!Read
  <2> QED
    BY <1>1, <1>2, <2>1, MonKeptByEnd
<1>5. CASE monFile.state # "whole" /\ monInst[i].kind # "top"
  <2> DEFINE r == [monInst[i] EXCEPT !.pc = "open"]
  <2>1. monInst' = [monInst EXCEPT ![i] = r]
    BY <1>5 DEF Monitor!Read, Monitor!Goto
  <2>2. r \in MonTypes /\ r.pc = "open" /\ r.pid = monInst[i].pid /\ r.kind = monInst[i].kind
    BY <1>1 DEF MonTypes, MonPlaces
  <2>3. \A j \in DOMAIN monInst \ monDisturbed : monInst[j].pc \notin MonServing
    BY <1>5 DEF MonNamed
  <2>4. r.pc \notin MonServing \cup {"truncate", "write"}
    BY <2>2 DEF MonServing
  <2> HIDE DEF r
  <2> QED
    BY <1>1, <1>2, <1>5, <2>1, <2>2, <2>3, <2>4, MonKeptByOne
<1> QED
  BY <1>3, <1>4, <1>5

LEMMA MonKeptByVerify ==
  ASSUME MonKept, NEW i \in DOMAIN monInst, Monitor!Verify(i)
  PROVE  MonKept'
<1> USE DEF MonKept
<1>1. monInst[i] \in MonTypes /\ monInst[i].pc = "verify"
      /\ UNCHANGED <<monFile, monDb, monDisturbed>>
  BY MonTyped DEF Monitor!Verify, Monitor!At
<1>2. monFile \in MonFiles /\ monFile.by \in DOMAIN monInst \cup {0} /\ monDb \in BOOLEAN
  BY DEF MonShape
<1>3. CASE Monitor!PidIsAlive(monInst[i].seen.pid) /\ monDb
  <2>1. Monitor!Ends(i, TRUE)
    BY <1>3 DEF Monitor!Verify
  <2> QED
    BY <1>1, <1>2, <2>1, MonKeptByEnd
<1>4. CASE ~(Monitor!PidIsAlive(monInst[i].seen.pid) /\ monDb)
  <2> DEFINE r == [monInst[i] EXCEPT !.pc = "remove"]
  <2>1. monInst' = [monInst EXCEPT ![i] = r]
    BY <1>4 DEF Monitor!Verify, Monitor!Goto
  <2>2. r \in MonTypes /\ r.pc = "remove" /\ r.pid = monInst[i].pid /\ r.kind = monInst[i].kind
    BY <1>1 DEF MonTypes, MonPlaces
  <2>3. ASSUME NEW j \in DOMAIN monInst \ monDisturbed, j # i, monInst[j].pc \in MonServing
        PROVE  FALSE
    <3>1. monInst[i].pc \in MonUsing
      BY <1>1 DEF MonUsing
    <3>2. monInst[i].seen.pid = monInst[j].pid /\ monDb
      BY <2>3, <3>1 DEF MonAlone, MonNamed
    <3>3. Monitor!Alive(j)
      BY <2>3, MonWords DEF MonServing
    <3> QED
      BY <1>4, <3>2, <3>3 DEF Monitor!PidIsAlive
  <2>4. r.pc \notin MonServing \cup {"truncate", "write"} /\ monInst[i].pc \in MonUsing
    BY <1>1, <2>2 DEF MonServing, MonUsing
  <2> HIDE DEF r
  <2> QED
    BY <1>1, <1>2, <2>1, <2>2, <2>3, <2>4, MonKeptByOne
<1> QED
  BY <1>3, <1>4

\* Who may change the file finds nobody serving undisturbed.
LEMMA MonNobodyElse ==
  ASSUME MonKept, NEW i \in DOMAIN monInst, monInst[i].pc \in MonUsing \ {"verify"},
         NEW j \in DOMAIN monInst \ monDisturbed, j # i
  PROVE  monInst[j].pc \notin MonServing
BY DEF MonKept, MonAlone

LEMMA MonKeptByStart ==
  ASSUME MonKept, NEW i \in DOMAIN monInst,
         \/ Monitor!RemoveStale(i) \/ Monitor!OpenStore(i) \/ Monitor!Truncate(i)
         \/ Monitor!WritePid(i) \/ Monitor!Unlink(i)
  PROVE  MonKept'
<1> USE DEF MonKept
<1>1. monInst[i] \in MonTypes /\ UNCHANGED monDisturbed
      /\ monInst[i].pc \in {"remove", "open", "truncate", "write", "unlink"}
  BY MonTyped DEF Monitor!RemoveStale, Monitor!OpenStore, Monitor!Truncate, Monitor!WritePid,
                  Monitor!Unlink, Monitor!At
<1>2. monInst[i].pc \in MonUsing \ {"verify"}
  BY <1>1 DEF MonUsing
<1>3. \A j \in DOMAIN monInst \ monDisturbed : j # i => monInst[j].pc \notin MonServing
  BY <1>2, MonNobodyElse
<1>4. monDb \in BOOLEAN
  BY DEF MonShape
<1>5. CASE Monitor!Unlink(i) \/ (Monitor!RemoveStale(i) /\ monInst[i].kind = "top")
  <2>1. monInst[i].ok \in BOOLEAN
    BY <1>1 DEF MonTypes
  <2>2. PICK ok \in BOOLEAN : Monitor!Ends(i, ok)
    BY <1>5, <2>1 DEF Monitor!Unlink, Monitor!RemoveStale
  <2>3. monFile' = Monitor!Absent /\ monDb' = monDb
    BY <1>5 DEF Monitor!Unlink, Monitor!RemoveStale
  <2>4. monFile' \in MonFiles /\ monFile'.by \in DOMAIN monInst \cup {0}
    BY <2>3, MonWords
  <2> QED
    BY <1>1, <1>3, <2>2, <2>3, <2>4, MonKeptByEnd
<1>6. CASE \/ Monitor!RemoveStale(i) /\ monInst[i].kind # "top"
           \/ Monitor!OpenStore(i) \/ Monitor!Truncate(i)
  <2> DEFINE pc == IF monInst[i].pc = "remove" THEN "open"
                   ELSE IF monInst[i].pc = "open" THEN "truncate" ELSE "write"
             r == [monInst[i] EXCEPT !.pc = pc]
  <2>1. /\ monInst' = [monInst EXCEPT ![i] = r] /\ monFile' \in {monFile, Monitor!Absent, Monitor!Partial}
        /\ monDb' = monDb \/ monDb' = TRUE
        /\ monInst[i].pc = "open" => monDb' = TRUE
        /\ monInst[i].pc \in {"remove", "open", "truncate"}
        /\ monInst[i].pc = "remove" => monInst[i].kind # "top"
    BY <1>6 DEF Monitor!RemoveStale, Monitor!OpenStore, Monitor!Truncate, Monitor!At, Monitor!Goto
  <2>2. monInst[i].kind # "top" /\ (i \notin monDisturbed /\ monInst[i].pc = "truncate" => monDb)
    BY <2>1 DEF MonOwnPids, MonNamed
  <2>3. r \in MonTypes /\ r.pc = pc /\ r.pid = monInst[i].pid /\ r.kind = monInst[i].kind
    BY <1>1 DEF MonTypes, MonPlaces
  <2>4. pc \notin MonServing /\ pc # "exited"
    BY DEF MonServing
  <2>5. monFile' \in MonFiles /\ monFile'.by \in DOMAIN monInst \cup {0}
    BY <2>1, MonWords DEF MonShape
  <2> HIDE DEF pc, r
  <2>6. monInst[i].pc # "exited" /\ r.pc # "exited" /\ r.kind # "top"
    BY <2>1, <2>2, <2>3, <2>4
  <2>7. monDb' \in BOOLEAN /\ (monDb => monDb')
    <3>1. CASE monDb' = monDb
      BY <1>4, <3>1
    <3>2. CASE monDb' = TRUE
      BY <3>2
    <3> QED
      BY <2>1, <3>1, <3>2
  <2>10. r.pc \in MonServing \cup {"truncate", "write"} /\ i \notin monDisturbed' => monDb'
    <3>1. r.pc \in MonServing \cup {"truncate", "write"} => monInst[i].pc \in {"open", "truncate"}
      BY <2>1, <2>3 DEF MonServing, pc
    <3> QED
      BY <1>1, <2>1, <2>2, <2>7, <3>1
  <2>8. r.pc \notin MonServing /\ monInst[i].pc \in MonUsing
    BY <1>2, <2>3, <2>4
  <2>9. monInst' = [monInst EXCEPT ![i] = r] /\ monDisturbed \subseteq monDisturbed'
    BY <1>1, <2>1
  <2> QED
    BY <1>3, <2>3, <2>5, <2>6, <2>7, <2>8, <2>9, <2>10, MonKeptByOne
<1>7. CASE Monitor!WritePid(i)
  <2> DEFINE r == [monInst[i] EXCEPT !.pc = "work"]
  <2>1. /\ monInst' = [monInst EXCEPT ![i] = r] /\ monDb' = monDb
        /\ monFile' = [state |-> "whole", pid |-> monInst[i].pid, by |-> i]
        /\ monInst[i].pc = "write"
    BY <1>7 DEF Monitor!WritePid, Monitor!At, Monitor!Goto
  <2>2. monInst[i].kind # "top"
    BY <2>1 DEF MonOwnPids
  <2>3. r \in MonTypes /\ r.pc = "work" /\ r.pid = monInst[i].pid /\ r.kind = monInst[i].kind
    BY <1>1 DEF MonTypes, MonPlaces
  <2>4. r.pc \notin MonUsing
    BY <2>3 DEF MonUsing
  <2>5. monFile' \in MonFiles /\ monFile'.by \in DOMAIN monInst \cup {0}
    <3>0. monInst[i].pid \in MonPids \cup {0}
      BY <1>1 DEF MonTypes
    <3>1. monInst[i].pid \in Nat
      <4>1. MonPids \subseteq Nat
        BY CollectorAssumption DEF Monitor!MonitorAssumption
      <4>2. PICK q \in MonPids \cup {0} : monInst[i].pid = q
        BY <3>0
      <4>3. q \in Nat
        BY <4>1
      <4> QED
        BY <4>2, <4>3
    <3>2. monInst \in Seq(MonTypes) /\ i \in Nat
      BY DEF MonShape
    <3> QED
      BY <2>1, <3>1, <3>2 DEF MonFiles
  <2>6. i \notin monDisturbed => monDb
    BY <2>1 DEF MonNamed
  <2> HIDE DEF r
  <2> QED
    BY <1>1, <1>2, <1>3, <1>4, <2>1, <2>2, <2>3, <2>4, <2>5, <2>6, MonKeptByOne
<1> QED
  BY <1>5, <1>6, <1>7

\* Asked is pc "guard" for "sleep" and sets the flag.
LEMMA MonAsked ==
  ASSUME MonShape, NEW i \in DOMAIN monInst
  PROVE  /\ Monitor!Asked(i) \in MonTypes
         /\ Monitor!Asked(i).pid = monInst[i].pid /\ Monitor!Asked(i).kind = monInst[i].kind
         /\ Monitor!Asked(i).seen = monInst[i].seen
         /\ Monitor!Asked(i).pc = IF monInst[i].pc = "sleep" THEN "guard" ELSE monInst[i].pc
<1>1. monInst[i] \in MonTypes
  BY MonTyped
<1> QED
  BY <1>1 DEF Monitor!Asked, MonTypes, MonPlaces

LEMMA MonKeptByLoop ==
  ASSUME MonKept, NEW i \in DOMAIN monInst, Monitor!Work(i) \/ Monitor!Wait(i)
  PROVE  MonKept'
<1>1. monInst[i] \in MonTypes /\ monInst \in Seq(MonTypes)
  BY MonTyped DEF MonKept, MonShape
<1>2. PICK place \in {"work", "select", "sleep", "guard"} :
        /\ monInst' = [monInst EXCEPT ![i] = [@ EXCEPT !.pc = place]]
        /\ monInst[i].pc \in {"work", "select", "sleep"}
        /\ UNCHANGED <<monFile, monDb, monDisturbed>>
  BY DEF Monitor!Work, Monitor!Wait, Monitor!At, Monitor!Goto
<1> DEFINE s == [monInst[i] EXCEPT !.pc = place]
<1>3. s \in MonTypes /\ s.pc = place /\ s.pid = monInst[i].pid /\ s.kind = monInst[i].kind
  BY <1>1 DEF MonTypes, MonPlaces
<1>4. monInst' = [monInst EXCEPT ![i] = s]
  BY <1>2
<1>5. monInst[i].pc \in MonServing /\ s.pc \in MonServing \ MonUsing
  BY <1>2, <1>3 DEF MonServing, MonUsing
<1> HIDE DEF s
<1> QED
  BY <1>2, <1>3, <1>4, <1>5, MonKeptByGo

LEMMA MonKeptByGuard ==
  ASSUME MonKept, NEW i \in DOMAIN monInst, Monitor!Guard(i)
  PROVE  MonKept'
<1> USE DEF MonKept
<1>1. monInst[i] \in MonTypes /\ monInst[i].pc = "guard" /\ UNCHANGED <<monFile, monDb>>
      /\ Monitor!Disturbs(i)
  BY MonTyped DEF Monitor!Guard, Monitor!At
<1>2. monFile \in MonFiles /\ monFile.by \in DOMAIN monInst \cup {0} /\ monDb \in BOOLEAN
      /\ monDisturbed \subseteq monDisturbed'
  BY <1>1 DEF MonShape, Monitor!Disturbs
<1>3. CASE monFile.state = "whole" /\ monFile.pid = monInst[i].pid
  <2> DEFINE r == [monInst[i] EXCEPT !.pc = "unlink"]
  <2>1. monInst' = [monInst EXCEPT ![i] = r]
    BY <1>3 DEF Monitor!Guard, Monitor!Goto
  <2>2. r \in MonTypes /\ r.pc = "unlink" /\ r.pid = monInst[i].pid /\ r.kind = monInst[i].kind
    BY <1>1 DEF MonTypes, MonPlaces
  <2>3. monInst[i].kind # "top" /\ monInst[i].pid # 0
    BY <1>1 DEF MonOwnPids
  <2>4. ASSUME NEW j \in DOMAIN monInst \ monDisturbed, j # i, monInst[j].pc \in MonServing
        PROVE  FALSE
    <3>1. monInst[j].pid = monInst[i].pid
      BY <1>3, <2>4 DEF MonNamed
    <3> QED
      BY <2>3, <2>4, <3>1 DEF MonOwnPids
  <2>5. monInst[i].pc \in MonServing
    BY <1>1 DEF MonServing
  <2>6. i \notin monDisturbed' => monFile.state = "whole" /\ monFile.by = i /\ monDb
    BY <1>2, <2>5 DEF MonNamed
  <2> HIDE DEF r
  <2> QED
    BY <1>1, <1>2, <1>3, <2>1, <2>2, <2>3, <2>4, <2>5, <2>6, MonKeptByOne
<1>4. CASE ~(monFile.state = "whole" /\ monFile.pid = monInst[i].pid)
  <2>1. monInst[i].ok \in BOOLEAN /\ Monitor!Ends(i, monInst[i].ok)
    BY <1>1, <1>4 DEF Monitor!Guard, MonTypes
  <2> QED
    BY <1>1, <1>2, <2>1, MonKeptByEnd
<1> QED
  BY <1>3, <1>4

-----------------------------------------------------------------------------
\* What goes wrong, and signals
LEMMA MonKeptByFailure ==
  ASSUME MonKept, NEW i \in DOMAIN monInst,
         Monitor!Fails(i) \/ Monitor!Crash(i) \/ Monitor!Signal(i)
  PROVE  MonKept'
<1> USE DEF MonKept
<1>1. UNCHANGED <<monFile, monDb, monDisturbed>>
  BY DEF Monitor!Fails, Monitor!Crash, Monitor!Signal
<1>2. monFile \in MonFiles /\ monFile.by \in DOMAIN monInst \cup {0} /\ monDb \in BOOLEAN
      /\ monInst[i] \in MonTypes
  BY MonTyped DEF MonShape
<1>3. CASE Monitor!Ends(i, FALSE)
  BY <1>1, <1>2, <1>3, MonKeptByEnd
<1>4. CASE Monitor!Fails(i) /\ ~Monitor!Ends(i, FALSE)
  <2> DEFINE r == [monInst[i] EXCEPT !.pc = "guard", !.ok = FALSE]
  <2>1. monInst' = [monInst EXCEPT ![i] = r] /\ monInst[i].pc \in {"work", "guard"}
    BY <1>4 DEF Monitor!Fails, Monitor!At
  <2>2. r \in MonTypes /\ r.pc = "guard" /\ r.pid = monInst[i].pid /\ r.kind = monInst[i].kind
    BY <1>2 DEF MonTypes, MonPlaces
  <2>3. monInst[i].pc \in MonServing /\ r.pc \in MonServing \ MonUsing
    BY <2>1, <2>2 DEF MonServing, MonUsing
  <2> HIDE DEF r
  <2> QED
    BY <1>1, <2>1, <2>2, <2>3, MonKeptByGo
<1>5. CASE Monitor!Signal(i)
  <2> DEFINE r == Monitor!Asked(i)
  <2>1. monInst' = [monInst EXCEPT ![i] = r] /\ monInst[i].pc # "exited"
        /\ monInst[i].kind # "top"
    BY <1>5, MonWords DEF Monitor!Signal
  <2>2. r \in MonTypes /\ r.pid = monInst[i].pid /\ r.kind = monInst[i].kind
        /\ r.seen = monInst[i].seen
        /\ r.pc = IF monInst[i].pc = "sleep" THEN "guard" ELSE monInst[i].pc
    BY MonAsked
  <2> HIDE DEF r
  <2>3. CASE monInst[i].pc = "sleep"
    <3>1. monInst[i].pc \in MonServing /\ r.pc \in MonServing \ MonUsing
      BY <2>2, <2>3 DEF MonServing, MonUsing
    <3> QED
      BY <1>1, <2>1, <2>2, <3>1, MonKeptByGo
  <2>4. CASE monInst[i].pc # "sleep"
    <3>1. r.pc = monInst[i].pc
      BY <2>2, <2>4
    <3>2. r.pc \in MonServing \cup {"truncate", "write"} /\ i \notin monDisturbed => monDb
          /\ (r.pc \in MonServing => monFile.state = "whole" /\ monFile.by = i
                                     /\ monFile.pid = r.pid)
      BY <2>2, <3>1 DEF MonNamed
    <3>3. r.pc \in MonUsing => \A j \in DOMAIN monInst \ monDisturbed :
            j # i /\ monInst[j].pc \in MonServing => r.pc = "verify" /\ r.seen.pid = monInst[j].pid
      BY <2>2, <3>1 DEF MonAlone
    <3> QED
      BY <1>1, <1>2, <2>1, <2>2, <3>1, <3>2, <3>3, MonKeptByOne
  <2> QED
    BY <2>3, <2>4
<1> QED
  BY <1>3, <1>4, <1>5 DEF Monitor!Fails, Monitor!Crash

\* SIGTERM to the service, systemd and the service's state
LEMMA MonKeptByTerminate ==
  ASSUME MonKept, NEW after, Monitor!Terminate(after)
  PROVE  MonKept'
<1> USE DEF MonKept
<1> DEFINE I == monInst
           Term(j) == I[j].kind = "service" /\ Monitor!Alive(j)
<1>1. I' = [j \in DOMAIN I |-> IF Term(j) THEN Monitor!Asked(j) ELSE I[j]]
      /\ UNCHANGED <<monFile, monDb, monDisturbed>>
  BY DEF Monitor!Terminate
<1>2. \A j \in DOMAIN I :
        /\ I'[j] \in MonTypes /\ I'[j].pid = I[j].pid /\ I'[j].kind = I[j].kind
        /\ I'[j].seen = I[j].seen
        /\ I'[j].pc = I[j].pc \/ (I[j].pc = "sleep" /\ I'[j].pc = "guard")
  <2> SUFFICES ASSUME NEW j \in DOMAIN I
               PROVE  /\ I'[j] \in MonTypes /\ I'[j].pid = I[j].pid /\ I'[j].kind = I[j].kind
                      /\ I'[j].seen = I[j].seen
                      /\ I'[j].pc = I[j].pc \/ (I[j].pc = "sleep" /\ I'[j].pc = "guard")
    OBVIOUS
  <2>1. I'[j] = IF Term(j) THEN Monitor!Asked(j) ELSE I[j]
    BY <1>1
  <2> HIDE DEF Term
  <2> QED
    BY <2>1, MonTyped, MonAsked
<1>3. I \in Seq(MonTypes) /\ DOMAIN I = 1 .. Len(I) /\ Len(I) \in Nat
  BY DEF MonShape
<1>4. DOMAIN I' = DOMAIN I
  BY <1>1
<1>5. I' \in Seq(MonTypes)
  <2>1. I' \in [1 .. Len(I) -> MonTypes]
    BY <1>1, <1>2, <1>3, <1>4
  <2> QED
    BY <1>3, <2>1
<1> HIDE DEF Term
<1>6. \A j \in DOMAIN I : /\ I'[j].pc \in MonUsing <=> I[j].pc \in MonUsing
                          /\ I'[j].pc \in MonServing <=> I[j].pc \in MonServing
                          /\ I'[j].pc = "exited" <=> I[j].pc = "exited"
                          /\ I'[j].pc = "write" <=> I[j].pc = "write"
                          /\ I'[j].pc = "verify" <=> I[j].pc = "verify"
                          /\ I[j].pc = "sleep" => I[j].kind # "top"
  BY <1>2 DEF MonUsing, MonServing, MonOwnPids
<1>7. MonShape'
  BY <1>1, <1>4, <1>5 DEF MonShape
<1>8. MonOwnPids'
  BY <1>2, <1>4, <1>6 DEF MonOwnPids
<1>9. MonNamed' /\ MonAlone'
  BY <1>1, <1>2, <1>4, <1>6 DEF MonNamed, MonAlone
<1> QED
  BY <1>7, <1>8, <1>9

\* A program begins, with a PID that nobody has.
LEMMA MonFresh ==
  ASSUME NEW p \in Monitor!FreshPids
  PROVE  p \in MonPids /\ ~Monitor!PidIsAlive(p)
<1> DEFINE free == {q \in MonPids : ~Monitor!PidIsAlive(q)}
           rest == free \ Monitor!NamedPids
<1>1. p \in free \/ (rest # {} /\ p = Monitor!Min(rest))
  BY DEF Monitor!FreshPids
<1>2. rest # {} => Monitor!Min(rest) \in rest
  <2> SUFFICES ASSUME rest # {}
               PROVE  Monitor!Min(rest) \in rest
    OBVIOUS
  <2>1. rest \subseteq Nat
    BY CollectorAssumption DEF Monitor!MonitorAssumption
  <2> HIDE DEF rest
  <2>2. \E x \in rest : \A y \in rest : x <= y
    BY <2>1, LeastOf
  <2> QED
    BY <2>2 DEF Monitor!Min
<1> QED
  BY <1>1, <1>2

LEMMA MonKeptByBegin ==
  ASSUME MonKept, NEW kind \in Monitor!Kinds, Monitor!Begin(kind)
  PROVE  MonKept'
<1> USE DEF MonKept
<1> DEFINE I == monInst
           n == Len(I) + 1
<1>1. PICK p \in IF kind = "top" THEN {0} ELSE Monitor!FreshPids :
        /\ I' = Append(I, [kind |-> kind, pid |-> p, pc |-> "read", seen |-> Monitor!Absent,
                           asked |-> FALSE, ok |-> TRUE])
        /\ UNCHANGED <<monFile, monDb, monDisturbed>>
  BY DEF Monitor!Begin
<1> DEFINE new == [kind |-> kind, pid |-> p, pc |-> "read", seen |-> Monitor!Absent,
                   asked |-> FALSE, ok |-> TRUE]
<1>2. p = 0 \/ (p \in MonPids /\ ~Monitor!PidIsAlive(p))
  BY MonFresh
<1>3. new \in MonTypes /\ new.pc = "read" /\ new.pid = p /\ new.kind = kind
  BY <1>2, MonWords DEF MonTypes, MonPlaces
<1>4. kind = "top" <=> p = 0
  BY <1>1, MonFresh, CollectorAssumption DEF Monitor!MonitorAssumption
<1>5. I \in Seq(MonTypes) /\ I' = Append(I, new)
  BY <1>1 DEF MonShape
<1> HIDE DEF new
<1>6. /\ I' \in Seq(MonTypes) /\ DOMAIN I' = DOMAIN I \cup {n} /\ I'[n] = new
      /\ n \notin DOMAIN I /\ \A j \in DOMAIN I : I'[j] = I[j]
  BY <1>3, <1>5
<1>7. \A j \in DOMAIN I : I[j].pid # 0 => I[j].pid # p
  <2> SUFFICES ASSUME NEW j \in DOMAIN I, I[j].pid # 0, I[j].pid = p
               PROVE  FALSE
    OBVIOUS
  <2>1. Monitor!Alive(j)
    BY MonWords DEF MonOwnPids
  <2> QED
    BY <1>2, <2>1 DEF Monitor!PidIsAlive
<1>8. MonShape'
  BY <1>1, <1>6 DEF MonShape
<1>9. MonOwnPids'
  BY <1>3, <1>4, <1>6, <1>7 DEF MonOwnPids
<1>10. new.pc \notin MonServing \cup MonUsing \cup {"write"}
  BY <1>3 DEF MonServing, MonUsing
<1>11. MonNamed' /\ MonAlone'
  <2>1. MonNamed'
    BY <1>1, <1>6, <1>10 DEF MonNamed
  <2>2. MonAlone'
    BY <1>1, <1>6, <1>10 DEF MonAlone
  <2> QED
    BY <2>1, <2>2
<1> QED
  BY <1>8, <1>9, <1>11

\* Everything ends, or the database goes, which disturbs everybody.
LEMMA MonKeptByDisaster ==
  ASSUME MonKept, Monitor!Reboot \/ Monitor!DeleteDb
  PROVE  MonKept'
<1> USE DEF MonKept
<1>0. monInst \in Seq(MonTypes) /\ DOMAIN monInst = 1 .. Len(monInst) /\ Len(monInst) \in Nat
  BY DEF MonShape
<1>1. CASE Monitor!Reboot
  <2>1. /\ monInst' = [i \in DOMAIN monInst |-> Monitor!Exited]
        /\ monFile' \in {monFile, Monitor!Partial} /\ UNCHANGED <<monDb, monDisturbed>>
    BY <1>1 DEF Monitor!Reboot
  <2>2. DOMAIN monInst' = DOMAIN monInst
        /\ \A i \in DOMAIN monInst : monInst'[i] = Monitor!Exited
    BY <2>1
  <2>3. monInst' \in Seq(MonTypes)
    <3>1. monInst' \in [1 .. Len(monInst) -> MonTypes]
      BY <1>0, <2>1, MonWords
    <3> QED
      BY <1>0, <3>1
  <2>4. MonShape'
    BY <2>1, <2>2, <2>3, MonWords DEF MonShape
  <2>5. Monitor!Exited.pc \notin MonServing \cup MonUsing \cup {"truncate", "write"}
    BY MonWords DEF MonServing, MonUsing
  <2>6. MonOwnPids'
    BY <2>2, MonWords DEF MonOwnPids
  <2>7. MonNamed' /\ MonAlone'
    BY <2>2, <2>5 DEF MonNamed, MonAlone
  <2> QED
    BY <2>4, <2>6, <2>7
<1>2. CASE Monitor!DeleteDb
  <2>1. /\ UNCHANGED <<monInst, monFile>> /\ monDb' \in BOOLEAN
        /\ monDisturbed' = monDisturbed \cup {i \in DOMAIN monInst : Monitor!Alive(i)}
    BY <1>2 DEF Monitor!DeleteDb
  <2>2. \A i \in DOMAIN monInst \ monDisturbed' : monInst[i].pc = "exited"
    BY <2>1, MonWords
  <2>3. MonShape' /\ MonOwnPids'
    BY <2>1 DEF MonShape, MonOwnPids
  <2>4. MonNamed' /\ MonAlone'
    BY <2>1, <2>2 DEF MonNamed, MonAlone, MonServing, MonUsing
  <2> QED
    BY <2>3, <2>4
<1> QED
  BY <1>1, <1>2

LEMMA MonKeptByNext == MonKept /\ [Monitor!Next]_(Monitor!vars) => MonKept'
<1> SUFFICES ASSUME MonKept, [Monitor!Next]_(Monitor!vars)
             PROVE  MonKept'
  OBVIOUS
<1>1. CASE UNCHANGED <<monInst, monFile, monDb, monDisturbed>>
  BY <1>1 DEF MonKept, MonShape, MonOwnPids, MonNamed, MonAlone
<1>2. ASSUME NEW i \in DOMAIN monInst, Monitor!Step(i)
      PROVE  MonKept'
  BY <1>2, MonKeptByRead, MonKeptByVerify, MonKeptByStart, MonKeptByLoop, MonKeptByGuard
     DEF Monitor!Step
<1>3. ASSUME NEW i \in DOMAIN monInst, Monitor!Fails(i) \/ Monitor!Crash(i) \/ Monitor!Signal(i)
      PROVE  MonKept'
  BY <1>3, MonKeptByFailure
<1>4. CASE Monitor!Reboot \/ Monitor!DeleteDb
  BY <1>4, MonKeptByDisaster
<1>5. CASE Monitor!StopService \/ Monitor!InstallService
  BY <1>5, MonKeptByTerminate DEF Monitor!StopService, Monitor!InstallService
<1>6. CASE Monitor!StartService
  BY <1>6, MonKeptByBegin, MonWords DEF Monitor!StartService
<1>7. ASSUME NEW kind \in {"user", "top"}, Monitor!StartByHand(kind)
      PROVE  MonKept'
  BY <1>7, MonKeptByBegin, MonWords DEF Monitor!StartByHand
<1>8. Monitor!Reuse \/ UNCHANGED Monitor!vars => UNCHANGED <<monInst, monFile, monDb, monDisturbed>>
  BY DEF Monitor!Reuse, Monitor!vars
<1> QED
  BY <1>1, <1>2, <1>3, <1>4, <1>5, <1>6, <1>7, <1>8 DEF Monitor!Next

LEMMA MonitorPart == CollectorSpec => Monitor!Spec
<1>1. CollectorInit => Monitor!Init
  BY DEF CollectorInit
<1>2. [CollectorNext]_<<part, vars, monVars>> => [Monitor!Next]_(Monitor!vars)
  BY DEF CollectorNext, monVars, Monitor!vars
<1> QED
  BY <1>1, <1>2, PTL DEF CollectorSpec, Monitor!Spec

\* active_monitor, write_monitor_pid_file and MonitorPidGuard: a monitor at whose start and end
\* nobody else was using the file, and in whose life nobody deleted the database, is named in
\* the file for as long as it serves, whatever was left in it, whoever has the PIDs, and however
\* many programs fail, crash or are started.  (After a deletion the next start removes the file
\* of the monitor that is running, and two run.)
THEOREM MonitorsAreNamed == CollectorSpec => []NamedInFile
<1>1. MonKept => NamedInFile
  <2> SUFFICES ASSUME MonKept
               PROVE  Monitor!NamedInFile
    BY DEF NamedInFile
  <2> USE DEF MonKept
  <2>1. \A i \in DOMAIN monInst : monInst[i] \in MonTypes
    BY MonTyped
  <2>3. Monitor!TypeOK
    BY <2>1 DEF Monitor!TypeOK, MonShape, MonOwnPids, MonTypes, MonFiles
  <2>2. \A i \in DOMAIN monInst : Monitor!Serving(i) /\ i \notin monDisturbed => monFile.by = i
    BY MonWords DEF MonNamed
  <2> QED
    BY <2>2, <2>3 DEF Monitor!NamedInFile
<1>2. Monitor!Spec => []MonKept
  BY MonAtFirst, MonKeptByNext, PTL DEF Monitor!Spec
<1> QED
  BY <1>1, <1>2, MonitorPart, PTL

=============================================================================
