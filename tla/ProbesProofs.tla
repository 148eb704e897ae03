----------------------------- MODULE ProbesProofs -----------------------------
(***************************************************************************)
(* What the records of the probes carry, and which calls have one.         *)
(*                                                                         *)
(* Of the TLS probe: for any number of threads, processes and calls, every *)
(* nesting of them, and every size of the maps and the ring.  Of the stdio *)
(* probe (names that begin with Io): for any family of processes that      *)
(* fork, end and leave the session, whenever the tracepoints are attached. *)
(* Of the browser probe (Br): for any processes that open, import and      *)
(* close descriptors, end and are followed by others with their PIDs.      *)
(***************************************************************************)
EXTENDS Probes, FiniteSetTheorems, SequenceTheorems, WellFoundedInduction, TLAPS

-----------------------------------------------------------------------------
\* The TLS probe

Calls == [fn : Functions, tid : Tids, pid : Procs, probed : BOOLEAN, nests : BOOLEAN,
          end : {"running", "data", "none", "cut"}]

RecordTypes == [call : Nat, buf : Nat, start : Nat, pid : Procs, handshake : BOOLEAN]

Shape ==
  /\ opts \in Options /\ attached \in Nat /\ owner \in [Tids -> Procs]
  /\ calls \in Seq(Calls) /\ stack \in [Tids -> Seq(Nat)]
  /\ bufs \in [Keys -> Nat] /\ starts \in [Keys -> Nat] /\ lens \in [Keys -> Nat]
  /\ ring \in Seq(RecordTypes) /\ shown \subseteq RecordTypes

\* A thread is in calls of its own, and all but the innermost nest another.
StackedAt(t) ==
  \A i \in 1 .. Len(stack[t]) :
    LET c == stack[t][i] IN
      /\ c \in 1 .. Len(calls) /\ calls[c].tid = t /\ calls[c].pid = owner[t]
      /\ i < Len(stack[t]) => calls[c].nests

\* The map has what the thread's call has stored, or had no room.
Has(m, t, c) == m[t] = c \/ (m[t] = None /\ c \in denied)

\* What the innermost call of a thread has stored is still there.
InnermostAt(t) ==
  stack[t] # << >> =>
    LET c == Last(stack[t]) IN
      ~calls[c].nests /\ calls[c].probed /\ Traced(owner[t]) =>
        /\ Has(starts, t, c)
        /\ Kind(calls[c].fn) # "handshake" => Has(bufs, t, c)
        /\ Kind(calls[c].fn) = "ex" => Has(lens, t, c)

\* The maps keep to their sizes.
Fits(m) ==
  /\ IsFiniteSet({k \in Keys : m[k] # None})
  /\ Cardinality({k \in Keys : m[k] # None}) <= Entries

\* An entry of bufs is of a traced call of its thread, and its being there is explained.
OwnedAt(t) ==
  bufs[t] # None =>
    /\ bufs[t] \in 1 .. Len(calls) /\ calls[bufs[t]].tid = t
    /\ Kind(calls[bufs[t]].fn) # "handshake" /\ Traced(calls[bufs[t]].pid)
    /\ \/ calls[bufs[t]].end \in {"running", "none", "cut"} \/ calls[bufs[t]].nests
       \/ ~calls[bufs[t]].probed \/ bufs[t] \in lost \cup denied

\* A record is of one call, and says of which process and whether of a
\* handshake; and it carries what OwnBuffer says.
RightRecord(r) ==
  /\ r.call \in 1 .. Len(calls) /\ r.pid = calls[r.call].pid
  /\ (r.handshake <=> Kind(calls[r.call].fn) = "handshake")
  /\ ~calls[r.call].nests /\ Traced(r.pid) =>
       r.start = r.call /\ (~r.handshake => r.buf = r.call)

\* What DataReported says of a call.
CallReported(c) ==
  (/\ calls[c].end = "data" /\ calls[c].probed /\ ~calls[c].nests
   /\ Kind(calls[c].fn) # "handshake" /\ Traced(calls[c].pid)
   /\ Printed([pid |-> calls[c].pid, handshake |-> FALSE]))
  => c \in Reported \cup lost \cup denied

Stacked == \A t \in Tids : StackedAt(t)
InnermostStored == \A t \in Tids : InnermostAt(t)
Owned == \A t \in Tids : OwnedAt(t)
RightRecords == \A r \in Records : RightRecord(r)
CallsReported == \A c \in 1 .. Len(calls) : CallReported(c)

Kept == /\ Shape /\ Stacked /\ InnermostStored /\ Owned /\ RightRecords /\ CallsReported
        /\ Fits(bufs) /\ Fits(starts) /\ Fits(lens)

-----------------------------------------------------------------------------
\* Sequences: the last element, all others, and the elements as a set.
LEMMA LastAndFront ==
  ASSUME NEW S, NEW s \in Seq(S), s # << >>
  PROVE  /\ Len(s) \in Nat /\ Len(s) >= 1 /\ Last(s) = s[Len(s)] /\ Last(s) \in S
         /\ Front(s) \in Seq(S) /\ Len(Front(s)) = Len(s) - 1
         /\ \A i \in 1 .. Len(Front(s)) : Front(s)[i] = s[i]
<1>1. Len(s) \in Nat /\ Len(s) >= 1 /\ Last(s) = s[Len(s)] /\ Last(s) \in S
  BY DEF Last
<1>2. \A i \in 1 .. (Len(s) - 1) : s[i] \in S
  BY <1>1
<1>3. /\ Front(s) \in Seq(S) /\ Len(Front(s)) = Len(s) - 1
      /\ \A i \in 1 .. (Len(s) - 1) : Front(s)[i] = s[i]
  <2>1. 1 \in Int /\ Len(s) - 1 \in Int /\ \A i \in 1 .. (Len(s) - 1) : 1 + i - 1 = i
    BY <1>1
  <2> DEFINE u == SubSeq(s, 1, Len(s) - 1)
  <2>2. /\ u \in Seq(S)
        /\ Len(u) = IF 1 <= Len(s) - 1 THEN Len(s) - 1 - 1 + 1 ELSE 0
        /\ \A i \in 1 .. (Len(s) - 1) - 1 + 1 : u[i] = s[1 + i - 1]
    BY <1>2, <2>1, SubSeqProperties
  <2>3. Front(s) = u
    BY DEF Front
  <2> HIDE DEF u
  <2>4. Len(u) = Len(s) - 1 /\ (Len(s) - 1) - 1 + 1 = Len(s) - 1
    <3> DEFINE n == Len(s)
    <3>1. n \in Nat /\ n >= 1 /\ Len(u) = IF 1 <= n - 1 THEN n - 1 - 1 + 1 ELSE 0
      BY <1>1, <2>2
    <3> HIDE DEF n
    <3>2. Len(u) = n - 1 /\ (n - 1) - 1 + 1 = n - 1
      BY <3>1
    <3> QED
      BY <3>2 DEF n
  <2>5. \A i \in 1 .. (Len(s) - 1) : u[i] = s[i]
    BY <2>1, <2>2, <2>4
  <2> QED
    BY <2>2, <2>3, <2>4, <2>5
<1> QED
  BY <1>1, <1>3

LEMMA Replaced ==
  ASSUME NEW S, NEW s \in Seq(S), NEW i \in 1 .. Len(s), NEW x \in S
  PROVE  /\ [s EXCEPT ![i] = x] \in Seq(S) /\ Len([s EXCEPT ![i] = x]) = Len(s)
         /\ [s EXCEPT ![i] = x][i] = x
         /\ \A j \in 1 .. Len(s) : j # i => [s EXCEPT ![i] = x][j] = s[j]
OBVIOUS

LEMMA ElementsOf ==
  ASSUME NEW S, NEW s \in Seq(S)
  PROVE  /\ ToSet(s) \subseteq S
         /\ \A x \in S : ToSet(Append(s, x)) = ToSet(s) \cup {x}
         /\ s # << >> => ToSet(s) = ToSet(Tail(s)) \cup {Head(s)}
<1>1. ToSet(s) \subseteq S
  BY DEF ToSet
<1>2. ASSUME NEW x \in S
      PROVE  ToSet(Append(s, x)) = ToSet(s) \cup {x}
  <2> DEFINE a == Append(s, x)
  <2>1. /\ DOMAIN s = 1 .. Len(s) /\ DOMAIN a = 1 .. Len(s) + 1 /\ Len(s) \in Nat
        /\ a[Len(s) + 1] = x /\ \A i \in 1 .. Len(s) : a[i] = s[i]
    OBVIOUS
  <2>2. \A i \in 1 .. Len(s) + 1 : i \in 1 .. Len(s) \/ i = Len(s) + 1
    BY <2>1
  <2> HIDE DEF a
  <2>3. ToSet(a) \subseteq ToSet(s) \cup {x}
    BY <2>1, <2>2 DEF ToSet
  <2>4. ToSet(s) \cup {x} \subseteq ToSet(a)
    BY <2>1 DEF ToSet
  <2> QED
    BY <2>3, <2>4 DEF a
<1>3. ASSUME s # << >>
      PROVE  ToSet(s) = ToSet(Tail(s)) \cup {Head(s)}
  <2> DEFINE u == Tail(s)
  <2>1. /\ DOMAIN s = 1 .. Len(s) /\ DOMAIN u = 1 .. Len(s) - 1 /\ Len(s) \in Nat /\ Len(s) >= 1
        /\ Head(s) = s[1] /\ \A i \in 1 .. Len(s) - 1 : u[i] = s[i + 1]
    BY <1>3
  <2>2. \A i \in 1 .. Len(s) : i = 1 \/ i - 1 \in 1 .. Len(s) - 1
    BY <2>1
  <2>3. \A i \in 1 .. Len(s) - 1 : i + 1 \in 1 .. Len(s)
    BY <2>1
  <2> HIDE DEF u
  <2>4. ToSet(s) \subseteq ToSet(u) \cup {Head(s)}
    <3> SUFFICES ASSUME NEW i \in 1 .. Len(s)
                 PROVE  s[i] \in ToSet(u) \cup {Head(s)}
      BY <2>1 DEF ToSet
    <3>1. CASE i = 1
      BY <2>1, <3>1
    <3>2. CASE i - 1 \in 1 .. Len(s) - 1
      <4>1. u[i - 1] = s[(i - 1) + 1] /\ (i - 1) + 1 = i
        BY <2>1, <3>2
      <4> QED
        BY <2>1, <3>2, <4>1 DEF ToSet
    <3> QED
      BY <2>2, <3>1, <3>2
  <2>5. ToSet(u) \cup {Head(s)} \subseteq ToSet(s)
    BY <2>1, <2>3 DEF ToSet
  <2> QED
    BY <2>4, <2>5 DEF u
<1> QED
  BY <1>1, <1>2, <1>3

-----------------------------------------------------------------------------
\* The maps: an update stores the call, or finds no room where nothing was.
LEMMA StoredEffect ==
  ASSUME NEW m \in [Keys -> Nat], NEW t \in Tids, NEW c \in Nat, Fits(m), c # None
  PROVE  /\ Stored(m, t, c) \in [Keys -> Nat] /\ Fits(Stored(m, t, c))
         /\ \A k \in Keys : k # t => Stored(m, t, c)[k] = m[k]
         /\ Room(m, t) => Stored(m, t, c)[t] = c
         /\ ~Room(m, t) => Stored(m, t, c) = m /\ m[t] = None
<1> DEFINE used == {k \in Keys : m[k] # None}
           new  == {k \in Keys : Stored(m, t, c)[k] # None}
<1>1. /\ t \in Keys /\ DOMAIN m = Keys /\ Key(t) = t
      /\ IsFiniteSet(used) /\ Cardinality(used) <= Entries /\ Cardinality(used) \in Nat
      /\ Entries \in Nat
  BY FS_CardinalityType, TlsProbeAssumption DEF Keys, Key, Fits
<1>2. CASE Room(m, t)
  <2>1. Stored(m, t, c) = [m EXCEPT ![t] = c]
    BY <1>1, <1>2 DEF Stored
  <2>2. new = used \cup {t}
    BY <1>1, <2>1
  <2>3. IsFiniteSet(new) /\ Cardinality(new) <= Entries
    <3>1. CASE m[t] # None
      <4>1. used \cup {t} = used
        BY <1>1, <3>1
      <4> QED
        BY <1>1, <2>2, <4>1
    <3>2. CASE m[t] = None
      <4>1. Cardinality(used) < Entries
        BY <1>1, <1>2, <3>2 DEF Room
      <4>2. t \notin used
        BY <3>2
      <4>3. IsFiniteSet(used \cup {t}) /\ Cardinality(used \cup {t}) = Cardinality(used) + 1
        BY <1>1, <4>2, FS_AddElement
      <4> QED
        <5>1. Cardinality(used) + 1 <= Entries
          BY <1>1, <4>1
        <5> HIDE DEF used, new
        <5> QED
          BY <2>2, <4>3, <5>1
    <3> QED
      BY <3>1, <3>2
  <2> QED
    BY <1>1, <1>2, <2>1, <2>3 DEF Fits
<1>3. CASE ~Room(m, t)
  BY <1>1, <1>3 DEF Stored, Room
<1> QED
  BY <1>2, <1>3

LEMMA ClearedEffect ==
  ASSUME NEW m \in [Keys -> Nat], NEW t \in Tids, Fits(m)
  PROVE  /\ Cleared(m, t) \in [Keys -> Nat] /\ Fits(Cleared(m, t))
         /\ \A k \in Keys : k # t => Cleared(m, t)[k] = m[k]
         /\ Cleared(m, t)[t] = None
<1> DEFINE used == {k \in Keys : m[k] # None}
           new  == {k \in Keys : Cleared(m, t)[k] # None}
<1>1. /\ t \in Keys /\ Cleared(m, t) = [m EXCEPT ![t] = None] /\ None \in Nat
      /\ IsFiniteSet(used) /\ Cardinality(used) <= Entries /\ Entries \in Nat
  BY TlsProbeAssumption DEF Keys, Key, Fits, Cleared, None
<1>2. new \subseteq used
  BY <1>1
<1>3. IsFiniteSet(new) /\ Cardinality(new) <= Cardinality(used)
  BY <1>1, <1>2, FS_Subset
<1>4. Cardinality(new) \in Nat /\ Cardinality(used) \in Nat
  BY <1>1, <1>3, FS_CardinalityType
<1> QED
  BY <1>1, <1>3, <1>4 DEF Fits

-----------------------------------------------------------------------------
\* What the steps do, as the invariant needs it.

\* The innermost call of a thread is one that was made.
LEMMA Innermost ==
  ASSUME Shape, Stacked, NEW t \in Tids, stack[t] # << >>
  PROVE  /\ Last(stack[t]) \in 1 .. Len(calls) /\ calls[Last(stack[t])] \in Calls
         /\ calls[Last(stack[t])].tid = t /\ calls[Last(stack[t])].pid = owner[t]
         /\ Last(stack[t]) # None /\ Last(stack[t]) \in Nat
<1>1. /\ stack[t] \in Seq(Nat) /\ calls \in Seq(Calls)
      /\ Len(stack[t]) \in Nat /\ Len(stack[t]) >= 1 /\ Last(stack[t]) = stack[t][Len(stack[t])]
  BY LastAndFront DEF Shape
<1>2. Len(stack[t]) \in 1 .. Len(stack[t])
  BY <1>1
<1>3. /\ Last(stack[t]) \in 1 .. Len(calls)
      /\ calls[Last(stack[t])].tid = t /\ calls[Last(stack[t])].pid = owner[t]
  BY <1>1, <1>2 DEF Stacked, StackedAt
<1> QED
  BY <1>1, <1>3 DEF None

\* The functions that are probed are of three kinds.
LEMMA Kinds ==
  ASSUME NEW f \in Functions
  PROVE  Kind(f) \in {"rw", "ex", "handshake"}
  BY DEF Kind, Functions

LEMMA ProbedFunctions ==
  ASSUME Shape, NEW f \in ToSet(opts.functions)
  PROVE  f \in Functions
<1>1. opts.functions \in Seq(Functions)
  BY TlsProbeAssumption DEF Shape
<1> QED
  BY <1>1, ElementsOf

\* The exit probe of a function is attached after its enter probe.
LEMMA EnterFirst ==
  ASSUME Shape, NEW f \in Functions, ExitAttached(f)
  PROVE  EnterAttached(f)
<1>1. PICK i \in DOMAIN opts.functions : opts.functions[i] = f /\ attached >= 2 * i
  BY DEF ExitAttached
<1>2. i \in Nat
  <2>1. opts.functions \in Seq(Functions)
    BY TlsProbeAssumption DEF Shape
  <2> QED
    BY <2>1
<1>3. attached \in Nat
  BY DEF Shape
<1> QED
  BY <1>1, <1>2, <1>3 DEF EnterAttached

\* A call is made: those made before stay what they are, but for one that now nests it.
LEMMA EnterCalls ==
  ASSUME Shape, Stacked, NEW t \in Tids, NEW f \in Functions, Enter(t, f)
  PROVE  /\ calls' \in Seq(Calls) /\ Len(calls) \in Nat /\ Len(calls') = Len(calls) + 1
         /\ calls'[Len(calls) + 1] = [fn |-> f, tid |-> t, pid |-> owner[t],
              probed |-> ExitAttached(f), nests |-> FALSE, end |-> "running"]
         /\ \A c \in 1 .. Len(calls) :
              /\ calls'[c].fn = calls[c].fn /\ calls'[c].tid = calls[c].tid
              /\ calls'[c].pid = calls[c].pid /\ calls'[c].probed = calls[c].probed
              /\ calls'[c].end = calls[c].end
              /\ calls[c].nests => calls'[c].nests
              /\ calls'[c].nests => calls[c].nests \/ (stack[t] # << >> /\ c = Last(stack[t]))
         /\ stack[t] # << >> => calls'[Last(stack[t])].nests
<1> DEFINE call == [fn |-> f, tid |-> t, pid |-> owner[t], probed |-> ExitAttached(f),
                    nests |-> FALSE, end |-> "running"]
           l == Last(stack[t])
           old == IF stack[t] = << >> THEN calls ELSE [calls EXCEPT ![l].nests = TRUE]
<1>1. calls \in Seq(Calls) /\ Len(calls) \in Nat /\ owner[t] \in Procs
  BY DEF Shape
<1>2. call \in Calls
  <2>1. ExitAttached(f) \in BOOLEAN
    BY DEF ExitAttached
  <2> QED
    BY <1>1, <2>1 DEF Calls
<1>3. calls' = Append(old, call)
  BY DEF Enter
<1>4. /\ old \in Seq(Calls) /\ Len(old) = Len(calls)
      /\ \A c \in 1 .. Len(calls) :
           /\ old[c].fn = calls[c].fn /\ old[c].tid = calls[c].tid
           /\ old[c].pid = calls[c].pid /\ old[c].probed = calls[c].probed
           /\ old[c].end = calls[c].end
           /\ calls[c].nests => old[c].nests
           /\ old[c].nests => calls[c].nests \/ (stack[t] # << >> /\ c = l)
      /\ stack[t] # << >> => old[l].nests /\ l \in 1 .. Len(calls)
  <2>1. CASE stack[t] = << >>
    BY <1>1, <2>1
  <2>2. CASE stack[t] # << >>
    <3>1. l \in 1 .. Len(calls) /\ calls[l] \in Calls
      BY <2>2, Innermost
    <3> HIDE DEF l
    <3>2. [calls[l] EXCEPT !.nests = TRUE] \in Calls
      BY <3>1 DEF Calls
    <3>3. /\ [calls[l] EXCEPT !.nests = TRUE].nests
          /\ [calls[l] EXCEPT !.nests = TRUE].fn = calls[l].fn
          /\ [calls[l] EXCEPT !.nests = TRUE].tid = calls[l].tid
          /\ [calls[l] EXCEPT !.nests = TRUE].pid = calls[l].pid
          /\ [calls[l] EXCEPT !.nests = TRUE].probed = calls[l].probed
          /\ [calls[l] EXCEPT !.nests = TRUE].end = calls[l].end
      BY <3>1 DEF Calls
    <3>4. old = [calls EXCEPT ![l] = [calls[l] EXCEPT !.nests = TRUE]]
      BY <2>2, <3>1
    <3> DEFINE marked == [calls[l] EXCEPT !.nests = TRUE]
    <3> HIDE DEF old
    <3>5. marked \in Calls /\ old = [calls EXCEPT ![l] = marked]
      BY <3>2, <3>4
    <3> HIDE DEF marked
    <3>6. /\ old \in Seq(Calls) /\ Len(old) = Len(calls) /\ old[l] = marked
          /\ \A c \in 1 .. Len(calls) : c # l => old[c] = calls[c]
      BY <1>1, <3>1, <3>5, Replaced
    <3> QED
      BY <2>2, <3>1, <3>3, <3>6 DEF marked
  <2> QED
    BY <2>1, <2>2
<1>5. /\ calls' \in Seq(Calls) /\ Len(calls') = Len(calls) + 1 /\ calls'[Len(calls) + 1] = call
      /\ \A c \in 1 .. Len(calls) : calls'[c] = old[c]
  <2> HIDE DEF old, call
  <2> QED
    BY <1>1, <1>2, <1>3, <1>4
<1> QED
  BY <1>1, <1>4, <1>5

\* A call returns, or ends with its thread: only how it ended is written down.
LEMMA ExitCalls ==
  ASSUME Shape, Stacked, NEW t \in Tids, NEW data \in BOOLEAN, Exit(t, data)
  PROVE  /\ calls' \in Seq(Calls) /\ Len(calls) \in Nat /\ Len(calls') = Len(calls)
         /\ \A c \in 1 .. Len(calls) :
              /\ calls'[c].fn = calls[c].fn /\ calls'[c].tid = calls[c].tid
              /\ calls'[c].pid = calls[c].pid /\ calls'[c].probed = calls[c].probed
              /\ calls'[c].nests = calls[c].nests
              /\ c # Last(stack[t]) => calls'[c].end = calls[c].end
         /\ calls'[Last(stack[t])].end = IF data THEN "data" ELSE "none"
<1> DEFINE l == Last(stack[t])
           end == IF data THEN "data" ELSE "none"
<1>1. calls \in Seq(Calls) /\ Len(calls) \in Nat
  BY DEF Shape
<1>2. l \in 1 .. Len(calls) /\ calls[l] \in Calls
  BY Innermost DEF Exit
<1>3. calls' = [calls EXCEPT ![l].end = end]
  BY DEF Exit
<1>4. end \in {"running", "data", "none", "cut"}
  OBVIOUS
<1> HIDE DEF l, end
<1>5. [calls[l] EXCEPT !.end = end] \in Calls
  BY <1>2, <1>4 DEF Calls
<1>6. /\ [calls[l] EXCEPT !.end = end].end = end
      /\ [calls[l] EXCEPT !.end = end].fn = calls[l].fn
      /\ [calls[l] EXCEPT !.end = end].tid = calls[l].tid
      /\ [calls[l] EXCEPT !.end = end].pid = calls[l].pid
      /\ [calls[l] EXCEPT !.end = end].probed = calls[l].probed
      /\ [calls[l] EXCEPT !.end = end].nests = calls[l].nests
  BY <1>2 DEF Calls
<1>7. calls' = [calls EXCEPT ![l] = [calls[l] EXCEPT !.end = end]]
  BY <1>2, <1>3
<1>8. /\ calls' \in Seq(Calls) /\ Len(calls') = Len(calls)
      /\ calls'[l] = [calls[l] EXCEPT !.end = end]
      /\ \A c \in 1 .. Len(calls) : c # l => calls'[c] = calls[c]
  BY <1>1, <1>2, <1>5, <1>7
<1>9. calls'[l].end = end /\ \A c \in 1 .. Len(calls) : c # l => calls'[c].end = calls[c].end
  BY <1>6, <1>8
<1> QED
  BY <1>1, <1>6, <1>8, <1>9 DEF l, end

LEMMA CutCalls ==
  ASSUME Shape, NEW ts \in SUBSET Tids, calls' = Cut(ts)
  PROVE  /\ calls' \in Seq(Calls) /\ Len(calls) \in Nat /\ Len(calls') = Len(calls)
         /\ \A c \in 1 .. Len(calls) :
              /\ calls'[c].fn = calls[c].fn /\ calls'[c].tid = calls[c].tid
              /\ calls'[c].pid = calls[c].pid /\ calls'[c].probed = calls[c].probed
              /\ calls'[c].nests = calls[c].nests
              /\ calls'[c].end \in {calls[c].end, "cut"}
<1>1. calls \in Seq(Calls) /\ Len(calls) \in Nat /\ DOMAIN calls = 1 .. Len(calls)
  BY DEF Shape
<1>2. \A c \in 1 .. Len(calls) :
        /\ calls[c] \in Calls
        /\ calls'[c] = IF calls[c].tid \in ts /\ calls[c].end = "running"
                         THEN [calls[c] EXCEPT !.end = "cut"] ELSE calls[c]
  BY <1>1 DEF Cut
<1>3. \A c \in 1 .. Len(calls) :
        /\ calls'[c] \in Calls
        /\ calls'[c].fn = calls[c].fn /\ calls'[c].tid = calls[c].tid
        /\ calls'[c].pid = calls[c].pid /\ calls'[c].probed = calls[c].probed
        /\ calls'[c].nests = calls[c].nests
        /\ calls'[c].end \in {calls[c].end, "cut"}
  BY <1>2 DEF Calls
<1>4. DOMAIN calls' = 1 .. Len(calls) /\ calls' = [c \in 1 .. Len(calls) |-> calls'[c]]
  BY <1>1 DEF Cut
<1>5. calls' \in Seq(Calls) /\ Len(calls') = Len(calls)
  <2>1. calls' \in [1 .. Len(calls) -> Calls]
    BY <1>3, <1>4
  <2> QED
    BY <1>1, <2>1
<1> QED
  BY <1>1, <1>3, <1>5

\* A record is submitted, and the entries of the call are cleared, or it is lost.
LEMMA SubmitEffect ==
  ASSUME Shape, Fits(bufs), Fits(starts), NEW t \in Tids, NEW c \in Nat, NEW shake \in BOOLEAN,
         NEW cleared, cleared = IF shake THEN {"starts"} ELSE {"bufs", "starts"},
         Submit(t, c, shake, cleared)
  PROVE  /\ bufs' \in [Keys -> Nat] /\ starts' \in [Keys -> Nat] /\ Fits(bufs)' /\ Fits(starts)'
         /\ \A k \in Keys : k # t => bufs'[k] = bufs[k] /\ starts'[k] = starts[k]
         /\ bufs'[t] \in {bufs[t], None}
         /\ \/ /\ ring' = ring /\ lost' = lost \cup {c}
            \/ /\ lost' = lost /\ (~shake => bufs'[t] = None)
               /\ \E r \in RecordTypes :
                    /\ ring' = Append(ring, r) /\ r.call = c /\ r.pid = owner[t]
                    /\ (r.handshake <=> shake) /\ r.start = starts[t] /\ (~shake => r.buf = bufs[t])
<1> DEFINE r == [call |-> c, buf |-> IF shake THEN None ELSE bufs[t], start |-> starts[t],
                 pid |-> owner[t], handshake |-> shake]
<1>1. bufs \in [Keys -> Nat] /\ starts \in [Keys -> Nat] /\ t \in Keys /\ Key(t) = t
  BY DEF Shape, Keys, Key
<1>4. /\ r \in RecordTypes /\ r.call = c /\ r.pid = owner[t] /\ (r.handshake <=> shake)
      /\ r.start = starts[t] /\ (~shake => r.buf = bufs[t])
  <2>1. None \in Nat /\ owner[t] \in Procs
    BY DEF None, Shape
  <2> QED
    BY <1>1, <2>1 DEF RecordTypes
<1>2. CASE Len(ring) < RingSize
  <2>1. /\ Cleared(bufs, t) \in [Keys -> Nat] /\ Fits(Cleared(bufs, t))
        /\ \A k \in Keys : k # t => Cleared(bufs, t)[k] = bufs[k]
        /\ Cleared(bufs, t)[t] = None
    BY <1>1, ClearedEffect
  <2>2. /\ Cleared(starts, t) \in [Keys -> Nat] /\ Fits(Cleared(starts, t))
        /\ \A k \in Keys : k # t => Cleared(starts, t)[k] = starts[k]
    BY <1>1, ClearedEffect
  <2>3. /\ starts' = Cleared(starts, t) /\ bufs' = IF shake THEN bufs ELSE Cleared(bufs, t)
        /\ lost' = lost
        /\ ring' = Append(ring, r)
    BY <1>1, <1>2 DEF Submit
  <2> HIDE DEF r
  <2>4. Fits(starts)' /\ Fits(bufs)'
    BY <2>1, <2>2, <2>3 DEF Fits
  <2> QED
    BY <1>1, <1>4, <2>1, <2>2, <2>3, <2>4
<1>3. CASE ~(Len(ring) < RingSize)
  <2>1. bufs' = bufs /\ starts' = starts /\ ring' = ring /\ lost' = lost \cup {c}
    BY <1>3 DEF Submit
  <2> QED
    BY <1>1, <2>1 DEF Fits
<1> QED
  BY <1>2, <1>3

\* What a return may do: nothing, for a reason, or a record of the call, whose
\* buffer and start are what the maps have under the thread's key.
LEMMA ExitCases ==
  ASSUME Shape, Stacked, InnermostStored, NEW t \in Tids, NEW data \in BOOLEAN, Exit(t, data),
         NEW c, c = Last(stack[t])
  PROVE  /\ \/ lens' = lens
            \/ lens' = Cleared(lens, t)
         /\ \/ /\ Silent
               /\ (/\ data /\ calls[c].probed /\ ~calls[c].nests
                   /\ Kind(calls[c].fn) # "handshake" /\ Traced(owner[t])) => c \in denied
            \/ /\ Submit(t, c, FALSE, {"bufs", "starts"}) /\ calls[c].probed
               /\ bufs[t] # None /\ starts[t] # None /\ Kind(calls[c].fn) # "handshake"
            \/ /\ Submit(t, c, TRUE, {"starts"}) /\ calls[c].probed
               /\ starts[t] # None /\ Kind(calls[c].fn) = "handshake"
<1> DEFINE f == calls[c].fn
           stored == ~calls[c].nests /\ calls[c].probed /\ Traced(owner[t])
<1>1. c \in 1 .. Len(calls) /\ calls[c] \in Calls /\ f \in Functions /\ stack[t] # << >>
      /\ c # None /\ Key(t) = t
  BY Innermost DEF Exit, Calls, Key
<1>2. stored => /\ Has(starts, t, c)
                /\ Kind(f) # "handshake" => Has(bufs, t, c)
                /\ Kind(f) = "ex" => Has(lens, t, c)
  BY <1>1 DEF InnermostStored, InnermostAt
<1>3. CASE ~calls[c].probed
  BY <1>3 DEF Exit, maps, Silent
<1>4. CASE calls[c].probed /\ Kind(f) = "rw"
  <2>1. SSL_exit(t, c, data) /\ lens' = lens
    BY <1>4 DEF Exit
  <2>2. CASE Traced(owner[t]) /\ bufs[t] # None /\ starts[t] # None /\ data
    BY <1>1, <1>4, <2>1, <2>2 DEF SSL_exit
  <2>3. CASE ~(Traced(owner[t]) /\ bufs[t] # None /\ starts[t] # None /\ data)
    <3>1. Silent
      BY <1>1, <2>1, <2>3 DEF SSL_exit
    <3> QED
      BY <1>1, <1>2, <1>4, <2>1, <2>3, <3>1 DEF Has
  <2> QED
    BY <2>2, <2>3
<1>5. CASE calls[c].probed /\ Kind(f) = "ex"
  <2>1. ExExit(t, c, data)
    BY <1>5 DEF Exit
  <2>2. lens' = Cleared(lens, t)
    BY <2>1 DEF ExExit
  <2>3. CASE lens[t] = None
    <3>1. Silent
      BY <1>1, <2>1, <2>3 DEF ExExit
    <3> QED
      BY <1>1, <1>2, <1>5, <2>2, <2>3, <3>1 DEF Has
  <2>4. CASE lens[t] # None
    <3>1. PICK positive \in IF data /\ lens[t] # c THEN BOOLEAN ELSE {data} :
                 SSL_exit(t, c, positive)
      BY <1>1, <2>1, <2>4 DEF ExExit
    <3>2. CASE Traced(owner[t]) /\ bufs[t] # None /\ starts[t] # None /\ positive
      BY <1>1, <1>5, <2>2, <3>1, <3>2 DEF SSL_exit
    <3>3. CASE ~(Traced(owner[t]) /\ bufs[t] # None /\ starts[t] # None /\ positive)
      <4>1. Silent
        BY <1>1, <3>1, <3>3 DEF SSL_exit
      <4>2. stored /\ data => c \in denied
        <5>1. stored => lens[t] = c
          BY <1>2, <1>5, <2>4 DEF Has
        <5>2. stored => positive = data
          BY <3>1, <5>1
        <5> QED
          BY <1>1, <1>2, <1>5, <3>3, <5>2 DEF Has
      <4> QED
        BY <2>2, <4>1, <4>2
    <3> QED
      BY <3>2, <3>3
  <2> QED
    BY <2>3, <2>4
<1>6. CASE calls[c].probed /\ Kind(f) = "handshake"
  <2>1. HandshakeExit(t, c, data) /\ lens' = lens
    BY <1>6 DEF Exit
  <2> QED
    BY <1>1, <1>6, <2>1 DEF HandshakeExit
<1> QED
  BY <1>1, <1>3, <1>4, <1>5, <1>6, Kinds

\* What a return does to the maps, the ring and the history.
LEMMA ExitEffect ==
  ASSUME Kept, NEW t \in Tids, NEW data \in BOOLEAN, Exit(t, data), NEW c, c = Last(stack[t])
  PROVE  /\ bufs' \in [Keys -> Nat] /\ starts' \in [Keys -> Nat] /\ lens' \in [Keys -> Nat]
         /\ Fits(bufs)' /\ Fits(starts)' /\ Fits(lens)'
         /\ \A k \in Keys : k # t => /\ bufs'[k] = bufs[k] /\ starts'[k] = starts[k]
                                     /\ lens'[k] = lens[k]
         /\ bufs'[t] \in {bufs[t], None} /\ lost \subseteq lost' /\ denied' = denied
         /\ \/ /\ ring' = ring
               /\ (/\ data /\ calls[c].probed /\ ~calls[c].nests
                   /\ Kind(calls[c].fn) # "handshake" /\ Traced(owner[t]))
                  => c \in lost' \cup denied
            \/ \E r \in RecordTypes :
                 /\ ring' = Append(ring, r) /\ r.call = c /\ r.pid = owner[t]
                 /\ (r.handshake <=> Kind(calls[c].fn) = "handshake")
                 /\ ~calls[c].nests /\ Traced(owner[t]) =>
                      r.start = c /\ (~r.handshake => r.buf = c)
                 /\ ~r.handshake => bufs'[t] = None
<1> USE DEF Kept
<1>1. /\ c \in 1 .. Len(calls) /\ calls[c] \in Calls /\ stack[t] # << >> /\ c \in Nat /\ c # None
      /\ owner[t] \in Procs /\ t \in Keys
  BY Innermost DEF Exit, Shape, Keys
<1>2. /\ bufs \in [Keys -> Nat] /\ starts \in [Keys -> Nat] /\ lens \in [Keys -> Nat]
      /\ ring \in Seq(RecordTypes) /\ None \in Nat
  BY DEF Shape, None
<1>3. denied' = denied
  BY DEF Exit
<1>4. /\ lens' \in [Keys -> Nat] /\ Fits(lens)'
      /\ \A k \in Keys : k # t => lens'[k] = lens[k]
  <2>1. lens' = lens \/ lens' = Cleared(lens, t)
    BY ExitCases
  <2>2. CASE lens' = lens
    BY <1>2, <2>2 DEF Fits
  <2>3. CASE lens' = Cleared(lens, t)
    <3>1. /\ Cleared(lens, t) \in [Keys -> Nat] /\ Fits(Cleared(lens, t))
          /\ \A k \in Keys : k # t => Cleared(lens, t)[k] = lens[k]
      BY <1>2, ClearedEffect
    <3> QED
      BY <2>3, <3>1 DEF Fits
  <2> QED
    BY <2>1, <2>2, <2>3
<1>5. ~calls[c].nests /\ calls[c].probed /\ Traced(owner[t]) =>
        /\ Has(starts, t, c)
        /\ Kind(calls[c].fn) # "handshake" => Has(bufs, t, c)
  BY <1>1 DEF InnermostStored, InnermostAt
<1>6. CASE /\ Silent
           /\ (/\ data /\ calls[c].probed /\ ~calls[c].nests
               /\ Kind(calls[c].fn) # "handshake" /\ Traced(owner[t])) => c \in denied
  <2>1. bufs' = bufs /\ starts' = starts /\ ring' = ring /\ lost' = lost
    BY <1>6 DEF Silent
  <2> QED
    BY <1>2, <1>3, <1>4, <1>6, <2>1 DEF Fits
<1>7. ASSUME NEW shake \in BOOLEAN, shake <=> Kind(calls[c].fn) = "handshake",
             Submit(t, c, shake, IF shake THEN {"starts"} ELSE {"bufs", "starts"}),
             calls[c].probed, starts[t] # None, ~shake => bufs[t] # None
      PROVE  /\ bufs' \in [Keys -> Nat] /\ starts' \in [Keys -> Nat] /\ Fits(bufs)' /\ Fits(starts)'
             /\ \A k \in Keys : k # t => bufs'[k] = bufs[k] /\ starts'[k] = starts[k]
             /\ bufs'[t] \in {bufs[t], None} /\ lost \subseteq lost'
             /\ \/ ring' = ring /\ c \in lost'
                \/ \E r \in RecordTypes :
                     /\ ring' = Append(ring, r) /\ r.call = c /\ r.pid = owner[t]
                     /\ (r.handshake <=> Kind(calls[c].fn) = "handshake")
                     /\ ~calls[c].nests /\ Traced(owner[t]) =>
                          r.start = c /\ (~r.handshake => r.buf = c)
                     /\ ~r.handshake => bufs'[t] = None
  <2>1. /\ bufs' \in [Keys -> Nat] /\ starts' \in [Keys -> Nat] /\ Fits(bufs)' /\ Fits(starts)'
        /\ \A k \in Keys : k # t => bufs'[k] = bufs[k] /\ starts'[k] = starts[k]
        /\ bufs'[t] \in {bufs[t], None}
        /\ \/ /\ ring' = ring /\ lost' = lost \cup {c}
           \/ /\ lost' = lost /\ (~shake => bufs'[t] = None)
              /\ \E r \in RecordTypes :
                   /\ ring' = Append(ring, r) /\ r.call = c /\ r.pid = owner[t]
                   /\ (r.handshake <=> shake) /\ r.start = starts[t] /\ (~shake => r.buf = bufs[t])
    <3> DEFINE cleared == IF shake THEN {"starts"} ELSE {"bufs", "starts"}
    <3>1. cleared = IF shake THEN {"starts"} ELSE {"bufs", "starts"}
      OBVIOUS
    <3>2. Submit(t, c, shake, cleared) /\ Shape /\ Fits(bufs) /\ Fits(starts)
      BY <1>7
    <3> HIDE DEF cleared, Kept
    <3> QED
      BY <1>1, <3>1, <3>2, SubmitEffect
  <2>2. ~calls[c].nests /\ Traced(owner[t]) => starts[t] = c /\ (~shake => bufs[t] = c)
    BY <1>5, <1>7 DEF Has
  <2>3. CASE ring' = ring /\ lost' = lost \cup {c}
    BY <2>1, <2>3
  <2>4. CASE /\ lost' = lost /\ (~shake => bufs'[t] = None)
             /\ \E r \in RecordTypes :
                  /\ ring' = Append(ring, r) /\ r.call = c /\ r.pid = owner[t]
                  /\ (r.handshake <=> shake) /\ r.start = starts[t] /\ (~shake => r.buf = bufs[t])
    <3>1. PICK r \in RecordTypes :
                 /\ ring' = Append(ring, r) /\ r.call = c /\ r.pid = owner[t]
                 /\ (r.handshake <=> shake) /\ r.start = starts[t] /\ (~shake => r.buf = bufs[t])
      BY <2>4
    <3>2. /\ (r.handshake <=> Kind(calls[c].fn) = "handshake") /\ (~r.handshake => bufs'[t] = None)
          /\ ~calls[c].nests /\ Traced(owner[t]) => r.start = c /\ (~r.handshake => r.buf = c)
      BY <1>7, <2>2, <2>4, <3>1
    <3> QED
      BY <2>1, <2>4, <3>1, <3>2
  <2> QED
    BY <2>1, <2>3, <2>4
<1>8. CASE /\ Submit(t, c, FALSE, {"bufs", "starts"}) /\ calls[c].probed
           /\ bufs[t] # None /\ starts[t] # None /\ Kind(calls[c].fn) # "handshake"
  <2>1. FALSE \in BOOLEAN /\ (FALSE <=> Kind(calls[c].fn) = "handshake")
        /\ Submit(t, c, FALSE, IF FALSE THEN {"starts"} ELSE {"bufs", "starts"})
    BY <1>8
  <2> QED
    BY <1>3, <1>4, <1>7, <1>8, <2>1
<1>9. CASE /\ Submit(t, c, TRUE, {"starts"}) /\ calls[c].probed
           /\ starts[t] # None /\ Kind(calls[c].fn) = "handshake"
  <2>1. TRUE \in BOOLEAN /\ (TRUE <=> Kind(calls[c].fn) = "handshake")
        /\ Submit(t, c, TRUE, IF TRUE THEN {"starts"} ELSE {"bufs", "starts"})
    BY <1>9
  <2> QED
    BY <1>3, <1>4, <1>7, <1>9, <2>1
<1> QED
  BY <1>6, <1>8, <1>9, ExitCases

-----------------------------------------------------------------------------
\* The calls made so far keep what they are, and what was lost or shown stays so.
CallsStay ==
  /\ opts' = opts /\ alive' \subseteq alive
  /\ calls' \in Seq(Calls) /\ Len(calls) \in Nat /\ Len(calls') \in Nat /\ Len(calls') >= Len(calls)
  /\ \A c \in 1 .. Len(calls) :
       /\ calls'[c].fn = calls[c].fn /\ calls'[c].tid = calls[c].tid
       /\ calls'[c].pid = calls[c].pid /\ calls'[c].probed = calls[c].probed
       /\ calls[c].nests => calls'[c].nests
  /\ lost \subseteq lost' /\ denied \subseteq denied'

\* Then a record stays right,
LEMMA RecordStays ==
  ASSUME Kept, CallsStay, NEW r \in Records
  PROVE  RightRecord(r)'
<1>1. RightRecord(r)
  BY DEF Kept, RightRecords
<1>2. /\ r.call \in 1 .. Len(calls) /\ r.call \in 1 .. Len(calls')
      /\ calls'[r.call].pid = calls[r.call].pid /\ calls'[r.call].fn = calls[r.call].fn
      /\ calls[r.call].nests => calls'[r.call].nests
  BY <1>1 DEF RightRecord, CallsStay
<1>3. Traced(r.pid)' <=> Traced(r.pid)
  BY DEF Traced, Allowed, CallsStay
<1> QED
  BY <1>1, <1>2, <1>3 DEF RightRecord

\* an entry that stays in bufs is owned and explained, when its call did not
\* end with data,
LEMMA EntryStays ==
  ASSUME Kept, CallsStay, NEW t \in Tids, bufs'[t] = bufs[t],
         bufs[t] \in 1 .. Len(calls) =>
           \/ calls'[bufs[t]].end \in {calls[bufs[t]].end, "cut", "none"}
           \/ ~calls[bufs[t]].probed \/ calls[bufs[t]].nests \/ bufs[t] \in lost' \cup denied'
  PROVE  OwnedAt(t)'
<1> SUFFICES ASSUME bufs[t] # None
             PROVE  OwnedAt(t)'
  BY DEF OwnedAt
<1> DEFINE c == bufs[t]
<1>1. OwnedAt(t)
  BY DEF Kept, Owned
<1>2. /\ c \in 1 .. Len(calls) /\ c \in 1 .. Len(calls')
      /\ calls'[c].pid = calls[c].pid /\ calls'[c].fn = calls[c].fn /\ calls'[c].tid = calls[c].tid
      /\ calls'[c].probed = calls[c].probed /\ (calls[c].nests => calls'[c].nests)
      /\ lost \subseteq lost' /\ denied \subseteq denied'
  BY <1>1 DEF OwnedAt, CallsStay
<1>3. Traced(calls[c].pid) => Traced(calls[bufs[t]].pid)'
  BY <1>2 DEF Traced, Allowed, CallsStay
<1> QED
  BY <1>1, <1>2, <1>3 DEF OwnedAt

\* a thread is in calls of its own,
LEMMA StackStays ==
  ASSUME Kept, CallsStay, NEW t \in Tids, stack'[t] = stack[t], owner'[t] = owner[t]
  PROVE  StackedAt(t)'
<1>1. StackedAt(t)
  BY DEF Kept, Stacked
<1> QED
  BY <1>1 DEF StackedAt, CallsStay

\* what its innermost call has stored is there,
LEMMA InnermostStays ==
  ASSUME Kept, CallsStay, NEW t \in Tids, stack'[t] = stack[t], owner'[t] = owner[t],
         bufs'[t] = bufs[t], starts'[t] = starts[t], lens'[t] = lens[t]
  PROVE  InnermostAt(t)'
<1> SUFFICES ASSUME stack[t] # << >>
             PROVE  InnermostAt(t)'
  BY DEF InnermostAt
<1> DEFINE c == Last(stack[t])
<1>1. InnermostAt(t) /\ c \in 1 .. Len(calls)
  BY Innermost DEF Kept, InnermostStored
<1>2. /\ Last(stack'[t]) = c /\ calls'[c].fn = calls[c].fn /\ calls'[c].probed = calls[c].probed
      /\ (calls[c].nests => calls'[c].nests) /\ denied \subseteq denied'
  BY <1>1 DEF CallsStay
<1>3. Traced(owner[t])' <=> Traced(owner[t])
  BY DEF Traced, Allowed, CallsStay
<1> HIDE DEF c
<1>4. /\ Has(starts, t, c) => Has(starts, t, c)'
      /\ Has(bufs, t, c) => Has(bufs, t, c)'
      /\ Has(lens, t, c) => Has(lens, t, c)'
  BY <1>2 DEF Has, c
<1> QED
  BY <1>1, <1>2, <1>3, <1>4 DEF InnermostAt, c

\* and a call that was reported is, but for those whose records are not printed.
LEMMA ReportStays ==
  ASSUME Kept, CallsStay, NEW c \in 1 .. Len(calls),
         calls'[c].end \in {calls[c].end, "cut"},
         \A r \in Records : Printed(r) => r \in Records'
  PROVE  CallReported(c)'
<1> DEFINE r == [pid |-> calls[c].pid, handshake |-> FALSE]
<1>1. /\ calls'[c].fn = calls[c].fn /\ calls'[c].pid = calls[c].pid
      /\ calls'[c].probed = calls[c].probed /\ (calls[c].nests => calls'[c].nests)
      /\ lost \subseteq lost' /\ denied \subseteq denied' /\ opts' = opts /\ alive' \subseteq alive
  BY DEF CallsStay
<1> SUFFICES ASSUME calls'[c].end = "data", calls[c].probed, ~calls[c].nests,
                    Kind(calls[c].fn) # "handshake", Traced(calls[c].pid), Printed(r)
             PROVE  c \in (Reported \cup lost \cup denied)'
  <2>1. Traced(calls[c].pid)' => Traced(calls[c].pid)
    BY <1>1 DEF Traced, Allowed
  <2>2. Printed(r)' => Printed(r)
    BY <1>1 DEF Printed
  <2> QED
    BY <1>1, <2>1, <2>2 DEF CallReported
<1>2. c \in Reported \cup lost \cup denied
  BY DEF Kept, CallsReported, CallReported
<1>3. CASE c \in Reported
  <2>1. PICK x \in Records : x.call = c
    BY <1>3 DEF Reported
  <2>2. x.pid = calls[c].pid /\ ~x.handshake
    BY <2>1 DEF Kept, RightRecords, RightRecord
  <2>3. Printed(x)
    BY <2>2 DEF Printed
  <2> QED
    BY <2>1, <2>3 DEF Reported
<1>4. CASE c \in lost \cup denied
  BY <1>1, <1>4
<1> QED
  BY <1>2, <1>3, <1>4

-----------------------------------------------------------------------------
\* The invariant holds at first,
LEMMA KeptAtFirst == Init => Kept
<1> SUFFICES ASSUME Init
             PROVE  Kept
  OBVIOUS
<1>1. /\ calls = << >> /\ ring = << >> /\ shown = {} /\ Len(calls) = 0 /\ Records = {}
      /\ \A t \in Tids : stack[t] = << >> /\ Len(stack[t]) = 0
      /\ \A k \in Keys : bufs[k] = None /\ starts[k] = None /\ lens[k] = None
      /\ Tids \subseteq Keys
  BY DEF Init, Records, ToSet, Keys
<1>2. Shape
  <2>1. attached \in Nat /\ None \in Nat
    BY DEF Init, None
  <2>2. calls \in Seq(Calls) /\ ring \in Seq(RecordTypes) /\ shown \subseteq RecordTypes
    BY <1>1
  <2> QED
    BY <2>1, <2>2, TlsProbeAssumption DEF Init, Shape
<1>3. Stacked /\ InnermostStored /\ Owned /\ RightRecords /\ CallsReported
  BY <1>1 DEF Stacked, StackedAt, InnermostStored, InnermostAt, Owned, OwnedAt, RightRecords,
              CallsReported
<1>4. ASSUME NEW m, \A k \in Keys : m[k] = None
      PROVE  Fits(m)
  <2>1. {k \in Keys : m[k] # None} = {}
    BY <1>4
  <2>2. IsFiniteSet({}) /\ Cardinality({}) = 0
    BY FS_EmptySet
  <2>3. 0 <= Entries
    BY TlsProbeAssumption
  <2>4. IsFiniteSet({k \in Keys : m[k] # None}) /\ Cardinality({k \in Keys : m[k] # None}) = 0
    BY <2>1, <2>2
  <2> QED
    BY <2>3, <2>4 DEF Fits
<1>5. Fits(bufs) /\ Fits(starts) /\ Fits(lens)
  BY <1>1, <1>4
<1> QED
  BY <1>2, <1>3, <1>5 DEF Kept

\* and through what the program does,
LEMMA KeptByProgram ==
  ASSUME Kept, Attach \/ AttachFails \/ StartPolling
  PROVE  Kept'
<1>1. /\ opts' = opts /\ kernel' = kernel /\ maps' = maps /\ ring' = ring /\ shown' = shown
      /\ lost' = lost /\ denied' = denied
  BY DEF Attach, AttachFails, StartPolling
<1>2. attached' \in Nat
  BY DEF Kept, Shape, Attach, AttachFails, StartPolling
<1> QED
  BY <1>1, <1>2 DEF Kept, Shape, kernel, maps, Stacked, StackedAt, InnermostStored, InnermostAt,
    Owned, OwnedAt, RightRecords, RightRecord, CallsReported, CallReported, Fits, Has, Traced,
    Allowed, Records, Reported, Printed

LEMMA KeptByPoll ==
  ASSUME Kept, Poll
  PROVE  Kept'
<1>1. /\ program' = program /\ opts' = opts /\ attached' = attached /\ alive' = alive
      /\ owner' = owner /\ calls' = calls /\ stack' = stack /\ bufs' = bufs /\ starts' = starts
      /\ lens' = lens /\ lost' = lost /\ denied' = denied /\ ring' = Tail(ring)
  BY DEF Poll, program, kernel, maps
<1>2. /\ ring \in Seq(RecordTypes) /\ ring # << >> /\ shown \subseteq RecordTypes
      /\ Head(ring) \in RecordTypes /\ Tail(ring) \in Seq(RecordTypes)
  BY DEF Kept, Shape, Poll
<1>3. ToSet(ring) = ToSet(Tail(ring)) \cup {Head(ring)}
  BY <1>2, ElementsOf
<1>4. Records' \subseteq Records /\ \A r \in Records : Printed(r) => r \in Records'
  BY <1>1, <1>3 DEF Poll, Records
<1>5. CallsStay
  BY <1>1 DEF CallsStay, Kept, Shape
<1>6. Shape' /\ Fits(bufs)' /\ Fits(starts)' /\ Fits(lens)'
  BY <1>1, <1>2 DEF Kept, Shape, Fits, Poll
<1>7. RightRecords'
  BY <1>4, <1>5, RecordStays DEF RightRecords
<1>8. Stacked' /\ InnermostStored'
  BY <1>1, <1>5, StackStays, InnermostStays DEF Stacked, InnermostStored
<1>9. Owned'
  BY <1>1, <1>5, EntryStays DEF Owned
<1>10. CallsReported'
  BY <1>1, <1>4, <1>5, ReportStays DEF CallsReported
<1> QED
  BY <1>6, <1>7, <1>8, <1>9, <1>10 DEF Kept

\* when threads and processes end,
LEMMA KeptByCut ==
  ASSUME Kept, NEW ts \in SUBSET Tids, calls' = Cut(ts), opts' = opts, attached' = attached,
         alive' \subseteq alive, UNCHANGED <<maps, ring, shown, lost, denied>>,
         owner' \in [Tids -> Procs], stack' \in [Tids -> Seq(Nat)],
         \A t \in Tids \ ts : stack'[t] = stack[t] /\ owner'[t] = owner[t],
         \A t \in ts : stack'[t] = << >>
  PROVE  Kept'
<1>1. /\ calls' \in Seq(Calls) /\ Len(calls) \in Nat /\ Len(calls') = Len(calls)
      /\ \A c \in 1 .. Len(calls) :
           /\ calls'[c].fn = calls[c].fn /\ calls'[c].tid = calls[c].tid
           /\ calls'[c].pid = calls[c].pid /\ calls'[c].probed = calls[c].probed
           /\ calls'[c].nests = calls[c].nests
           /\ calls'[c].end \in {calls[c].end, "cut"}
  BY CutCalls DEF Kept
<1>2. bufs' = bufs /\ starts' = starts /\ lens' = lens
  BY DEF maps
<1>3. CallsStay
  <2>1. \A c \in 1 .. Len(calls) :
          /\ calls'[c].fn = calls[c].fn /\ calls'[c].tid = calls[c].tid
          /\ calls'[c].pid = calls[c].pid /\ calls'[c].probed = calls[c].probed
          /\ calls[c].nests => calls'[c].nests
    BY <1>1
  <2>2. /\ calls' \in Seq(Calls) /\ Len(calls) \in Nat /\ Len(calls') \in Nat
        /\ Len(calls') >= Len(calls)
    BY <1>1
  <2> QED
    BY <2>1, <2>2 DEF CallsStay
<1>4. Records' = Records
  BY DEF Records
<1>5. Shape' /\ Fits(bufs)' /\ Fits(starts)' /\ Fits(lens)'
  BY <1>1, <1>2 DEF Kept, Shape, Fits
<1>6. RightRecords'
  BY <1>3, <1>4, RecordStays DEF RightRecords
<1>7. Stacked' /\ InnermostStored'
  <2> SUFFICES ASSUME NEW t \in Tids
               PROVE  StackedAt(t)' /\ InnermostAt(t)'
    BY DEF Stacked, InnermostStored
  <2>1. CASE t \in ts
    <3>1. stack'[t] = << >> /\ Len(stack'[t]) = 0
      BY <2>1
    <3> QED
      BY <3>1 DEF StackedAt, InnermostAt
  <2>2. CASE t \notin ts
    BY <1>2, <1>3, <2>2, StackStays, InnermostStays
  <2> QED
    BY <2>1, <2>2
<1>8. Owned'
  BY <1>1, <1>2, <1>3, EntryStays DEF Owned
<1>9. CallsReported'
  BY <1>1, <1>3, <1>4, ReportStays DEF CallsReported
<1> QED
  BY <1>5, <1>6, <1>7, <1>8, <1>9 DEF Kept

LEMMA KeptByReuse ==
  ASSUME Kept, NEW t \in Tids, NEW p \in Procs, Reuse(t, p)
  PROVE  Kept'
<1>1. owner \in [Tids -> Procs] /\ stack \in [Tids -> Seq(Nat)]
  BY DEF Kept, Shape
<1>2. /\ owner' = [owner EXCEPT ![t] = p] /\ stack' = [stack EXCEPT ![t] = << >>]
      /\ calls' = Cut({t}) /\ opts' = opts /\ attached' = attached /\ alive' = alive
      /\ UNCHANGED <<maps, ring, shown, lost, denied>>
  BY DEF Reuse, program
<1>3. << >> \in Seq(Nat) /\ {t} \in SUBSET Tids
  OBVIOUS
<1>4. /\ owner' \in [Tids -> Procs] /\ stack' \in [Tids -> Seq(Nat)]
      /\ \A u \in Tids \ {t} : stack'[u] = stack[u] /\ owner'[u] = owner[u]
      /\ \A u \in {t} : stack'[u] = << >>
  BY <1>1, <1>2, <1>3
<1> QED
  BY <1>2, <1>3, <1>4, KeptByCut

LEMMA KeptByProcessEnds ==
  ASSUME Kept, NEW p \in Procs, ProcessEnds(p)
  PROVE  Kept'
<1> DEFINE ts == {t \in Tids : owner[t] = p}
<1>1. owner \in [Tids -> Procs] /\ stack \in [Tids -> Seq(Nat)]
  BY DEF Kept, Shape
<1>2. /\ owner' = owner /\ stack' = [t \in Tids |-> IF t \in ts THEN << >> ELSE stack[t]]
      /\ calls' = Cut(ts) /\ opts' = opts /\ attached' = attached /\ alive' \subseteq alive
      /\ UNCHANGED <<maps, ring, shown, lost, denied>>
  BY DEF ProcessEnds, program
<1>3. << >> \in Seq(Nat) /\ ts \in SUBSET Tids
  OBVIOUS
<1> HIDE DEF ts
<1>4. /\ stack' \in [Tids -> Seq(Nat)]
      /\ \A u \in Tids \ ts : stack'[u] = stack[u]
      /\ \A u \in ts : stack'[u] = << >>
  BY <1>1, <1>2, <1>3
<1> QED
  BY <1>1, <1>2, <1>3, <1>4, KeptByCut

\* when a call is made,
LEMMA KeptByEnter ==
  ASSUME Kept, NEW t \in Tids, NEW f \in Functions, Enter(t, f), NEW c, c = Len(calls) + 1
  PROVE  Kept'
<1> DEFINE traced == EnterAttached(f) /\ Traced(owner[t])
<1>1. /\ opts' = opts /\ attached' = attached /\ owner' = owner /\ alive' = alive
      /\ ring' = ring /\ shown' = shown /\ lost' = lost /\ Records' = Records
      /\ stack' = [stack EXCEPT ![t] = Append(@, c)]
  BY DEF Enter, program, Records
<1>2. /\ calls' \in Seq(Calls) /\ Len(calls) \in Nat /\ Len(calls') = c
      /\ calls'[c].fn = f /\ calls'[c].tid = t /\ calls'[c].pid = owner[t]
      /\ (calls'[c].probed <=> ExitAttached(f)) /\ calls'[c].end = "running"
      /\ \A d \in 1 .. Len(calls) :
           /\ calls'[d].fn = calls[d].fn /\ calls'[d].tid = calls[d].tid
           /\ calls'[d].pid = calls[d].pid /\ calls'[d].probed = calls[d].probed
           /\ calls'[d].end = calls[d].end /\ (calls[d].nests => calls'[d].nests)
      /\ stack[t] # << >> => calls'[Last(stack[t])].nests
  <2>1. /\ calls' \in Seq(Calls) /\ Len(calls) \in Nat /\ Len(calls') = Len(calls) + 1
        /\ calls'[c] = [fn |-> f, tid |-> t, pid |-> owner[t], probed |-> ExitAttached(f),
                        nests |-> FALSE, end |-> "running"]
    BY EnterCalls DEF Kept
  <2>2. \A d \in 1 .. Len(calls) :
          /\ calls'[d].fn = calls[d].fn /\ calls'[d].tid = calls[d].tid
          /\ calls'[d].pid = calls[d].pid /\ calls'[d].probed = calls[d].probed
          /\ calls'[d].end = calls[d].end /\ (calls[d].nests => calls'[d].nests)
    BY EnterCalls DEF Kept
  <2>3. stack[t] # << >> => calls'[Last(stack[t])].nests
    BY EnterCalls DEF Kept
  <2> QED
    BY <2>1, <2>2, <2>3
<1>3. /\ owner \in [Tids -> Procs] /\ stack \in [Tids -> Seq(Nat)] /\ t \in Keys
      /\ bufs \in [Keys -> Nat] /\ starts \in [Keys -> Nat] /\ lens \in [Keys -> Nat]
      /\ c \in Nat /\ c # None /\ c \in 1 .. Len(calls') /\ Tids \subseteq Keys
      /\ Fits(bufs) /\ Fits(starts) /\ Fits(lens)
  BY <1>2 DEF Kept, Shape, Keys, None
<1>4. /\ bufs' \in [Keys -> Nat] /\ starts' \in [Keys -> Nat] /\ lens' \in [Keys -> Nat]
      /\ Fits(bufs)' /\ Fits(starts)' /\ Fits(lens)' /\ denied \subseteq denied'
      /\ \A k \in Keys : k # t => /\ bufs'[k] = bufs[k] /\ starts'[k] = starts[k]
                                  /\ lens'[k] = lens[k]
      /\ bufs'[t] = bufs[t] \/ (bufs'[t] = c /\ traced /\ Kind(f) # "handshake")
      /\ traced => /\ Has(starts, t, c)'
                   /\ Kind(f) # "handshake" => Has(bufs, t, c)'
                   /\ Kind(f) = "ex" => Has(lens, t, c)'
  <2>1. CASE ~traced
    <3>1. bufs' = bufs /\ starts' = starts /\ lens' = lens /\ denied' = denied
      BY <2>1 DEF Enter, maps
    <3> QED
      BY <1>3, <2>1, <3>1 DEF Fits
  <2>2. CASE traced
    <3>1. EnterProbe(t, c, f)
      BY <2>2 DEF Enter
    <3>2. /\ Stored(bufs, t, c) \in [Keys -> Nat] /\ Fits(Stored(bufs, t, c))
          /\ \A k \in Keys : k # t => Stored(bufs, t, c)[k] = bufs[k]
          /\ Room(bufs, t) => Stored(bufs, t, c)[t] = c
          /\ ~Room(bufs, t) => Stored(bufs, t, c) = bufs /\ bufs[t] = None
      BY <1>3, StoredEffect
    <3>3. /\ Stored(starts, t, c) \in [Keys -> Nat] /\ Fits(Stored(starts, t, c))
          /\ \A k \in Keys : k # t => Stored(starts, t, c)[k] = starts[k]
          /\ Room(starts, t) => Stored(starts, t, c)[t] = c
          /\ ~Room(starts, t) => Stored(starts, t, c) = starts /\ starts[t] = None
      BY <1>3, StoredEffect
    <3>4. /\ Stored(lens, t, c) \in [Keys -> Nat] /\ Fits(Stored(lens, t, c))
          /\ \A k \in Keys : k # t => Stored(lens, t, c)[k] = lens[k]
          /\ Room(lens, t) => Stored(lens, t, c)[t] = c
          /\ ~Room(lens, t) => Stored(lens, t, c) = lens /\ lens[t] = None
      BY <1>3, StoredEffect
    <3>5. /\ bufs' = IF Kind(f) # "handshake" THEN Stored(bufs, t, c) ELSE bufs
          /\ starts' = Stored(starts, t, c)
          /\ lens' = IF Kind(f) = "ex" THEN Stored(lens, t, c) ELSE lens
          /\ denied \subseteq denied'
          /\ Kind(f) # "handshake" /\ ~Room(bufs, t) => c \in denied'
          /\ ~Room(starts, t) => c \in denied'
          /\ Kind(f) = "ex" /\ ~Room(lens, t) => c \in denied'
      BY <3>1 DEF EnterProbe
    <3>6. /\ bufs' \in [Keys -> Nat] /\ Fits(bufs)'
          /\ \A k \in Keys : k # t => bufs'[k] = bufs[k]
          /\ bufs'[t] = bufs[t] \/ (bufs'[t] = c /\ Kind(f) # "handshake")
          /\ Kind(f) # "handshake" => Has(bufs, t, c)'
      BY <1>3, <3>2, <3>5 DEF Fits, Has
    <3>7. /\ starts' \in [Keys -> Nat] /\ Fits(starts)'
          /\ \A k \in Keys : k # t => starts'[k] = starts[k]
          /\ Has(starts, t, c)'
      BY <3>3, <3>5 DEF Fits, Has
    <3>8. /\ lens' \in [Keys -> Nat] /\ Fits(lens)'
          /\ \A k \in Keys : k # t => lens'[k] = lens[k]
          /\ Kind(f) = "ex" => Has(lens, t, c)'
      BY <1>3, <3>4, <3>5 DEF Fits, Has
    <3> QED
      BY <2>2, <3>5, <3>6, <3>7, <3>8
  <2> QED
    BY <2>1, <2>2
<1>5. CallsStay
  BY <1>1, <1>2, <1>3, <1>4 DEF CallsStay
<1>6. \A d \in 1 .. Len(calls') : d \in 1 .. Len(calls) \/ d = c
  BY <1>2
<1>7. /\ stack' \in [Tids -> Seq(Nat)]
      /\ \A u \in Tids : u # t => stack'[u] = stack[u]
      /\ stack'[t] = Append(stack[t], c) /\ stack'[t] # << >> /\ Last(stack'[t]) = c
      /\ Len(stack[t]) \in Nat /\ Len(stack'[t]) = Len(stack[t]) + 1
      /\ \A i \in 1 .. Len(stack[t]) : stack'[t][i] = stack[t][i]
      /\ stack'[t][Len(stack[t]) + 1] = c
  <2>1. Append(stack[t], c) \in Seq(Nat)
    BY <1>3
  <2>2. stack'[t] = Append(stack[t], c) /\ stack[t] \in Seq(Nat)
    BY <1>1, <1>3
  <2> DEFINE s == stack[t]
             q == stack'[t]
  <2>3. s \in Seq(Nat) /\ q = Append(s, c) /\ c \in Nat
    BY <1>3, <2>2
  <2> HIDE DEF s, q
  <2>4. /\ Len(q) = Len(s) + 1 /\ q # << >> /\ \A i \in 1 .. Len(s) : q[i] = s[i]
        /\ q[Len(s) + 1] = c /\ Len(s) \in Nat
    BY <2>3
  <2>5. /\ Len(stack'[t]) = Len(stack[t]) + 1 /\ stack'[t] # << >>
        /\ \A i \in 1 .. Len(stack[t]) : stack'[t][i] = stack[t][i]
        /\ stack'[t][Len(stack[t]) + 1] = c /\ Len(stack[t]) \in Nat
    BY <2>4 DEF s, q
  <2> QED
    BY <1>1, <1>3, <2>1, <2>2, <2>5 DEF Last
<1>8. Shape'
  <2>1. opts' \in Options /\ attached' \in Nat /\ owner' \in [Tids -> Procs]
        /\ ring' \in Seq(RecordTypes) /\ shown' \subseteq RecordTypes
    BY <1>1 DEF Kept, Shape
  <2> QED
    BY <1>2, <1>4, <1>7, <2>1 DEF Shape
<1>9. RightRecords'
  BY <1>1, <1>5, RecordStays DEF RightRecords
<1>10. Stacked'
  <2> SUFFICES ASSUME NEW u \in Tids
               PROVE  StackedAt(u)'
    BY DEF Stacked
  <2>1. CASE u # t
    BY <1>1, <1>5, <1>7, <2>1, StackStays
  <2>2. CASE u = t
    <3> SUFFICES ASSUME NEW i \in 1 .. Len(stack'[t])
                 PROVE  LET d == stack'[t][i] IN
                          /\ d \in 1 .. Len(calls') /\ calls'[d].tid = t
                          /\ calls'[d].pid = owner'[t]
                          /\ i < Len(stack'[t]) => calls'[d].nests
      BY <2>2 DEF StackedAt
    <3>1. CASE i = Len(stack[t]) + 1
      BY <1>1, <1>2, <1>3, <1>7, <3>1
    <3>2. CASE i \in 1 .. Len(stack[t])
      <4> DEFINE d == stack[t][i]
      <4>1. /\ stack'[t][i] = d /\ d \in 1 .. Len(calls) /\ calls[d].tid = t
            /\ calls[d].pid = owner[t] /\ (i < Len(stack[t]) => calls[d].nests)
        BY <1>7, <3>2 DEF Kept, Stacked, StackedAt
      <4>2. i < Len(stack[t]) \/ (stack[t] # << >> /\ d = Last(stack[t]))
        BY <1>3, <1>7, <3>2 DEF Last
      <4> HIDE DEF d
      <4>3. d \in 1 .. Len(calls') /\ calls'[d].tid = t /\ calls'[d].pid = owner'[t]
        BY <1>1, <1>5, <4>1 DEF CallsStay
      <4>4. calls'[d].nests
        BY <1>2, <4>1, <4>2
      <4> QED
        BY <4>1, <4>3, <4>4
    <3>3. i = Len(stack[t]) + 1 \/ i \in 1 .. Len(stack[t])
      BY <1>7
    <3> QED
      BY <3>1, <3>2, <3>3
  <2> QED
    BY <2>1, <2>2
<1>11. InnermostStored'
  <2> SUFFICES ASSUME NEW u \in Tids
               PROVE  InnermostAt(u)'
    BY DEF InnermostStored
  <2>1. CASE u # t
    BY <1>1, <1>3, <1>4, <1>5, <1>7, <2>1, InnermostStays
  <2>2. CASE u = t
    <3>1. Traced(owner[t])' <=> Traced(owner[t])
      BY <1>1 DEF Traced, Allowed
    <3>2. calls'[c].probed => EnterAttached(f)
      BY <1>2, EnterFirst DEF Kept
    <3> QED
      BY <1>2, <1>4, <1>7, <2>2, <3>1, <3>2 DEF InnermostAt
  <2> QED
    BY <2>1, <2>2
<1>12. Owned'
  <2> SUFFICES ASSUME NEW u \in Tids
               PROVE  OwnedAt(u)'
    BY DEF Owned
  <2>1. CASE bufs'[u] = bufs[u]
    BY <1>2, <1>5, <2>1, EntryStays
  <2>2. CASE bufs'[u] # bufs[u]
    <3>1. u = t /\ bufs'[t] = c /\ traced /\ Kind(f) # "handshake"
      BY <1>3, <1>4, <2>2
    <3>2. Traced(owner[t]) => Traced(calls[c].pid)'
      BY <1>1, <1>2 DEF Traced, Allowed
    <3> QED
      BY <1>2, <1>3, <3>1, <3>2 DEF OwnedAt
  <2> QED
    BY <2>1, <2>2
<1>13. CallsReported'
  <2> SUFFICES ASSUME NEW d \in 1 .. Len(calls')
               PROVE  CallReported(d)'
    BY DEF CallsReported
  <2>1. CASE d \in 1 .. Len(calls)
    BY <1>1, <1>2, <1>5, <2>1, ReportStays
  <2>2. CASE d = c
    BY <1>2, <2>2 DEF CallReported
  <2> QED
    BY <1>6, <2>1, <2>2
<1> QED
  BY <1>4, <1>8, <1>9, <1>10, <1>11, <1>12, <1>13 DEF Kept

\* and when one returns.
LEMMA KeptByExit ==
  ASSUME Kept, NEW t \in Tids, NEW data \in BOOLEAN, Exit(t, data), NEW c, c = Last(stack[t])
  PROVE  Kept'
<1> DEFINE moved == /\ data /\ calls[c].probed /\ ~calls[c].nests
                    /\ Kind(calls[c].fn) # "handshake" /\ Traced(owner[t])
<1>1. /\ opts' = opts /\ attached' = attached /\ owner' = owner /\ alive' = alive
      /\ shown' = shown /\ denied' = denied
      /\ stack' = [stack EXCEPT ![t] = Front(@)] /\ stack[t] # << >>
  BY DEF Exit, program
<1>2. /\ calls' \in Seq(Calls) /\ Len(calls) \in Nat /\ Len(calls') = Len(calls)
      /\ calls'[c].end = IF data THEN "data" ELSE "none"
      /\ \A d \in 1 .. Len(calls) :
           /\ calls'[d].fn = calls[d].fn /\ calls'[d].tid = calls[d].tid
           /\ calls'[d].pid = calls[d].pid /\ calls'[d].probed = calls[d].probed
           /\ calls'[d].nests = calls[d].nests /\ (d # c => calls'[d].end = calls[d].end)
  BY ExitCalls DEF Kept
<1>3. /\ owner \in [Tids -> Procs] /\ stack \in [Tids -> Seq(Nat)] /\ t \in Keys /\ Tids \subseteq Keys
      /\ c \in 1 .. Len(calls) /\ calls[c].tid = t /\ calls[c].pid = owner[t]
  BY <1>1, Innermost DEF Kept, Shape, Keys
<1>4. /\ bufs' \in [Keys -> Nat] /\ starts' \in [Keys -> Nat] /\ lens' \in [Keys -> Nat]
      /\ Fits(bufs)' /\ Fits(starts)' /\ Fits(lens)'
      /\ \A k \in Keys : k # t => /\ bufs'[k] = bufs[k] /\ starts'[k] = starts[k]
                                  /\ lens'[k] = lens[k]
      /\ bufs'[t] \in {bufs[t], None} /\ lost \subseteq lost'
      /\ \/ ring' = ring /\ (moved => c \in lost' \cup denied)
         \/ \E r \in RecordTypes :
              /\ ring' = Append(ring, r) /\ r.call = c /\ r.pid = owner[t]
              /\ (r.handshake <=> Kind(calls[c].fn) = "handshake")
              /\ ~calls[c].nests /\ Traced(owner[t]) =>
                   r.start = c /\ (~r.handshake => r.buf = c)
              /\ ~r.handshake => bufs'[t] = None
  BY ExitEffect
<1> HIDE DEF moved
<1>5. CallsStay
  BY <1>1, <1>2, <1>4 DEF CallsStay
<1>6. /\ ring' \in Seq(RecordTypes) /\ Records \subseteq Records'
      /\ \A r \in Records' \ Records : RightRecord(r)'
      /\ moved => c \in lost' \cup denied \/ (c \in Reported' /\ bufs'[t] = None)
  <2>1. ring \in Seq(RecordTypes)
    BY DEF Kept, Shape
  <2>2. CASE ring' = ring /\ (moved => c \in lost' \cup denied)
    BY <1>1, <2>1, <2>2 DEF Records
  <2>3. ASSUME NEW r \in RecordTypes,
               ring' = Append(ring, r), r.call = c, r.pid = owner[t],
               r.handshake <=> Kind(calls[c].fn) = "handshake",
               ~calls[c].nests /\ Traced(owner[t]) => r.start = c /\ (~r.handshake => r.buf = c),
               ~r.handshake => bufs'[t] = None
        PROVE  /\ ring' \in Seq(RecordTypes) /\ Records \subseteq Records'
               /\ \A x \in Records' \ Records : RightRecord(x)'
               /\ moved => c \in Reported' /\ bufs'[t] = None
    <3>1. ring' \in Seq(RecordTypes) /\ ToSet(ring') = ToSet(ring) \cup {r}
      BY <2>1, <2>3, ElementsOf
    <3>2. Records' = Records \cup {r}
      BY <1>1, <3>1 DEF Records
    <3>3. Traced(r.pid)' <=> Traced(owner[t])
      BY <1>1, <2>3 DEF Traced, Allowed
    <3>4. RightRecord(r)'
      BY <1>2, <1>3, <2>3, <3>3 DEF RightRecord
    <3>5. moved => c \in Reported' /\ bufs'[t] = None
      BY <2>3, <3>2 DEF Reported, moved
    <3> QED
      BY <3>1, <3>2, <3>4, <3>5
  <2> QED
    BY <1>4, <2>2, <2>3
<1>7. RightRecords'
  BY <1>5, <1>6, RecordStays DEF RightRecords
<1>8. /\ stack' \in [Tids -> Seq(Nat)]
      /\ \A u \in Tids : u # t => stack'[u] = stack[u]
      /\ Len(stack[t]) \in Nat /\ Len(stack'[t]) \in Nat /\ Len(stack'[t]) = Len(stack[t]) - 1
      /\ \A i \in 1 .. Len(stack'[t]) : stack'[t][i] = stack[t][i]
      /\ stack'[t] # << >> => /\ Last(stack'[t]) = stack'[t][Len(stack'[t])]
                              /\ Len(stack'[t]) \in 1 .. Len(stack'[t])
  <2>1. stack[t] \in Seq(Nat) /\ stack'[t] = Front(stack[t])
    BY <1>1, <1>3
  <2>2. /\ Front(stack[t]) \in Seq(Nat) /\ Len(Front(stack[t])) = Len(stack[t]) - 1
        /\ \A i \in 1 .. Len(Front(stack[t])) : Front(stack[t])[i] = stack[t][i]
        /\ Len(stack[t]) \in Nat
    BY <1>1, <2>1, LastAndFront
  <2>3. stack'[t] # << >> => /\ Last(stack'[t]) = stack'[t][Len(stack'[t])]
                             /\ Len(stack'[t]) \in Nat /\ Len(stack'[t]) >= 1
    BY <2>1, <2>2, LastAndFront
  <2>4. Len(stack'[t]) \in Nat
    BY <2>1, <2>2
  <2>5. stack' \in [Tids -> Seq(Nat)] /\ \A u \in Tids : u # t => stack'[u] = stack[u]
    BY <1>1, <1>3, <2>2
  <2> QED
    BY <2>1, <2>2, <2>3, <2>4, <2>5
<1>9. Shape'
  <2>1. /\ opts' \in Options /\ attached' \in Nat /\ owner' \in [Tids -> Procs]
        /\ shown' \subseteq RecordTypes
    BY <1>1 DEF Kept, Shape
  <2> QED
    BY <1>2, <1>4, <1>6, <1>8, <2>1 DEF Shape
<1>10. \A i \in 1 .. Len(stack'[t]) :
         LET d == stack'[t][i] IN
           /\ d \in 1 .. Len(calls') /\ calls'[d].tid = t /\ calls'[d].pid = owner'[t]
           /\ calls'[d].nests
  <2> SUFFICES ASSUME NEW i \in 1 .. Len(stack'[t]), NEW d, d = stack'[t][i]
               PROVE  /\ d \in 1 .. Len(calls') /\ calls'[d].tid = t /\ calls'[d].pid = owner'[t]
                      /\ calls'[d].nests
    OBVIOUS
  <2>1. d = stack[t][i] /\ i \in 1 .. Len(stack[t]) /\ i < Len(stack[t])
    <3>1. Len(stack[t]) \in Nat /\ Len(stack'[t]) = Len(stack[t]) - 1
          /\ \A j \in 1 .. Len(stack'[t]) : stack'[t][j] = stack[t][j]
      BY <1>8
    <3>2. i \in 1 .. Len(stack[t]) /\ i < Len(stack[t])
      BY <3>1
    <3> QED
      BY <3>1, <3>2
  <2>2. /\ d \in 1 .. Len(calls) /\ calls[d].tid = t /\ calls[d].pid = owner[t]
        /\ calls[d].nests
    BY <2>1 DEF Kept, Stacked, StackedAt
  <2> QED
    BY <1>1, <1>2, <2>2
<1>11. Stacked' /\ InnermostStored'
  <2> SUFFICES ASSUME NEW u \in Tids
               PROVE  StackedAt(u)' /\ InnermostAt(u)'
    BY DEF Stacked, InnermostStored
  <2>1. CASE u # t
    BY <1>1, <1>3, <1>4, <1>5, <1>8, <2>1, StackStays, InnermostStays
  <2>2. CASE u = t
    <3>1. StackedAt(t)'
      BY <1>10 DEF StackedAt
    <3>2. InnermostAt(t)'
      BY <1>8, <1>10 DEF InnermostAt
    <3> QED
      BY <2>2, <3>1, <3>2
  <2> QED
    BY <2>1, <2>2
<1>12. Owned'
  <2> SUFFICES ASSUME NEW u \in Tids
               PROVE  OwnedAt(u)'
    BY DEF Owned
  <2>1. OwnedAt(u)
    BY DEF Kept, Owned
  <2>2. CASE u # t
    <3>1. bufs'[u] = bufs[u]
      BY <1>3, <1>4, <2>2
    <3>2. CASE bufs[u] = None
      BY <3>1, <3>2 DEF OwnedAt
    <3>3. CASE bufs[u] # None
      <4>1. bufs[u] \in 1 .. Len(calls) /\ bufs[u] # c
        BY <1>3, <2>1, <2>2, <3>3 DEF OwnedAt
      <4>2. calls'[bufs[u]].end = calls[bufs[u]].end
        BY <1>2, <4>1
      <4> QED
        BY <1>5, <3>1, <4>2, EntryStays
    <3> QED
      BY <3>2, <3>3
  <2>3. CASE u = t
    <3>1. CASE bufs'[t] = None
      BY <2>3, <3>1 DEF OwnedAt
    <3>2. CASE bufs'[t] = bufs[t] /\ bufs[t] # c
      <4>1. bufs[t] \in 1 .. Len(calls) => calls'[bufs[t]].end = calls[bufs[t]].end
        BY <1>2, <3>2
      <4> QED
        BY <1>5, <2>3, <3>2, <4>1, EntryStays
    <3>3. CASE bufs'[t] = bufs[t] /\ bufs[t] = c /\ bufs'[t] # None
      <4>1. Kind(calls[c].fn) # "handshake" /\ Traced(owner[t])
        BY <1>3, <2>1, <2>3, <3>3 DEF OwnedAt
      <4>2. \/ calls'[c].end = "none" \/ ~calls[c].probed \/ calls[c].nests
            \/ c \in lost' \cup denied'
        BY <1>1, <1>2, <1>6, <3>3, <4>1 DEF moved
      <4> QED
        BY <1>5, <2>3, <3>3, <4>2, EntryStays
    <3> QED
      BY <1>4, <3>1, <3>2, <3>3
  <2> QED
    BY <2>2, <2>3
<1>13. CallsReported'
  <2> SUFFICES ASSUME NEW d \in 1 .. Len(calls')
               PROVE  CallReported(d)'
    BY DEF CallsReported
  <2>1. d \in 1 .. Len(calls)
    BY <1>2
  <2>2. CASE d # c
    <3>1. calls'[d].end = calls[d].end
      BY <1>2, <2>1, <2>2
    <3> QED
      BY <1>5, <1>6, <2>1, <3>1, ReportStays
  <2>3. CASE d = c
    <3>1. /\ calls'[c].fn = calls[c].fn /\ calls'[c].pid = owner[t]
          /\ calls'[c].probed = calls[c].probed /\ calls'[c].nests = calls[c].nests
          /\ (calls'[c].end = "data" => data)
      BY <1>2, <1>3
    <3>2. Traced(calls[c].pid)' => Traced(owner[t])
      BY <1>1, <3>1 DEF Traced, Allowed
    <3> QED
      BY <1>1, <1>6, <2>3, <3>1, <3>2 DEF CallReported, moved
  <2> QED
    BY <2>2, <2>3
<1> QED
  BY <1>4, <1>7, <1>9, <1>11, <1>12, <1>13 DEF Kept

-----------------------------------------------------------------------------
\* Every step keeps the invariant.
LEMMA KeptByNext == Kept /\ [Next]_vars => Kept'
<1> SUFFICES ASSUME Kept, [Next]_vars
             PROVE  Kept'
  OBVIOUS
<1>1. CASE Attach \/ AttachFails \/ StartPolling
  BY <1>1, KeptByProgram
<1>2. CASE Poll
  BY <1>2, KeptByPoll
<1>3. ASSUME NEW t \in Tids, NEW f \in ToSet(opts.functions), Enter(t, f)
      PROVE  Kept'
  BY <1>3, ProbedFunctions, KeptByEnter DEF Kept
<1>4. ASSUME NEW t \in Tids, NEW data \in BOOLEAN, Exit(t, data)
      PROVE  Kept'
  BY <1>4, KeptByExit
<1>5. ASSUME NEW t \in Tids, NEW p \in Procs, Reuse(t, p)
      PROVE  Kept'
  BY <1>5, KeptByReuse
<1>6. ASSUME NEW p \in Procs, ProcessEnds(p)
      PROVE  Kept'
  BY <1>6, KeptByProcessEnds
<1>7. CASE UNCHANGED vars
  <2>1. UNCHANGED <<opts, phase, attached, owner, alive, deaths, calls, stack, bufs, starts, lens,
                    ring, shown, lost, denied>>
    BY <1>7 DEF vars, program, kernel, maps
  <2>2. Shape' /\ Stacked' /\ InnermostStored'
    BY <2>1 DEF Kept, Shape, Stacked, StackedAt, InnermostStored, InnermostAt, Has, Traced, Allowed
  <2>3. Owned' /\ RightRecords'
    BY <2>1 DEF Kept, Owned, OwnedAt, RightRecords, RightRecord, Records, Traced, Allowed
  <2>4. CallsReported'
    BY <2>1 DEF Kept, CallsReported, CallReported, Records, Reported, Printed, Traced, Allowed
  <2>5. Fits(bufs)' /\ Fits(starts)' /\ Fits(lens)'
    BY <2>1 DEF Kept, Fits
  <2> QED
    BY <2>2, <2>3, <2>4, <2>5 DEF Kept
<1> QED
  BY <1>1, <1>2, <1>3, <1>4, <1>5, <1>6, <1>7 DEF Next

LEMMA AlwaysKept == Spec => []Kept
BY KeptAtFirst, KeptByNext, PTL DEF Spec

\* Every record of a call that the filters select carries the buffer and the
\* start of that call, however calls nest, threads end and their ids are
\* reused, whenever the probes are attached, and whatever the size of the maps
\* and the ring; and what calls leave in the maps is explained.
THEOREM RecordsAreOwn == Spec => []OwnBuffer
<1>1. Kept => OwnBuffer
  <2> SUFFICES ASSUME Kept
               PROVE  OwnBuffer
    OBVIOUS
  <2>1. ASSUME NEW m \in {bufs, starts, lens}
        PROVE  Cardinality({k \in DOMAIN m : m[k] # None}) <= Entries
    <3>1. Fits(m) /\ DOMAIN m = Keys
      BY <2>1 DEF Kept, Shape
    <3> QED
      BY <3>1 DEF Fits
  <2>2. EntriesExplained
    BY <2>1 DEF EntriesExplained, Kept, Owned, OwnedAt
  <2> QED
    BY <2>2 DEF OwnBuffer, Kept, RightRecords, RightRecord
<1> QED
  BY <1>1, AlwaysKept, PTL

\* No data are missed: every call of a traced process that moved data while its
\* function was probed has a record, unless it nested another call or the ring
\* or a map was full, or the printing filters leave its process out.
THEOREM DataAreReported == Spec => []DataReported
<1>1. Kept => DataReported
  <2> SUFFICES ASSUME Kept
               PROVE  DataReported
    OBVIOUS
  <2>1. DOMAIN calls = 1 .. Len(calls)
    BY DEF Kept, Shape
  <2> QED
    BY <2>1 DEF Kept, CallsReported, CallReported, DataReported
<1> QED
  BY <1>1, AlwaysKept, PTL

-----------------------------------------------------------------------------
\* The stdio probe

IoTypes == [pid : IoPids, dir : {"read", "write"}, fd : Nat,
            end : {"running", "data", "failed"}, exited : BOOLEAN, due : BOOLEAN]
IoPairs == [call : Nat, from : Nat]
IoStored == {p \in IoPids : ioArgs[p] # Io!None}

IoShape ==
  /\ ioOpts \in IoOptions /\ ioPhase \in {"attaching", "scanning", "polling"}
  /\ ioAttached \in 0 .. 4 /\ (ioPhase = "attaching" <=> ioAttached < 4)
  /\ ioCalls \in Seq(IoTypes)
  /\ ioCurrent \in [IoPids -> Nat] /\ ioArgs \in [IoPids -> Nat]
  /\ ioRing \in Seq(IoPairs) /\ ioShown \subseteq IoPairs
  /\ ioTracked \subseteq IoPids
  /\ IsFiniteSet(ioTracked) /\ Cardinality(ioTracked) <= IoEntries
  /\ IsFiniteSet(IoStored) /\ Cardinality(IoStored) <= IoEntries

\* A process is in a call of its own that has not ended.
IoInCall(p) ==
  ioCurrent[p] # Io!None =>
    /\ ioCurrent[p] \in 1 .. Len(ioCalls)
    /\ ioCalls[ioCurrent[p]].pid = p /\ ioCalls[ioCurrent[p]].end = "running"

\* The arguments stored are of a call of the process, which is in it or has left
\* it past the exit probe.
IoArgsAt(p) ==
  ioArgs[p] # Io!None =>
    /\ ioArgs[p] \in 1 .. Len(ioCalls) /\ ioCalls[ioArgs[p]].pid = p
    /\ ioArgs[p] # ioCurrent[p] =>
         ~ioCalls[ioArgs[p]].exited /\ ioCalls[ioArgs[p]].end # "running"

\* A record is of a call that has ended, and its arguments of that or of one
\* that the exit probe has not seen.
IoRight(r) ==
  /\ r.call \in 1 .. Len(ioCalls) /\ r.from \in 1 .. Len(ioCalls)
  /\ ioCalls[r.call].end # "running" /\ ioCalls[r.from].end # "running"
  /\ r.from = r.call \/ ~ioCalls[r.from].exited

IoCallsOwned ==
  /\ \A p \in IoPids : IoInCall(p) /\ IoArgsAt(p)
  /\ \A r \in Io!Records : IoRight(r)

\* Scans meet processes that they have put into the map, after all probes are attached.
IoMet ==
  /\ ioSeen \subseteq ioTracked
  /\ ioSeen # {} => ioPhase # "attaching"
  /\ \A c \in 1 .. Len(ioCalls) : ioCalls[c].due => ioPhase # "attaching"

\* What KinReported says of a call, and what holds of one that has not returned
IoReportedOrLost(c) ==
  ioCalls[c].due /\ ioCalls[c].end = "data" /\ Io!SelectedFd(ioCalls[c].fd) =>
    c \in Io!Reported \cup ioLost

IoWillBe(p) ==
  LET c == ioCurrent[p] IN
    c # Io!None /\ ioCalls[c].due /\ Io!SelectedFd(ioCalls[c].fd) => ioArgs[p] = c \/ c \in ioLost

IoDueReported ==
  ioOpts.session => /\ \A c \in 1 .. Len(ioCalls) : IoReportedOrLost(c)
                    /\ \A p \in IoPids : IoWillBe(p)

\* A process with a parent that has ever been of the session or descended from
\* it has, too; and nobody else is in the maps or reported.
IoFamily ==
  /\ ioKin \subseteq IoPids /\ ioSess \subseteq ioKin /\ ioAlive \subseteq IoPids
  /\ ioParent \in [IoPids -> ioAlive \cup {IoNoPid}]
  /\ \A q \in IoPids : ioParent[q] \in ioKin => q \in ioKin

IoKinOnly ==
  ioOpts.session =>
    /\ ioTracked \subseteq ioKin
    /\ \A p \in IoPids : ioArgs[p] # Io!None => p \in ioKin
    /\ \A r \in Io!Records : ioCalls[r.call].pid \in ioKin

IoKept == IoShape /\ IoCallsOwned /\ IoMet /\ IoDueReported /\ IoFamily /\ IoKinOnly

-----------------------------------------------------------------------------
\* The instance's operators on sets and sequences are the ones of the libraries.
LEMMA IoWords ==
  /\ \A S : Io!Cardinality(S) = Cardinality(S)
  /\ \A s : Io!ToSet(s) = ToSet(s)
  /\ Io!None = 0
BY DEF Io!Cardinality, Cardinality, Io!ToSet, ToSet, Io!None

\* A call of the model, and the records of the ring and of those printed
LEMMA IoTyped ==
  ASSUME IoShape
  PROVE  /\ Len(ioCalls) \in Nat /\ DOMAIN ioCalls = 1 .. Len(ioCalls)
         /\ \A c \in 1 .. Len(ioCalls) : ioCalls[c] \in IoTypes
         /\ Io!Records = ToSet(ioRing) \cup ioShown /\ Io!Records \subseteq IoPairs
<1>1. ioCalls \in Seq(IoTypes) /\ ioRing \in Seq(IoPairs) /\ ioShown \subseteq IoPairs
  BY DEF IoShape
<1>2. Io!Records = ToSet(ioRing) \cup ioShown
  BY IoWords DEF Io!Records
<1>3. ToSet(ioRing) \subseteq IoPairs
  BY <1>1, ElementsOf
<1> QED
  BY <1>1, <1>2, <1>3

\* Once the program scans or polls, all probes are attached.
LEMMA IoAllAttached ==
  ASSUME IoShape, ioPhase # "attaching", NEW dir \in {"read", "write"}
  PROVE  Io!On("enter", dir) /\ Io!On("exit", dir)
<1>1. ioAttached = 4
  BY DEF IoShape
<1>2. /\ Io!Tracepoints[1] = <<"enter", "read">> /\ Io!Tracepoints[2] = <<"exit", "read">>
      /\ Io!Tracepoints[3] = <<"enter", "write">> /\ Io!Tracepoints[4] = <<"exit", "write">>
  BY DEF Io!Tracepoints
<1>3. 1 \in 1 .. 4 /\ 2 \in 1 .. 4 /\ 3 \in 1 .. 4 /\ 4 \in 1 .. 4
  OBVIOUS
<1>4. CASE dir = "read"
  BY <1>1, <1>2, <1>3, <1>4 DEF Io!On
<1>5. CASE dir = "write"
  BY <1>1, <1>2, <1>3, <1>5 DEF Io!On
<1> QED
  BY <1>4, <1>5

\* Every set of positions in a line has a first one.
LEMMA FirstExists ==
  ASSUME NEW S \in SUBSET Nat, S # {}
  PROVE  \E i \in S : \A j \in S : ~ (j < i)
<1>1. IsWellFoundedOn(OpToRel(<, Nat), Nat)
  BY NatLessThanWellFounded
<1>2. PICK i \in S : \A j \in S : ~ (<<j, i>> \in OpToRel(<, Nat))
  BY <1>1, WFMin
<1> QED
  BY <1>2 DEF OpToRel

\* Whoever has an ancestor among the session and its descendants is one of them:
\* the first in the line of descent that is has a child in the line that is, too.
LEMMA IoDescent ==
  ASSUME Io!StdioAssumption, IoFamily, NEW p \in IoPids, NEW S, S \subseteq ioKin,
         Io!Ancestors(p) \cap S # {}
  PROVE  p \in ioKin
<1>0. PICK n \in 1 .. IoLevels :
        \E line \in [0 .. n -> IoPids] : Io!Descent(line, p, n) /\ line[n] \in S
  BY DEF Io!Ancestors
<1>1. PICK line \in [0 .. n -> IoPids] : Io!Descent(line, p, n) /\ line[n] \in S
  BY <1>0
<1>2. n \in Nat
  BY <1>1 DEF Io!StdioAssumption
<1>3. line[0] = p /\ \A i \in 1 .. n : line[i] = ioParent[line[i - 1]]
  BY <1>1 DEF Io!Descent
<1> DEFINE K == {i \in 0 .. n : line[i] \in ioKin}
<1>4. K \in SUBSET Nat /\ n \in K
  BY <1>1, <1>2
<1>5. PICK k \in K : \A j \in K : ~(j < k)
  <2> HIDE DEF K
  <2> QED
    BY <1>4, FirstExists
<1>6. ASSUME k # 0
      PROVE  FALSE
  <2>1. k \in 1 .. n /\ k - 1 \in 0 .. n /\ k - 1 < k
    BY <1>2, <1>6
  <2>2. line[k] = ioParent[line[k - 1]] /\ line[k] \in ioKin /\ line[k - 1] \in IoPids
    BY <1>3, <2>1
  <2>3. line[k - 1] \in ioKin
    BY <2>2 DEF IoFamily
  <2> QED
    BY <1>5, <2>1, <2>3
<1> QED
  BY <1>3, <1>6

\* What does not touch calls, arguments and records leaves what is said of them.
LEMMA IoCallsStay ==
  ASSUME IoCallsOwned, IoDueReported, Io!Records' = Io!Records,
         UNCHANGED <<ioOpts, ioCalls, ioCurrent, ioArgs, ioLost>>
  PROVE  IoCallsOwned' /\ IoDueReported'
<1>1. IoCallsOwned'
  BY DEF IoCallsOwned, IoInCall, IoArgsAt, IoRight
<1>2. Io!Reported' = Io!Reported
  BY DEF Io!Reported
<1>3. IoDueReported'
  BY <1>2 DEF IoDueReported, IoReportedOrLost, IoWillBe, Io!SelectedFd
<1> QED
  BY <1>1, <1>3

LEMMA IoKinStays ==
  ASSUME IoKinOnly, Io!Records' = Io!Records, UNCHANGED <<ioOpts, ioCalls, ioArgs>>,
         ioKin \subseteq ioKin', ioOpts.session => ioTracked' \subseteq ioKin'
  PROVE  IoKinOnly'
  BY DEF IoKinOnly

-----------------------------------------------------------------------------
LEMMA IoAtFirst == Io!StdioAssumption /\ Io!Init => IoKept
<1> SUFFICES ASSUME Io!StdioAssumption, Io!Init
             PROVE  IoKept
  OBVIOUS
<1> USE DEF Io!Init
<1>1. Io!None = 0 /\ Len(ioCalls) = 0 /\ Io!Records = {}
  BY IoWords DEF Io!Records, ToSet
<1>2. IoStored = {}
  BY <1>1 DEF IoStored
<1>3. IsFiniteSet({}) /\ Cardinality({}) = 0
  BY FS_EmptySet
<1>4. IoShape
  BY <1>1, <1>2, <1>3 DEF IoShape, Io!StdioAssumption
<1>5. IoCallsOwned
  BY <1>1 DEF IoCallsOwned, IoInCall, IoArgsAt
<1>6. IoMet /\ IoDueReported
  BY <1>1 DEF IoMet, IoDueReported, IoWillBe
<1>7. IoFamily
  BY DEF IoFamily, Io!StdioAssumption
<1>8. IoKinOnly
  BY <1>1 DEF IoKinOnly
<1> QED
  BY <1>4, <1>5, <1>6, <1>7, <1>8 DEF IoKept

\* A map with room for one more keeps to its size.
LEMMA IoAdded ==
  ASSUME Io!StdioAssumption, NEW S, IsFiniteSet(S), Cardinality(S) <= IoEntries,
         NEW p, NEW new, new \subseteq {p}, new # {} => Io!Room(S)
  PROVE  IsFiniteSet(S \cup new) /\ Cardinality(S \cup new) <= IoEntries
<1>1. IoEntries \in Nat /\ Cardinality(S) \in Nat
  BY FS_CardinalityType DEF Io!StdioAssumption
<1>2. CASE new = {}
  <2>1. S \cup new = S
    BY <1>2
  <2> QED
    BY <2>1
<1>3. CASE new # {}
  <2>1. new = {p} /\ Cardinality(S) < IoEntries
    BY <1>3, IoWords DEF Io!Room
  <2>2. IsFiniteSet(S \cup {p})
        /\ Cardinality(S \cup {p}) = IF p \in S THEN Cardinality(S) ELSE Cardinality(S) + 1
    BY FS_AddElement
  <2> QED
    BY <1>1, <2>1, <2>2
<1> QED
  BY <1>2, <1>3

-----------------------------------------------------------------------------
\* The program's steps
LEMMA IoKeptByPhases ==
  ASSUME Io!StdioAssumption, IoKept, Io!Attach \/ Io!EndScan \/ Io!EndPoll \/ UNCHANGED Io!vars
  PROVE  IoKept'
<1> USE DEF IoKept
<1>1. /\ UNCHANGED <<ioOpts, ioCalls, ioCurrent, ioArgs, ioTracked, ioRing, ioShown, ioKin,
                     ioSeen, ioLost, ioAlive, ioParent, ioSess>>
      /\ ioPhase' \in {"attaching", "scanning", "polling"}
      /\ ioAttached' \in 0 .. 4 /\ (ioPhase' = "attaching" <=> ioAttached' < 4)
      /\ ioPhase # "attaching" => ioPhase' # "attaching"
  <2>1. ioAttached \in 0 .. 4 /\ (ioPhase = "attaching" <=> ioAttached < 4)
        /\ ioPhase \in {"attaching", "scanning", "polling"}
    BY DEF IoShape
  <2>2. Len(Io!Tracepoints) = 4
    BY DEF Io!Tracepoints
  <2>3. CASE Io!Attach
    BY <2>1, <2>2, <2>3 DEF Io!Attach, Io!kernel, Io!records
  <2>4. CASE Io!EndScan
    BY <2>1, <2>4 DEF Io!EndScan, Io!kernel, Io!records
  <2>5. CASE Io!EndPoll
    BY <2>1, <2>5 DEF Io!EndPoll, Io!kernel, Io!records
  <2>6. CASE UNCHANGED Io!vars
    BY <2>1, <2>6 DEF Io!vars, Io!program, Io!kernel, Io!records
  <2> QED
    BY <2>3, <2>4, <2>5, <2>6
<1>2. Io!Records' = Io!Records
  BY <1>1 DEF Io!Records
<1>3. IoShape'
  BY <1>1 DEF IoShape, IoStored
<1>4. IoCallsOwned' /\ IoDueReported'
  BY <1>1, <1>2, IoCallsStay
<1>5. IoMet'
  BY <1>1 DEF IoMet
<1>6. IoFamily'
  BY <1>1 DEF IoFamily
<1>7. IoKinOnly'
  BY <1>1, <1>2, IoKinStays DEF IoKinOnly
<1> QED
  BY <1>3, <1>4, <1>5, <1>6, <1>7

LEMMA IoKeptByVisit ==
  ASSUME Io!StdioAssumption, IoKept, NEW p \in IoPids, Io!Visit(p)
  PROVE  IoKept'
<1> USE DEF IoKept
<1>1. /\ UNCHANGED <<ioOpts, ioPhase, ioAttached, ioCalls, ioCurrent, ioArgs, ioRing, ioShown,
                     ioKin, ioLost, ioAlive, ioParent, ioSess>>
      /\ ioPhase = "scanning"
      /\ ioTracked' = IF p \in ioSess /\ Io!Room(ioTracked) THEN ioTracked \cup {p} ELSE ioTracked
      /\ ioSeen' = IF p \in ioSess /\ p \in ioTracked' THEN ioSeen \cup {p} ELSE ioSeen
  BY DEF Io!Visit, Io!kernel, Io!records
<1>2. Io!Records' = Io!Records
  BY <1>1 DEF Io!Records
<1>3. /\ ioTracked' \subseteq IoPids /\ IsFiniteSet(ioTracked')
      /\ Cardinality(ioTracked') <= IoEntries
  <2> DEFINE new == IF p \in ioSess /\ Io!Room(ioTracked) THEN {p} ELSE {}
  <2>1. ioTracked' = ioTracked \cup new /\ new \subseteq {p}
    BY <1>1
  <2>2. new # {} => Io!Room(ioTracked)
    OBVIOUS
  <2> HIDE DEF new
  <2> QED
    BY <2>1, <2>2, IoAdded DEF IoShape
<1>4. IoShape'
  BY <1>1, <1>3 DEF IoShape, IoStored
<1>5. IoCallsOwned' /\ IoDueReported'
  BY <1>1, <1>2, IoCallsStay
<1>6. IoMet'
  BY <1>1 DEF IoMet
<1>7. IoFamily'
  BY <1>1 DEF IoFamily
<1>8. IoKinOnly'
  BY <1>1, <1>2, IoKinStays DEF IoKinOnly, IoFamily
<1> QED
  BY <1>4, <1>5, <1>6, <1>7, <1>8

LEMMA IoKeptByHandle ==
  ASSUME Io!StdioAssumption, IoKept, Io!Handle
  PROVE  IoKept'
<1> USE DEF IoKept
<1>1. /\ UNCHANGED <<ioOpts, ioPhase, ioAttached, ioCalls, ioCurrent, ioArgs, ioTracked,
                     ioKin, ioSeen, ioLost, ioAlive, ioParent, ioSess>>
      /\ ioRing # << >> /\ ioRing' = Tail(ioRing) /\ ioShown' = ioShown \cup {Head(ioRing)}
  BY DEF Io!Handle, Io!program, Io!kernel
<1>2. ioRing \in Seq(IoPairs) /\ ioRing' \in Seq(IoPairs) /\ Head(ioRing) \in IoPairs
  BY <1>1 DEF IoShape
<1>3. Io!Records' = Io!Records
  <2>1. ToSet(ioRing) = ToSet(ioRing') \cup {Head(ioRing)}
    BY <1>1, <1>2, ElementsOf
  <2>2. Io!Records = ToSet(ioRing) \cup ioShown /\ Io!Records' = ToSet(ioRing') \cup ioShown'
    BY IoWords DEF Io!Records
  <2> QED
    BY <1>1, <2>1, <2>2
<1>4. IoShape'
  BY <1>1, <1>2 DEF IoShape, IoStored
<1>5. IoCallsOwned' /\ IoDueReported'
  BY <1>1, <1>3, IoCallsStay
<1>6. IoMet'
  BY <1>1 DEF IoMet
<1>7. IoFamily'
  BY <1>1 DEF IoFamily
<1>8. IoKinOnly'
  BY <1>1, <1>3, IoKinStays DEF IoKinOnly
<1> QED
  BY <1>4, <1>5, <1>6, <1>7, <1>8

-----------------------------------------------------------------------------
\* Processes
LEMMA IoKeptByProcesses ==
  ASSUME Io!StdioAssumption, IoKept, NEW p \in IoPids, Io!ProcessChanges(p)
  PROVE  IoKept'
<1> USE DEF IoKept
<1>1. UNCHANGED <<ioOpts, ioPhase, ioAttached, ioCalls, ioCurrent, ioArgs, ioTracked, ioRing,
                  ioShown, ioLost>>
  BY DEF Io!ProcessChanges, Io!Setsid, Io!Ends, Io!Fork, Io!program, Io!records
<1>2. ioSeen' \subseteq ioSeen /\ ioKin \subseteq ioKin'
  BY DEF Io!ProcessChanges, Io!Setsid, Io!Ends, Io!Fork
<1>3. Io!Records' = Io!Records
  BY <1>1 DEF Io!Records
<1>4. IoShape'
  BY <1>1 DEF IoShape, IoStored
<1>5. IoCallsOwned' /\ IoDueReported'
  BY <1>1, <1>3, IoCallsStay
<1>6. IoMet'
  BY <1>1, <1>2 DEF IoMet
<1>7. IoFamily'
  <2>1. IoNoPid \notin IoPids
    BY DEF Io!StdioAssumption
  <2>2. CASE Io!Setsid(p)
    BY <2>2 DEF Io!Setsid, IoFamily
  <2>3. CASE Io!Ends(p)
    <3>1. /\ ioAlive' = ioAlive \ {p} /\ ioSess' = ioSess \ {p} /\ ioKin' = ioKin
          /\ ioParent' = [q \in IoPids |-> IF q = p \/ ioParent[q] = p THEN IoNoPid ELSE ioParent[q]]
      BY <2>3 DEF Io!Ends
    <3> QED
      BY <2>1, <3>1 DEF IoFamily
  <2>4. ASSUME NEW child \in IoPids, Io!Fork(p, child)
        PROVE  IoFamily'
    <3>1. /\ p \in ioAlive /\ child \in IoPids \ ioAlive
          /\ ioAlive' = ioAlive \cup {child} /\ ioParent' = [ioParent EXCEPT ![child] = p]
          /\ ioSess' = IF p \in ioSess THEN ioSess \cup {child} ELSE ioSess
          /\ ioKin' = IF p \in ioKin THEN ioKin \cup {child} ELSE ioKin
      BY <2>4 DEF Io!Fork
    <3> QED
      BY <2>1, <3>1 DEF IoFamily
  <2> QED
    BY <2>2, <2>3, <2>4 DEF Io!ProcessChanges
<1>8. IoKinOnly'
  BY <1>1, <1>2, <1>3, IoKinStays DEF IoKinOnly
<1> QED
  BY <1>4, <1>5, <1>6, <1>7, <1>8

-----------------------------------------------------------------------------
\* A process calls read or write.
LEMMA IoKeptByEnter ==
  ASSUME Io!StdioAssumption, IoKept, NEW p \in IoPids, NEW dir \in {"read", "write"},
         NEW fd \in Nat, Io!Enter(p, dir, fd)
  PROVE  IoKept'
<1> USE DEF IoKept
<1> DEFINE c == Len(ioCalls) + 1
           call == [pid |-> p, dir |-> dir, fd |-> fd, end |-> "running", exited |-> FALSE,
                    due |-> Io!Due(p)]
           probed == Io!On("enter", dir)
           entered == probed /\ Io!Allowed(p, fd)
           adopts == IF probed /\ Io!SelectedFd(fd) /\ ioOpts.session THEN Io!Adopted(p) ELSE {}
<1>1. /\ UNCHANGED <<ioOpts, ioPhase, ioAttached, ioRing, ioShown, ioKin, ioSeen, ioAlive,
                     ioParent, ioSess>>
      /\ ioCurrent[p] = Io!None /\ ioCurrent' = [ioCurrent EXCEPT ![p] = c]
      /\ ioCalls' = Append(ioCalls, call)
      /\ ioTracked' = IF Io!Room(ioTracked) THEN ioTracked \cup adopts ELSE ioTracked
      /\ ioArgs' = IF entered /\ Io!ArgsRoom(p) THEN [ioArgs EXCEPT ![p] = c] ELSE ioArgs
      /\ ioLost' = IF entered /\ ~Io!ArgsRoom(p) THEN ioLost \cup {c} ELSE ioLost
  BY DEF Io!Enter, Io!program, Io!kernel, Io!records, Io!Stored
<1>2. /\ ioCalls \in Seq(IoTypes) /\ Len(ioCalls) \in Nat
      /\ \A d \in 1 .. Len(ioCalls) : ioCalls[d] \in IoTypes
      /\ Io!None = 0
  BY IoTyped, IoWords DEF IoShape
<1>3. call \in IoTypes
  BY DEF IoTypes, Io!Due
<1>4. /\ ioCalls' \in Seq(IoTypes) /\ Len(ioCalls') = c /\ ioCalls'[c] = call
      /\ \A d \in 1 .. Len(ioCalls) : ioCalls'[d] = ioCalls[d]
  <2> HIDE DEF call
  <2> QED
    BY <1>1, <1>2, <1>3
<1>5. /\ c \in Nat /\ c # 0 /\ 1 .. c = 1 .. Len(ioCalls) \cup {c} /\ c \notin 1 .. Len(ioCalls)
  BY <1>2
<1> HIDE DEF c
<1>6. call.pid = p /\ call.end = "running" /\ call.exited = FALSE /\ call.due = Io!Due(p)
      /\ call.fd = fd
  OBVIOUS
<1> HIDE DEF call
<1>7. Io!Records' = Io!Records /\ Io!Reported' = Io!Reported
  BY <1>1 DEF Io!Records, Io!Reported
<1>8. adopts \subseteq {p}
  BY DEF Io!Adopted
<1>9. /\ ioTracked' \subseteq IoPids /\ IsFiniteSet(ioTracked')
      /\ Cardinality(ioTracked') <= IoEntries
  <2> DEFINE new == IF Io!Room(ioTracked) THEN adopts ELSE {}
  <2>1. ioTracked' = ioTracked \cup new /\ new \subseteq {p} /\ (new # {} => Io!Room(ioTracked))
    BY <1>1, <1>8
  <2> HIDE DEF new
  <2> QED
    BY <2>1, IoAdded DEF IoShape
<1>10. IsFiniteSet(IoStored') /\ Cardinality(IoStored') <= IoEntries
  <2> DEFINE new == IF entered /\ Io!ArgsRoom(p) /\ ioArgs[p] = Io!None THEN {p} ELSE {}
  <2>1. IoStored' = IoStored \cup new
    BY <1>1, <1>2, <1>5 DEF IoStored, IoShape
  <2>2. new \subseteq {p} /\ (new # {} => Io!Room(IoStored))
    BY DEF Io!ArgsRoom, IoStored
  <2> HIDE DEF new
  <2> QED
    BY <2>1, <2>2, IoAdded DEF IoShape
<1>11. ioArgs' \in [IoPids -> Nat] /\ ioCurrent' \in [IoPids -> Nat]
  BY <1>1, <1>5 DEF IoShape
<1>12. IoShape'
  BY <1>1, <1>4, <1>9, <1>10, <1>11 DEF IoShape
<1>13. IoCallsOwned'
  <2>1. ASSUME NEW q \in IoPids
        PROVE  IoInCall(q)' /\ IoArgsAt(q)'
    <3>1. IoInCall(q) /\ IoArgsAt(q)
      BY DEF IoCallsOwned
    <3>2. CASE q # p
      <4>1. ioCurrent'[q] = ioCurrent[q] /\ ioArgs'[q] = ioArgs[q]
        BY <1>1, <3>2 DEF IoShape
      <4> QED
        BY <1>4, <1>5, <3>1, <4>1 DEF IoInCall, IoArgsAt
    <3>3. CASE q = p
      <4>1. ioCurrent'[p] = c
        BY <1>1 DEF IoShape
      <4>2. ioArgs'[p] = c \/ ioArgs'[p] = ioArgs[p]
        BY <1>1 DEF IoShape
      <4>3. IoInCall(p)'
        BY <1>4, <1>5, <1>6, <4>1 DEF IoInCall
      <4>4. CASE ioArgs'[p] = c
        BY <1>4, <1>5, <1>6, <3>3, <4>1, <4>3, <4>4 DEF IoArgsAt
      <4>5. CASE ioArgs'[p] = ioArgs[p]
        <5>1. ioArgs[p] # Io!None =>
                /\ ioArgs[p] \in 1 .. Len(ioCalls) /\ ioCalls[ioArgs[p]].pid = p
                /\ ~ioCalls[ioArgs[p]].exited /\ ioCalls[ioArgs[p]].end # "running"
          BY <1>1, <3>1, <3>3 DEF IoArgsAt
        <5>2. IoArgsAt(p)'
          BY <1>2, <1>4, <1>5, <4>5, <5>1 DEF IoArgsAt, Io!None
        <5> QED
          BY <3>3, <4>3, <5>2
      <4> QED
        BY <3>3, <4>2, <4>3, <4>4, <4>5
    <3> QED
      BY <3>2, <3>3
  <2>2. ASSUME NEW r \in Io!Records
        PROVE  IoRight(r)'
    <3>1. IoRight(r)
      BY DEF IoCallsOwned
    <3> QED
      BY <1>4, <1>5, <3>1 DEF IoRight
  <2> QED
    BY <1>7, <2>1, <2>2 DEF IoCallsOwned
<1>14. IoMet'
  <2>1. ioTracked \subseteq ioTracked'
    BY <1>1
  <2>2. call.due => ioPhase # "attaching"
    BY <1>6 DEF IoMet, Io!Due
  <2> QED
    BY <1>1, <1>4, <1>5, <2>1, <2>2 DEF IoMet
<1>15. IoDueReported'
  <2> SUFFICES ASSUME ioOpts.session
               PROVE  /\ \A d \in 1 .. Len(ioCalls') : IoReportedOrLost(d)'
                      /\ \A q \in IoPids : IoWillBe(q)'
    BY <1>1 DEF IoDueReported
  <2>1. \A x : Io!SelectedFd(x)' <=> Io!SelectedFd(x)
    BY <1>1 DEF Io!SelectedFd
  <2>2. ASSUME NEW d \in 1 .. Len(ioCalls')
        PROVE  IoReportedOrLost(d)'
    <3>1. CASE d = c
      BY <1>4, <1>6, <3>1 DEF IoReportedOrLost
    <3>2. CASE d \in 1 .. Len(ioCalls)
      <4>1. IoReportedOrLost(d)
        BY <3>2 DEF IoDueReported
      <4> QED
        BY <1>1, <1>4, <1>7, <2>1, <3>2, <4>1 DEF IoReportedOrLost
    <3> QED
      BY <1>4, <1>5, <3>1, <3>2
  <2>3. ASSUME NEW q \in IoPids
        PROVE  IoWillBe(q)'
    <3>1. CASE q # p
      <4>1. ioCurrent'[q] = ioCurrent[q] /\ ioArgs'[q] = ioArgs[q]
        BY <1>1, <3>1 DEF IoShape
      <4>2. IoWillBe(q) /\ IoInCall(q)
        BY DEF IoDueReported, IoCallsOwned
      <4> QED
        BY <1>1, <1>4, <2>1, <4>1, <4>2 DEF IoWillBe, IoInCall
    <3>2. CASE q = p
      <4>1. ioCurrent'[p] = c
        BY <1>1 DEF IoShape
      <4> SUFFICES ASSUME call.due, Io!SelectedFd(fd)
                   PROVE  ioArgs'[p] = c \/ c \in ioLost'
        BY <1>4, <1>6, <2>1, <3>2, <4>1 DEF IoWillBe
      <4>2. Io!Due(p) /\ probed
        BY <1>6, IoAllAttached DEF IoMet, Io!Due
      <4>3. p \in ioTracked \/ Io!Adopted(p) # {}
        BY <4>2 DEF Io!Due, Io!Adopted, IoMet
      <4>4. entered
        BY <4>2, <4>3 DEF Io!Allowed
      <4> QED
        BY <1>1, <4>4 DEF IoShape
    <3> QED
      BY <3>1, <3>2
  <2> QED
    BY <2>2, <2>3
<1>16. IoFamily'
  BY <1>1 DEF IoFamily
<1>17. IoKinOnly'
  <2> SUFFICES ASSUME ioOpts.session
               PROVE  /\ ioTracked' \subseteq ioKin
                      /\ \A q \in IoPids : ioArgs'[q] # Io!None => q \in ioKin
                      /\ \A r \in Io!Records : ioCalls'[r.call].pid \in ioKin
    BY <1>1, <1>7, IoWords DEF IoKinOnly
  <2>1. Io!Adopted(p) # {} => p \in ioKin
    BY IoDescent DEF Io!Adopted, IoKinOnly
  <2>2. ioTracked' \subseteq ioKin
    BY <1>1, <1>8, <2>1 DEF IoKinOnly
  <2>3. entered => p \in ioKin
    BY <2>1 DEF Io!Allowed, IoKinOnly
  <2>4. ASSUME NEW q \in IoPids, ioArgs'[q] # Io!None
        PROVE  q \in ioKin
    <3>1. ioArgs[q] # Io!None \/ (q = p /\ entered)
      BY <1>1, <2>4 DEF IoShape
    <3> QED
      BY <2>3, <3>1 DEF IoKinOnly
  <2>5. ASSUME NEW r \in Io!Records
        PROVE  ioCalls'[r.call].pid \in ioKin
    BY <1>4 DEF IoKinOnly, IoCallsOwned, IoRight
  <2> QED
    BY <2>2, <2>4, <2>5
<1> QED
  BY <1>12, <1>13, <1>14, <1>15, <1>16, <1>17

\* A call returns: its exit probe, if it is attached, takes the arguments.
LEMMA IoKeptByExit ==
  ASSUME Io!StdioAssumption, IoKept, NEW p \in IoPids, NEW data \in BOOLEAN, Io!Exit(p, data)
  PROVE  IoKept'
<1> USE DEF IoKept
<1> DEFINE c == ioCurrent[p]
           old == ioCalls[c]
           probed == Io!On("exit", old.dir)
           rec == [call |-> c, from |-> ioArgs[p]]
           reports == probed /\ ioArgs[p] # Io!None /\ data
<1>1. /\ UNCHANGED <<ioOpts, ioPhase, ioAttached, ioShown, ioKin, ioSeen, ioAlive, ioParent,
                     ioSess, ioTracked>>
      /\ c # Io!None /\ ioCurrent' = [ioCurrent EXCEPT ![p] = Io!None]
      /\ ioCalls' = [ioCalls EXCEPT ![c].end = IF data THEN "data" ELSE "failed",
                                    ![c].exited = probed]
      /\ ioArgs' = IF probed THEN [ioArgs EXCEPT ![p] = Io!None] ELSE ioArgs
      /\ ioRing' = IF reports /\ Len(ioRing) < IoRingSize THEN Append(ioRing, rec) ELSE ioRing
      /\ ioLost' = IF reports /\ ~(Len(ioRing) < IoRingSize) THEN ioLost \cup {c} ELSE ioLost
  BY DEF Io!Exit, Io!ExitProbe, Io!program, Io!kernel, Io!records
<1>2. /\ ioCalls \in Seq(IoTypes) /\ Len(ioCalls) \in Nat
      /\ \A d \in 1 .. Len(ioCalls) : ioCalls[d] \in IoTypes
      /\ Io!None = 0
  BY IoTyped, IoWords DEF IoShape
<1>3. c \in 1 .. Len(ioCalls) /\ old.pid = p /\ old.end = "running" /\ old \in IoTypes
  BY <1>1, <1>2 DEF IoCallsOwned, IoInCall
<1> HIDE DEF c
<1> DEFINE new == [old EXCEPT !.end = IF data THEN "data" ELSE "failed", !.exited = probed]
<1>4. /\ new \in IoTypes /\ new.pid = p /\ new.due = old.due /\ new.fd = old.fd
      /\ new.end = (IF data THEN "data" ELSE "failed") /\ new.exited = probed
  BY <1>3 DEF IoTypes, Io!On
<1>5. ioCalls' = [ioCalls EXCEPT ![c] = new]
  BY <1>1, <1>2, <1>3
<1> HIDE DEF new
<1>6. /\ ioCalls' \in Seq(IoTypes) /\ Len(ioCalls') = Len(ioCalls) /\ ioCalls'[c] = new
      /\ \A d \in 1 .. Len(ioCalls) : d # c => ioCalls'[d] = ioCalls[d]
  BY <1>2, <1>3, <1>4, <1>5, Replaced
<1>7. IoArgsAt(p)
  BY DEF IoCallsOwned
<1>8. reports => rec \in IoPairs
  BY <1>2, <1>3, <1>7 DEF IoPairs, IoArgsAt
<1>9. /\ ioRing' \in Seq(IoPairs)
      /\ Io!Records \subseteq Io!Records'
      /\ \A r \in Io!Records' : r \in Io!Records \/ (reports /\ r = rec)
      /\ reports => rec \in Io!Records' \/ c \in ioLost'
  <2>1. ioRing \in Seq(IoPairs)
    BY DEF IoShape
  <2>2. Io!Records = ToSet(ioRing) \cup ioShown /\ Io!Records' = ToSet(ioRing') \cup ioShown'
    BY IoWords DEF Io!Records
  <2> HIDE DEF rec
  <2>3. reports => /\ Append(ioRing, rec) \in Seq(IoPairs)
                   /\ ToSet(Append(ioRing, rec)) = ToSet(ioRing) \cup {rec}
    BY <1>8, <2>1, ElementsOf
  <2> QED
    BY <1>1, <2>1, <2>2, <2>3
<1>10. /\ rec.call = c /\ rec.from = ioArgs[p]
  OBVIOUS
<1> HIDE DEF rec
<1>11. Io!Reported \subseteq Io!Reported' /\ (reports => c \in Io!Reported' \cup ioLost')
  BY <1>9, <1>10 DEF Io!Reported
<1>12. IoShape'
  <2>1. ioArgs' \in [IoPids -> Nat] /\ ioCurrent' \in [IoPids -> Nat]
    BY <1>1, <1>2 DEF IoShape
  <2>2. IoStored' \subseteq IoStored
    BY <1>1 DEF IoStored, IoShape, Io!None
  <2>3. IsFiniteSet(IoStored') /\ Cardinality(IoStored') <= Cardinality(IoStored)
        /\ Cardinality(IoStored) \in Nat /\ Cardinality(IoStored') \in Nat
    BY <2>2, FS_Subset, FS_CardinalityType DEF IoShape
  <2>4. Cardinality(IoStored') <= IoEntries
    BY <2>3 DEF IoShape, Io!StdioAssumption
  <2> QED
    BY <1>1, <1>6, <1>9, <2>1, <2>3, <2>4 DEF IoShape
<1>13. IoCallsOwned'
  <2>1. ASSUME NEW q \in IoPids
        PROVE  IoInCall(q)' /\ IoArgsAt(q)'
    <3>1. IoInCall(q) /\ IoArgsAt(q)
      BY DEF IoCallsOwned
    <3>2. CASE q # p
      <4>1. ioCurrent'[q] = ioCurrent[q] /\ ioArgs'[q] = ioArgs[q]
        BY <1>1, <3>2 DEF IoShape
      <4>2. ioCurrent[q] # c \/ ioCurrent[q] = Io!None
        BY <1>3, <3>1, <3>2 DEF IoInCall
      <4>3. ioArgs[q] # c \/ ioArgs[q] = Io!None
        BY <1>3, <3>1, <3>2 DEF IoArgsAt
      <4> QED
        BY <1>6, <3>1, <4>1, <4>2, <4>3 DEF IoInCall, IoArgsAt
    <3>3. CASE q = p
      <4>1. ioCurrent'[p] = Io!None
        BY <1>1 DEF IoShape
      <4>2. CASE probed
        <5>1. ioArgs'[p] = Io!None
          BY <1>1, <4>2 DEF IoShape
        <5> QED
          BY <3>3, <4>1, <5>1 DEF IoInCall, IoArgsAt, Io!None
      <4>3. CASE ~probed
        <5>1. ioArgs'[p] = ioArgs[p]
          BY <1>1, <4>3
        <5>2. ioArgs[p] # Io!None =>
                /\ ioArgs[p] \in 1 .. Len(ioCalls) /\ ioCalls'[ioArgs[p]].pid = p
                /\ ~ioCalls'[ioArgs[p]].exited /\ ioCalls'[ioArgs[p]].end # "running"
          <6>1. CASE ioArgs[p] = c
            BY <1>3, <1>4, <1>6, <4>3, <6>1
          <6>2. CASE ioArgs[p] # c
            BY <1>6, <1>7, <6>2 DEF IoArgsAt, c
          <6> QED
            BY <6>1, <6>2
        <5> QED
          BY <1>6, <3>3, <4>1, <5>1, <5>2 DEF IoInCall, IoArgsAt, Io!None
      <4> QED
        BY <4>2, <4>3
    <3> QED
      BY <3>2, <3>3
  <2>2. ASSUME NEW r \in Io!Records'
        PROVE  IoRight(r)'
    <3>1. CASE r \in Io!Records
      <4>1. IoRight(r)
        BY <3>1 DEF IoCallsOwned
      <4>2. r.call # c /\ r.from # c
        BY <1>3, <4>1 DEF IoRight
      <4> QED
        BY <1>6, <4>1, <4>2 DEF IoRight
    <3>2. CASE reports /\ r = rec
      <4>1. ioArgs[p] \in 1 .. Len(ioCalls) /\ (ioArgs[p] # c =>
              ~ioCalls[ioArgs[p]].exited /\ ioCalls[ioArgs[p]].end # "running")
        BY <1>7, <3>2 DEF IoArgsAt, c
      <4> QED
        BY <1>3, <1>4, <1>6, <1>10, <3>2, <4>1 DEF IoRight
    <3> QED
      BY <1>9, <3>1, <3>2
  <2> QED
    BY <2>1, <2>2 DEF IoCallsOwned
<1>14. IoMet'
  BY <1>1, <1>3, <1>4, <1>6 DEF IoMet
<1>15. IoDueReported'
  <2> SUFFICES ASSUME ioOpts.session
               PROVE  /\ \A d \in 1 .. Len(ioCalls') : IoReportedOrLost(d)'
                      /\ \A q \in IoPids : IoWillBe(q)'
    BY <1>1 DEF IoDueReported
  <2>1. \A x : Io!SelectedFd(x)' <=> Io!SelectedFd(x)
    BY <1>1 DEF Io!SelectedFd
  <2>2. ASSUME NEW d \in 1 .. Len(ioCalls')
        PROVE  IoReportedOrLost(d)'
    <3>1. CASE d = c
      <4> SUFFICES ASSUME old.due, data, Io!SelectedFd(old.fd)
                   PROVE  c \in Io!Reported' \cup ioLost'
        BY <1>3, <1>4, <1>6, <2>1, <3>1 DEF IoReportedOrLost
      <4>1. probed
        BY <1>3, IoAllAttached DEF IoMet, IoTypes
      <4>2. ioArgs[p] = c \/ c \in ioLost
        BY <1>1 DEF IoDueReported, IoWillBe, c
      <4> QED
        BY <1>1, <1>11, <4>1, <4>2
    <3>2. CASE d # c
      <4>1. IoReportedOrLost(d)
        BY <1>6 DEF IoDueReported
      <4> QED
        BY <1>1, <1>6, <1>11, <2>1, <3>2, <4>1 DEF IoReportedOrLost
    <3> QED
      BY <3>1, <3>2
  <2>3. ASSUME NEW q \in IoPids
        PROVE  IoWillBe(q)'
    <3>1. CASE q # p
      <4>1. ioCurrent'[q] = ioCurrent[q] /\ ioArgs'[q] = ioArgs[q]
        BY <1>1, <3>1 DEF IoShape
      <4>2. IoWillBe(q) /\ IoInCall(q)
        BY DEF IoDueReported, IoCallsOwned
      <4>3. ioCurrent[q] # Io!None => ioCurrent[q] # c /\ ioCurrent[q] \in 1 .. Len(ioCalls)
        BY <1>3, <3>1, <4>2 DEF IoInCall
      <4> QED
        BY <1>1, <1>6, <2>1, <4>1, <4>2, <4>3 DEF IoWillBe, Io!None
    <3>2. CASE q = p
      BY <1>1, <3>2 DEF IoWillBe, IoShape, Io!None
    <3> QED
      BY <3>1, <3>2
  <2> QED
    BY <2>2, <2>3
<1>16. IoFamily'
  BY <1>1 DEF IoFamily
<1>17. IoKinOnly'
  <2> SUFFICES ASSUME ioOpts.session
               PROVE  /\ \A q \in IoPids : ioArgs'[q] # Io!None => q \in ioKin
                      /\ \A r \in Io!Records' : ioCalls'[r.call].pid \in ioKin
    BY <1>1, IoWords DEF IoKinOnly
  <2>1. \A q \in IoPids : ioArgs'[q] # Io!None => ioArgs[q] # Io!None
    BY <1>1 DEF IoShape
  <2>2. ASSUME NEW r \in Io!Records'
        PROVE  ioCalls'[r.call].pid \in ioKin
    <3>1. CASE r \in Io!Records
      <4>1. r.call \in 1 .. Len(ioCalls) /\ r.call # c
        BY <1>3, <3>1 DEF IoCallsOwned, IoRight
      <4> QED
        BY <1>6, <3>1, <4>1 DEF IoKinOnly
    <3>2. CASE reports /\ r = rec
      BY <1>3, <1>4, <1>6, <1>10, <3>2 DEF IoKinOnly
    <3> QED
      BY <1>9, <3>1, <3>2
  <2> QED
    BY <2>1, <2>2 DEF IoKinOnly
<1> QED
  BY <1>12, <1>13, <1>14, <1>15, <1>16, <1>17

-----------------------------------------------------------------------------
LEMMA IoKeptByNext == Io!StdioAssumption /\ IoKept /\ [Io!Next]_(Io!vars) => IoKept'
<1> SUFFICES ASSUME Io!StdioAssumption, IoKept, [Io!Next]_(Io!vars)
             PROVE  IoKept'
  OBVIOUS
<1>1. CASE Io!Attach \/ Io!EndScan \/ Io!EndPoll \/ UNCHANGED Io!vars
  BY <1>1, IoKeptByPhases
<1>2. CASE Io!Handle
  BY <1>2, IoKeptByHandle
<1>3. ASSUME NEW p \in IoPids, Io!Visit(p) \/ Io!ProcessChanges(p)
      PROVE  IoKept'
  BY <1>3, IoKeptByVisit, IoKeptByProcesses
<1>4. ASSUME NEW p \in IoPids, NEW io \in ioOpts.traffic, Io!Enter(p, io[2], io[3])
      PROVE  IoKept'
  <2>1. io \in IoPids \X {"read", "write"} \X Nat
    BY <1>4 DEF IoKept, IoShape, Io!StdioAssumption
  <2>2. io[2] \in {"read", "write"} /\ io[3] \in Nat
    BY <2>1
  <2> QED
    BY <1>4, <2>2, IoKeptByEnter
<1>5. ASSUME NEW p \in IoPids, NEW data \in BOOLEAN, Io!Exit(p, data)
      PROVE  IoKept'
  BY <1>5, IoKeptByExit
<1> QED
  BY <1>1, <1>2, <1>3, <1>4, <1>5 DEF Io!Next

LEMMA IoAlwaysKept ==
  ASSUME Io!StdioAssumption
  PROVE  Io!Spec => []IoKept
<1>1. Io!Init => IoKept
  BY IoAtFirst
<1>2. IoKept /\ [Io!Next]_(Io!vars) => IoKept'
  BY IoKeptByNext
<1> QED
  BY <1>1, <1>2, PTL DEF Io!Spec

\* A behaviour of the probes is one of the stdio probe, if only one that never does
\* anything.
LEMMA StdioPart == ProbesSpec => Io!Spec
<1>1. ProbesInit => Io!Init
  BY DEF ProbesInit
<1>2. [ProbesNext]_<<part, vars, ioVars, brVars>> => [Io!Next]_(Io!vars)
  BY DEF ProbesNext, ioVars, Io!vars, Io!program, Io!kernel, Io!records
<1> QED
  BY <1>1, <1>2, PTL DEF ProbesSpec, Io!Spec

\* exit_common of stdiocap: the maps keep to their sizes, and a record has the
\* arguments of its own call, or of one that returned before the exit probe was
\* attached, however many processes call, whenever the tracepoints are attached.
THEOREM ArgumentsAreOwn == ProbesSpec => []OwnArguments
<1>1. IoKept => OwnArguments
  <2> SUFFICES ASSUME IoKept
               PROVE  Io!OwnArguments
    BY DEF OwnArguments
  <2> USE DEF IoKept
  <2>1. Io!Cardinality(ioTracked) <= IoEntries
        /\ Io!Cardinality({p \in IoPids : ioArgs[p] # Io!None}) <= IoEntries
    BY IoWords DEF IoShape, IoStored
  <2>2. \A p \in IoPids : ioArgs[p] \notin {Io!None, ioCurrent[p]} => ~ioCalls[ioArgs[p]].exited
    BY DEF IoCallsOwned, IoArgsAt
  <2>3. \A r \in Io!Records : r.from = r.call \/ ~ioCalls[r.from].exited
    BY DEF IoCallsOwned, IoRight
  <2> QED
    BY <2>1, <2>2, <2>3 DEF Io!OwnArguments
<1> QED
  BY <1>1, StdioPart, IoAlwaysKept, ProbesAssumption, PTL

\* tracked_or_descendant and refresh_session_pids: in a session, whatever a process met by
\* a scan does, and its descendants do, on the selected descriptors is reported or was lost
\* for want of room; and nothing of a process that never was of the session or descended
\* from it, however processes fork, leave the session, end and their PIDs come back.
THEOREM KinIsReported == ProbesSpec => []KinReported
<1>1. IoKept => KinReported
  <2> SUFFICES ASSUME IoKept, ioOpts.session
               PROVE  /\ \A c \in DOMAIN ioCalls : IoReportedOrLost(c)
                      /\ \A r \in Io!Records : ioCalls[r.call].pid \in ioKin
    BY DEF KinReported, Io!KinReported, IoReportedOrLost
  <2>1. \A c \in DOMAIN ioCalls : IoReportedOrLost(c)
    BY IoTyped DEF IoKept, IoDueReported
  <2> QED
    BY <2>1 DEF IoKept, IoKinOnly
<1> QED
  BY <1>1, StdioPart, IoAlwaysKept, ProbesAssumption, PTL

-----------------------------------------------------------------------------
\* The browser probe

BrTypes == [proc : BrProcs, tls : BOOLEAN, stored : BOOLEAN, probed : BOOLEAN,
            end : {"running", "data", "none"}]
BrImports == [fd : BrFds \cup {Br!None}, probed : BOOLEAN]
BrRecords == [pid : BrProcs, call : Nat, buf : Nat]
BrSlots == 0 .. BrCacheSize - 1

BrShape ==
  /\ brOpts \in BrOptions /\ brAttached \in Nat
  /\ brExe \in [BrProcs -> {"target", "other", "gone"}] /\ brUses \in [BrProcs -> Nat]
  /\ brFds \in [BrProcs -> [BrFds -> {"none", "plain", "tls"}]]
  /\ brImporting \in [BrProcs -> BrImports] /\ brCurrent \in [BrProcs -> Nat]
  /\ brCalls \in Seq(BrTypes)
  /\ brNss_import_fds \in [BrProcs -> BrFds \cup {Br!None}] /\ brNss_ssl_fds \subseteq BrFds
  /\ brBufs \in [BrProcs -> Nat]
  /\ brRing \in Seq(BrRecords) /\ brSent \subseteq BrRecords
  /\ brTarget_pid_cache \in [BrSlots -> [pid : BrProcs \cup {Br!None}, matched : BOOLEAN]]

\* The ring holds records that have been sent and not shown, each once.
BrRing ==
  /\ Len(brRing) <= BrRingSize /\ ToSet(brRing) \subseteq brSent /\ brShown \subseteq brSent
  /\ ToSet(brRing) \cap brShown = {}
  /\ \A i, j \in 1 .. Len(brRing) : brRing[i] = brRing[j] => i = j

\* A TLS descriptor is known as one, unless its address was taken away; and one
\* that is being imported is none yet.
BrDescriptors ==
  \A p \in BrProcs :
    /\ brImporting[p] # Br!NoImport =>
         brImporting[p].fd \in BrFds /\ brFds[p][brImporting[p].fd] = "plain"
    /\ \A fd \in BrFds : brFds[p][fd] = "tls" /\ <<p, fd>> \notin brRobbed => fd \in brNss_ssl_fds

\* A process is in a call of its own, and its buffer is stored if it should be.
BrInCall(p) ==
  LET c == brCurrent[p] IN
    c # Br!None =>
      /\ c \in 1 .. Len(brCalls) /\ brCalls[c].proc = p /\ brCalls[c].end = "running"
      /\ brCalls[c].tls => brCalls[c].stored /\ brCalls[c].probed
      /\ brCalls[c].stored => brBufs[p] = c /\ p \in brOpts.allowed

\* A buffer stored is of a call of the process, and has not been sent; unless the
\* process is in the call, it is left behind.
BrBufAt(p) ==
  LET b == brBufs[p] IN
    b # Br!None =>
      /\ b \in 1 .. Len(brCalls) /\ brCalls[b].proc = p /\ brCalls[b].stored
      /\ \A r \in brSent : r.buf # b
      /\ brCurrent[p] # b => Br!LeftBehind(b)

BrCallsOwned == \A p \in BrProcs : BrInCall(p) /\ BrBufAt(p)

\* A record is of one call and has a buffer, as TlsCallsReported says.
BrRight(r) ==
  /\ r.call \in 1 .. Len(brCalls) /\ r.buf \in 1 .. Len(brCalls)
  /\ brCalls[r.buf].proc = r.pid /\ (r.buf # r.call => Br!LeftBehind(r.buf))
  /\ brCalls[r.call].stored => r.buf = r.call

BrSentOnce ==
  /\ \A r \in brSent : BrRight(r)
  /\ \A r, s \in brSent : s.buf = r.buf => s = r

BrReported ==
  \A c \in 1 .. Len(brCalls) : brCalls[c].tls /\ brCalls[c].end = "data" =>
    c \in brLost \/ \E r \in brSent : r.call = c /\ r.buf = c

\* Who makes calls has run a program.
BrUsed ==
  /\ \A p \in BrProcs : brExe[p] # "gone" => brUses[p] >= 1
  /\ \A c \in 1 .. Len(brCalls) : brUses[brCalls[c].proc] >= 1

\* A PID has one entry at most, and the search for it meets no free slot before that.
BrCache ==
  /\ \A s \in BrSlots : brTarget_pid_cache[s].pid = Br!None => brTarget_pid_cache[s] = Br!NoEntry
  /\ \A s \in BrSlots : brTarget_pid_cache[s].pid # Br!None =>
       \E i \in BrSlots :
         /\ Br!Slot(brTarget_pid_cache[s].pid, i) = s
         /\ \A j \in 0 .. i - 1 :
              brTarget_pid_cache[Br!Slot(brTarget_pid_cache[s].pid, j)].pid # Br!None
  /\ \A s, t \in BrSlots : brTarget_pid_cache[s].pid = brTarget_pid_cache[t].pid
                           /\ brTarget_pid_cache[s].pid # Br!None => s = t

\* What is cached of a process that has run one program only is true.
BrVerdicts ==
  \A s \in BrSlots :
    LET e == brTarget_pid_cache[s] IN
      e.pid # Br!None =>
        /\ brUses[e.pid] >= 1
        /\ brUses[e.pid] = 1 /\ brExe[e.pid] # "gone" => (e.matched <=> brExe[e.pid] = "target")

BrKept ==
  /\ BrShape /\ BrRing /\ BrDescriptors /\ BrCallsOwned /\ BrSentOnce /\ BrReported
  /\ BrUsed /\ BrCache /\ BrVerdicts

-----------------------------------------------------------------------------
\* The instance's operators are the ones of the libraries.
LEMMA BrWords ==
  /\ \A s : Br!ToSet(s) = ToSet(s)
  /\ \A S : Br!Min(S) = CHOOSE x \in S : \A y \in S : x <= y
  /\ Br!None = 0 /\ Br!NoEntry.pid = 0 /\ Br!NoImport.fd = 0 /\ Br!NoImport \in BrImports
BY DEF BrImports, Br!NoImport, Br!ToSet, ToSet, Br!Min, Br!None, Br!NoEntry

LEMMA BrConstants ==
  /\ BrProcs \subseteq Nat \ {0} /\ BrRingSize \in Nat \ {0} /\ BrCacheSize \in Nat \ {0}
  /\ 0 \notin BrFds
  /\ \A o \in BrOptions : o.hooked \subseteq BrProcs /\ o.allowed \subseteq BrProcs
BY ProbesAssumption DEF Br!BrowserAssumption

\* What does not touch calls and records leaves what is said of them.
LEMMA BrCallsStay ==
  ASSUME BrKept,
         UNCHANGED <<brOpts, brExe, brUses, brCurrent, brCalls, brBufs, brRing, brSent, brLost,
                     brShown, brTarget_pid_cache>>
  PROVE  /\ BrRing' /\ BrCallsOwned' /\ BrSentOnce' /\ BrReported'
         /\ BrUsed' /\ BrCache' /\ BrVerdicts'
<1> USE DEF BrKept
<1>1. BrRing'
  BY DEF BrRing
<1>2. BrCallsOwned'
  <2> SUFFICES ASSUME NEW p \in BrProcs
               PROVE  BrInCall(p)' /\ BrBufAt(p)'
    BY DEF BrCallsOwned
  <2>1. BrInCall(p) /\ BrBufAt(p)
    BY DEF BrCallsOwned
  <2> QED
    BY <2>1 DEF BrInCall, BrBufAt, Br!LeftBehind
<1>3. BrSentOnce' /\ BrReported' /\ BrUsed'
  BY DEF BrSentOnce, BrRight, Br!LeftBehind, BrReported, BrUsed
<1>4. BrCache' /\ BrVerdicts'
  BY DEF BrCache, BrVerdicts, Br!Slot
<1> QED
  BY <1>1, <1>2, <1>3, <1>4

LEMMA BrAtFirst == Br!Init => BrKept
<1> SUFFICES ASSUME Br!Init
             PROVE  BrKept
  OBVIOUS
<1> USE DEF Br!Init
<1>1. /\ Br!None = 0 /\ Br!NoEntry = [pid |-> 0, matched |-> FALSE] /\ Len(brCalls) = 0
      /\ Len(brRing) = 0 /\ ToSet(brRing) = {}
  BY DEF Br!None, Br!NoEntry, ToSet
<1>2. BrShape
  <2>0. brImporting \in [BrProcs -> BrImports]
    BY BrWords
  <2>1. brOpts.exe \in [BrProcs -> {"target", "other", "gone"}]
    BY ProbesAssumption DEF Br!BrowserAssumption
  <2> QED
    BY <1>1, <2>0, <2>1 DEF BrShape, BrSlots
<1>3. BrRing /\ BrDescriptors /\ BrSentOnce /\ BrReported
  BY <1>1, BrConstants DEF BrRing, BrDescriptors, BrSentOnce, BrReported
<1>4. BrCallsOwned
  BY <1>1 DEF BrCallsOwned, BrInCall, BrBufAt
<1>5. BrUsed
  BY <1>1 DEF BrUsed
<1>6. BrCache /\ BrVerdicts
  BY <1>1 DEF BrCache, BrVerdicts, BrSlots
<1> QED
  BY <1>2, <1>3, <1>4, <1>5, <1>6 DEF BrKept

-----------------------------------------------------------------------------
\* Descriptors
LEMMA BrKeptByDescriptors ==
  ASSUME BrKept,
         \/ Br!Attach
         \/ \E p \in BrProcs :
              \/ \E fd \in BrFds : Br!Open(p, fd) \/ Br!ImportEnter(p, fd) \/ Br!Close(p, fd)
              \/ \E ok \in BOOLEAN : Br!ImportExit(p, ok)
  PROVE  BrKept'
<1> USE DEF BrKept
<1> DEFINE Same == UNCHANGED <<brOpts, brExe, brUses, brCurrent, brCalls, brBufs, brRing, brSent,
                               brLost, brShown, brTarget_pid_cache>>
<1>1. brAttached' \in Nat /\ Same
  <2>1. brAttached \in Nat
    BY DEF BrShape
  <2>2. CASE Br!Attach
    BY <2>1, <2>2 DEF Br!Attach, Br!system, Br!nssMaps, Br!records, Br!output
  <2>3. ASSUME NEW p \in BrProcs, NEW fd \in BrFds,
               Br!Open(p, fd) \/ Br!ImportEnter(p, fd) \/ Br!Close(p, fd)
        PROVE  Same /\ brAttached' = brAttached
    BY <2>3 DEF Br!Open, Br!ImportEnter, Br!Close, Br!program, Br!system, Br!records, Br!output
  <2>4. ASSUME NEW p \in BrProcs, NEW ok \in BOOLEAN, Br!ImportExit(p, ok)
        PROVE  Same /\ brAttached' = brAttached
    BY <2>4 DEF Br!ImportExit, Br!program, Br!system, Br!records, Br!output
  <2> QED
    BY <2>1, <2>2, <2>3, <2>4
<1> DEFINE Right ==
             /\ brFds' \in [BrProcs -> [BrFds -> {"none", "plain", "tls"}]]
             /\ brImporting' \in [BrProcs -> BrImports]
             /\ brNss_import_fds' \in [BrProcs -> BrFds \cup {Br!None}]
             /\ brNss_ssl_fds' \subseteq BrFds
             /\ BrDescriptors'
<1>2. Right
  <2>1. /\ brFds \in [BrProcs -> [BrFds -> {"none", "plain", "tls"}]]
        /\ brImporting \in [BrProcs -> BrImports]
        /\ brNss_import_fds \in [BrProcs -> BrFds \cup {Br!None}] /\ brNss_ssl_fds \subseteq BrFds
    BY DEF BrShape
  <2>2. CASE Br!Attach
    BY <2>1, <2>2 DEF Br!Attach, Br!nssMaps, BrDescriptors
  <2>3. ASSUME NEW p \in BrProcs, NEW fd \in BrFds, Br!Open(p, fd)
        PROVE  Right
    <3>1. /\ UNCHANGED <<brImporting, brNss_import_fds, brNss_ssl_fds, brRobbed>>
          /\ brImporting[p] = Br!NoImport /\ brFds' = [brFds EXCEPT ![p][fd] = "plain"]
      BY <2>3 DEF Br!Open, Br!Idle, Br!nssMaps
    <3>2. brFds' = [brFds EXCEPT ![p] = [brFds[p] EXCEPT ![fd] = "plain"]]
      BY <2>1, <3>1
    <3>3. brFds' \in [BrProcs -> [BrFds -> {"none", "plain", "tls"}]]
      BY <2>1, <3>2
    <3>4. \A q \in BrProcs : brImporting[q] # Br!NoImport => brFds'[q] = brFds[q]
      BY <2>1, <3>1, <3>2
    <3>5. \A q \in BrProcs, e \in BrFds : brFds'[q][e] = "tls" => brFds[q][e] = "tls"
      BY <2>1, <3>2
    <3> QED
      BY <2>1, <3>1, <3>3, <3>4, <3>5 DEF BrDescriptors, Br!NoImport, Br!None
  <2>4. ASSUME NEW p \in BrProcs, NEW fd \in BrFds, Br!ImportEnter(p, fd)
        PROVE  Right
    <3> DEFINE new == [fd |-> fd, probed |-> Br!Fires(<<"exit", "SSL_ImportFD">>, p)]
    <3>1. /\ UNCHANGED <<brFds, brNss_ssl_fds, brRobbed>> /\ brFds[p][fd] = "plain"
          /\ brImporting' = [brImporting EXCEPT ![p] = new]
          /\ \/ brNss_import_fds' = [brNss_import_fds EXCEPT ![p] = fd]
             \/ brNss_import_fds' = brNss_import_fds
      BY <2>4 DEF Br!ImportEnter
    <3>2. new \in BrImports /\ new.fd = fd
      BY DEF BrImports, Br!Fires
    <3> HIDE DEF new
    <3>3. brImporting' \in [BrProcs -> BrImports] /\ brImporting'[p] = new
          /\ \A q \in BrProcs : q # p => brImporting'[q] = brImporting[q]
      BY <2>1, <3>1, <3>2
    <3>4. brNss_import_fds' \in [BrProcs -> BrFds \cup {Br!None}]
      BY <2>1, <3>1
    <3>5. \A q \in BrProcs : brImporting'[q] # Br!NoImport =>
            brImporting'[q].fd \in BrFds /\ brFds'[q][brImporting'[q].fd] = "plain"
      BY <3>1, <3>2, <3>3 DEF BrDescriptors
    <3>6. BrDescriptors'
      BY <3>1, <3>5 DEF BrDescriptors, Br!NoImport, Br!None
    <3> QED
      BY <2>1, <3>1, <3>3, <3>4, <3>6
  <2>5. ASSUME NEW p \in BrProcs, NEW fd \in BrFds, Br!Close(p, fd)
        PROVE  Right
    <3>1. /\ UNCHANGED <<brImporting, brNss_import_fds>> /\ brImporting[p] = Br!NoImport
          /\ brFds' = [brFds EXCEPT ![p] = [brFds[p] EXCEPT ![fd] = "none"]]
      BY <2>1, <2>5 DEF Br!Close
    <3>2. brNss_ssl_fds' \subseteq BrFds
      BY <2>1, <2>5 DEF Br!Close
    <3>3. ASSUME NEW q \in BrProcs, NEW e \in BrFds, brFds'[q][e] = "tls", <<q, e>> \notin brRobbed'
          PROVE  e \in brNss_ssl_fds'
      <4>1. brFds[q][e] = "tls" /\ <<q, e>> # <<p, fd>>
        BY <2>1, <3>1, <3>3
      <4>2. CASE Br!Fires(<<"enter", "PR_Close">>, p)
        <5>1. /\ brNss_ssl_fds' = brNss_ssl_fds \ {fd} /\ <<q, e>> \notin brRobbed
              /\ <<q, e>> \notin {<<o, fd>> : o \in {o \in BrProcs : brFds[o][fd] = "tls"}}
          BY <2>5, <3>3, <4>1, <4>2 DEF Br!Close
        <5>2. e # fd
          BY <4>1, <5>1
        <5> QED
          BY <4>1, <5>1, <5>2 DEF BrDescriptors
      <4>3. CASE ~Br!Fires(<<"enter", "PR_Close">>, p)
        BY <2>5, <3>3, <4>1, <4>3 DEF Br!Close, BrDescriptors
      <4> QED
        BY <4>2, <4>3
    <3>4. \A q \in BrProcs : brImporting[q] # Br!NoImport => brFds'[q] = brFds[q]
      BY <2>1, <3>1
    <3>5. BrDescriptors'
      BY <3>1, <3>3, <3>4 DEF BrDescriptors, Br!NoImport, Br!None
    <3>6. brFds' \in [BrProcs -> [BrFds -> {"none", "plain", "tls"}]]
      BY <2>1, <3>1
    <3> QED
      BY <2>1, <3>1, <3>2, <3>5, <3>6
  <2>6. ASSUME NEW p \in BrProcs, NEW ok \in BOOLEAN, Br!ImportExit(p, ok)
        PROVE  Right
    <3> DEFINE fd == brImporting[p].fd
               Importing == brImporting'[p] = Br!NoImport
                 /\ \A q \in BrProcs : q # p => brImporting'[q] = brImporting[q]
    <3>1. fd # Br!None /\ fd \in BrFds /\ brFds[p][fd] = "plain"
          /\ brImporting' = [brImporting EXCEPT ![p] = Br!NoImport]
      BY <2>6, BrConstants, BrWords DEF Br!ImportExit, BrDescriptors
    <3>2. brImporting' \in [BrProcs -> BrImports] /\ Importing
      BY <2>1, <3>1, BrWords
    <3>3. CASE ~brImporting[p].probed
      <4>1. UNCHANGED <<brNss_import_fds, brNss_ssl_fds, brFds, brRobbed>>
        BY <2>6, <3>3 DEF Br!ImportExit, Br!nssMaps
      <4> HIDE DEF fd
      <4>2. BrDescriptors'
        BY <3>2, <4>1 DEF BrDescriptors, Br!NoImport, Br!None
      <4> QED
        BY <2>1, <3>2, <4>1, <4>2
    <3>4. CASE brImporting[p].probed
      <4>1. /\ brNss_ssl_fds' = brNss_ssl_fds \cup Br!Imported(p, IF ok THEN fd ELSE Br!None)
            /\ brNss_import_fds' = [brNss_import_fds EXCEPT ![p] = Br!None]
            /\ brFds' = IF ok THEN [brFds EXCEPT ![p][fd] = "tls"] ELSE brFds
            /\ brRobbed' = brRobbed \ {<<p, fd>>}
        BY <2>6, <3>4 DEF Br!ImportExit
      <4>2. brNss_ssl_fds' \subseteq BrFds /\ brNss_ssl_fds \subseteq brNss_ssl_fds'
            /\ (ok => fd \in brNss_ssl_fds')
        BY <2>1, <3>1, <4>1 DEF Br!Imported
      <4> HIDE DEF fd
      <4>3. brFds' = IF ok THEN [brFds EXCEPT ![p] = [brFds[p] EXCEPT ![fd] = "tls"]] ELSE brFds
        BY <2>1, <4>1
      <4>4. brFds' \in [BrProcs -> [BrFds -> {"none", "plain", "tls"}]]
        BY <2>1, <4>3
      <4>5. \A q \in BrProcs : brImporting'[q] # Br!NoImport =>
              brImporting'[q].fd \in BrFds /\ brFds'[q][brImporting'[q].fd] = "plain"
        BY <2>1, <3>2, <4>3 DEF BrDescriptors
      <4>6. ASSUME NEW q \in BrProcs, NEW e \in BrFds, brFds'[q][e] = "tls", <<q, e>> \notin brRobbed'
            PROVE  e \in brNss_ssl_fds'
        <5>1. CASE q = p /\ e = fd
          BY <2>1, <3>1, <4>2, <4>3, <4>6, <5>1
        <5>2. CASE ~(q = p /\ e = fd)
          <6>1. brFds[q][e] = "tls" /\ <<q, e>> \notin brRobbed
            BY <2>1, <3>1, <4>1, <4>3, <4>6, <5>2
          <6> QED
            BY <4>2, <6>1 DEF BrDescriptors
        <5> QED
          BY <5>1, <5>2
      <4>7. BrDescriptors'
        BY <4>5, <4>6 DEF BrDescriptors, Br!NoImport, Br!None
      <4>8. brNss_import_fds' \in [BrProcs -> BrFds \cup {Br!None}]
        BY <2>1, <4>1
      <4> QED
        BY <3>2, <4>2, <4>4, <4>7, <4>8
    <3> QED
      BY <3>3, <3>4
  <2> QED
    BY <2>2, <2>3, <2>4, <2>5, <2>6
<1>3. BrShape'
  BY <1>1, <1>2 DEF BrShape
<1> QED
  BY <1>1, <1>2, <1>3, BrCallsStay

-----------------------------------------------------------------------------
\* Calls
LEMMA BrTyped ==
  ASSUME BrShape
  PROVE  /\ brCalls \in Seq(BrTypes) /\ Len(brCalls) \in Nat
         /\ \A c \in 1 .. Len(brCalls) : brCalls[c] \in BrTypes
         /\ Len(brRing) \in Nat
  BY DEF BrShape

\* A call is added to the history: what is said of others stays, if they keep
\* their state and no record changes.
LEMMA BrCallAdded ==
  ASSUME BrKept, NEW new \in BrTypes, brCalls' = Append(brCalls, new)
  PROVE  /\ brCalls' \in Seq(BrTypes) /\ Len(brCalls') = Len(brCalls) + 1
         /\ brCalls'[Len(brCalls) + 1] = new
         /\ \A c \in 1 .. Len(brCalls) : brCalls'[c] = brCalls[c]
         /\ \A c \in 1 .. Len(brCalls') : c \in 1 .. Len(brCalls) \/ c = Len(brCalls) + 1
         /\ Len(brCalls) + 1 \in Nat \ {0} /\ Len(brCalls) + 1 \notin 1 .. Len(brCalls)
<1>1. brCalls \in Seq(BrTypes) /\ Len(brCalls) \in Nat
  BY BrTyped DEF BrKept
<1> QED
  BY <1>1

LEMMA BrSubmitted ==
  ASSUME BrShape, BrRing, NEW r \in BrRecords, r \notin brSent, NEW c, Br!Submit(c, r),
         brShown' = brShown
  PROVE  /\ brRing' \in Seq(BrRecords) /\ brSent' \subseteq BrRecords /\ BrRing'
         /\ brLost \subseteq brLost'
         /\ \/ Len(brRing) < BrRingSize /\ brSent' = brSent \cup {r}
            \/ ~(Len(brRing) < BrRingSize) /\ brSent' = brSent /\ c \in brLost'
<1>1. brRing \in Seq(BrRecords) /\ Len(brRing) \in Nat /\ brSent \subseteq BrRecords
  BY DEF BrShape
<1>2. CASE ~(Len(brRing) < BrRingSize)
  BY <1>1, <1>2 DEF Br!Submit, BrRing
<1>3. CASE Len(brRing) < BrRingSize
  <2>1. brRing' = Append(brRing, r) /\ brSent' = brSent \cup {r} /\ brLost' = brLost
    BY <1>3 DEF Br!Submit
  <2>2. /\ brRing' \in Seq(BrRecords) /\ Len(brRing') = Len(brRing) + 1
        /\ brRing'[Len(brRing) + 1] = r
        /\ \A i \in 1 .. Len(brRing) : brRing'[i] = brRing[i]
    BY <1>1, <2>1
  <2>3. ToSet(brRing') = ToSet(brRing) \cup {r}
    BY <1>1, <2>1, ElementsOf
  <2>4. \A i \in 1 .. Len(brRing) : brRing[i] \in ToSet(brRing) /\ brRing[i] # r
    BY <1>1 DEF BrRing, ToSet
  <2>5. \A i \in 1 .. Len(brRing') : i \in 1 .. Len(brRing) \/ i = Len(brRing) + 1
    BY <1>1, <2>2
  <2>6. \A i, j \in 1 .. Len(brRing') : brRing'[i] = brRing'[j] => i = j
    BY <1>1, <2>2, <2>4, <2>5 DEF BrRing
  <2>7. Len(brRing') <= BrRingSize
    BY <1>1, <1>3, <2>2, BrConstants
  <2>8. r \notin brShown
    BY DEF BrRing
  <2> QED
    BY <1>1, <1>3, <2>1, <2>2, <2>3, <2>6, <2>7, <2>8 DEF BrRing
<1> QED
  BY <1>2, <1>3

LEMMA BrKeptByEnter ==
  ASSUME BrKept, NEW p \in BrProcs, NEW fd \in BrFds, NEW f, Br!Enter(p, fd, f)
  PROVE  BrKept'
<1> USE DEF BrKept
<1> DEFINE c == Len(brCalls) + 1
           stores == Br!Fires(<<"enter", f>>, p) /\ fd \in brNss_ssl_fds /\ p \in brOpts.allowed
           probed == Br!Fires(<<"exit", f>>, p)
           carries == /\ brFds[p][fd] = "tls" /\ <<p, fd>> \notin brRobbed
                      /\ p \in brOpts.allowed /\ Br!Fires(<<"enter", f>>, p) /\ probed
           new == [proc |-> p, tls |-> carries, stored |-> stores, probed |-> probed,
                   end |-> "running"]
<1>1. /\ UNCHANGED <<brOpts, brAttached, brExe, brUses, brChanges, brFds, brImporting, brNss_import_fds,
                     brNss_ssl_fds, brRing, brSent, brLost, brRobbed, brTarget_pid_cache, brShown>>
      /\ brExe[p] # "gone" /\ brCurrent[p] = Br!None
      /\ brCurrent' = [brCurrent EXCEPT ![p] = c]
      /\ brCalls' = Append(brCalls, new)
      /\ brBufs' = IF stores THEN [brBufs EXCEPT ![p] = c] ELSE brBufs
  BY DEF Br!Enter, Br!Begin, Br!Idle, Br!Stored, Br!program, Br!system, Br!nssMaps, Br!records,
         Br!output
<1>2. new \in BrTypes /\ new.proc = p /\ (new.tls <=> carries) /\ (new.stored <=> stores)
      /\ (new.probed <=> probed) /\ new.end = "running"
  BY DEF BrTypes, Br!Fires
<1> HIDE DEF new
<1>3. /\ brCalls' \in Seq(BrTypes) /\ Len(brCalls') = c /\ brCalls'[c] = new
      /\ \A d \in 1 .. Len(brCalls) : brCalls'[d] = brCalls[d]
      /\ \A d \in 1 .. Len(brCalls') : d \in 1 .. Len(brCalls) \/ d = c
      /\ c \in Nat \ {0} /\ c \notin 1 .. Len(brCalls) /\ Len(brCalls) \in Nat
  BY <1>1, <1>2, BrCallAdded, BrTyped
<1> HIDE DEF c
<1>4. 1 .. Len(brCalls) \subseteq 1 .. Len(brCalls') /\ c \in 1 .. Len(brCalls') /\ Br!None = 0
  BY <1>3, BrWords DEF c
<1>5. brCurrent' \in [BrProcs -> Nat] /\ brBufs' \in [BrProcs -> Nat]
  BY <1>1, <1>3 DEF BrShape
<1>6. BrShape'
  BY <1>1, <1>3, <1>5 DEF BrShape
<1>7. BrRing' /\ BrDescriptors' /\ BrCache' /\ BrVerdicts'
  BY <1>1 DEF BrRing, BrDescriptors, BrCache, Br!Slot, BrVerdicts
<1>8. (carries => stores /\ probed) /\ (stores => p \in brOpts.allowed)
  BY DEF BrDescriptors
<1>9. \A r \in brSent : r.buf \in 1 .. Len(brCalls) /\ r.call \in 1 .. Len(brCalls)
  BY DEF BrSentOnce, BrRight
<1>10. \A d \in 1 .. Len(brCalls) : Br!LeftBehind(d) => Br!LeftBehind(d)'
  BY <1>1, <1>3 DEF Br!LeftBehind
<1>11. BrCallsOwned'
  <2> SUFFICES ASSUME NEW q \in BrProcs
               PROVE  BrInCall(q)' /\ BrBufAt(q)'
    BY DEF BrCallsOwned
  <2>1. BrInCall(q) /\ BrBufAt(q)
    BY DEF BrCallsOwned
  <2>2. CASE q # p
    <3>1. brCurrent'[q] = brCurrent[q] /\ brBufs'[q] = brBufs[q]
      BY <1>1, <2>2 DEF BrShape
    <3>2. BrInCall(q)'
      BY <1>1, <1>3, <1>4, <2>1, <3>1 DEF BrInCall
    <3>3. BrBufAt(q)'
      BY <1>1, <1>3, <1>4, <1>10, <2>1, <3>1 DEF BrBufAt
    <3> QED
      BY <3>2, <3>3
  <2>3. CASE q = p
    <3>1. brCurrent'[p] = c /\ brBufs'[p] = IF stores THEN c ELSE brBufs[p]
      BY <1>1 DEF BrShape
    <3> HIDE DEF stores, probed, carries
    <3>2. BrInCall(p)'
      BY <1>1, <1>2, <1>3, <1>4, <1>8, <3>1 DEF BrInCall
    <3>3. BrBufAt(p)'
      BY <1>1, <1>2, <1>3, <1>4, <1>9, <1>10, <2>1, <2>3, <3>1 DEF BrBufAt
    <3> QED
      BY <2>3, <3>2, <3>3
  <2> QED
    BY <2>2, <2>3
<1>12. BrSentOnce'
  <2>1. \A r \in brSent : BrRight(r)'
    BY <1>3, <1>4, <1>9, <1>10 DEF BrSentOnce, BrRight
  <2> QED
    BY <1>1, <2>1 DEF BrSentOnce
<1>13. BrReported'
  BY <1>1, <1>2, <1>3 DEF BrReported
<1>14. BrUsed'
  BY <1>1, <1>2, <1>3 DEF BrUsed
<1> QED
  BY <1>6, <1>7, <1>11, <1>12, <1>13, <1>14

LEMMA BrKeptByExit ==
  ASSUME BrKept, NEW p \in BrProcs, NEW data \in BOOLEAN, Br!Exit(p, data)
  PROVE  BrKept'
<1> USE DEF BrKept
<1> DEFINE c == brCurrent[p]
           b == brBufs[p]
           old == brCalls[c]
           reports == old.probed /\ p \in brOpts.allowed /\ b # Br!None /\ data
           rec == [pid |-> p, call |-> c, buf |-> b]
           room == Len(brRing) < BrRingSize
<1>1. /\ UNCHANGED <<brOpts, brAttached, brExe, brUses, brFds, brImporting, brNss_import_fds,
                     brNss_ssl_fds, brRobbed, brTarget_pid_cache, brShown>>
      /\ c # Br!None /\ brCurrent' = [brCurrent EXCEPT ![p] = Br!None]
      /\ brCalls' = [brCalls EXCEPT ![c].end = IF data THEN "data" ELSE "none"]
  BY DEF Br!Exit, Br!program, Br!system, Br!nssMaps, Br!output
<1>2. /\ reports => Br!Submit(c, rec) /\ brBufs' = IF room THEN [brBufs EXCEPT ![p] = Br!None] ELSE brBufs
      /\ ~reports => UNCHANGED <<brBufs, brRing, brSent, brLost>>
  BY DEF Br!Exit, Br!Forgotten, Br!records
<1>3. brCalls \in Seq(BrTypes) /\ Len(brCalls) \in Nat /\ Br!None = 0
  BY BrTyped, BrWords
<1>4. BrInCall(p) /\ BrBufAt(p)
  BY DEF BrCallsOwned
<1>5. /\ c \in 1 .. Len(brCalls) /\ old.proc = p /\ old.end = "running" /\ old \in BrTypes
      /\ c \in Nat /\ b \in Nat
      /\ old.tls => old.stored /\ old.probed
      /\ old.stored => b = c /\ p \in brOpts.allowed
  BY <1>1, <1>3, <1>4, BrTyped DEF BrInCall, BrShape
<1> DEFINE new == [old EXCEPT !.end = IF data THEN "data" ELSE "none"]
<1>6. /\ new \in BrTypes /\ new.proc = p /\ new.tls = old.tls /\ new.stored = old.stored
      /\ new.probed = old.probed
      /\ new.end = (IF data THEN "data" ELSE "none")
      /\ brCalls' = [brCalls EXCEPT ![c] = new]
  BY <1>1, <1>3, <1>5 DEF BrTypes
<1>7. b # Br!None => /\ b \in 1 .. Len(brCalls) /\ brCalls[b].proc = p /\ brCalls[b].stored
                     /\ \A r \in brSent : r.buf # b
                     /\ c # b => Br!LeftBehind(b)
  BY <1>4 DEF BrBufAt
<1>8. /\ rec \in BrRecords /\ rec.pid = p /\ rec.call = c /\ rec.buf = b
  BY <1>5 DEF BrRecords
<1> HIDE DEF new, rec, c, b
<1>9. /\ brCalls' \in Seq(BrTypes) /\ Len(brCalls') = Len(brCalls) /\ brCalls'[c] = new
      /\ \A d \in 1 .. Len(brCalls) : d # c => brCalls'[d] = brCalls[d]
  BY <1>3, <1>5, <1>6, Replaced
<1>10. \A d \in 1 .. Len(brCalls) : brCalls'[d].proc = brCalls[d].proc
         /\ brCalls'[d].stored = brCalls[d].stored /\ brCalls'[d].tls = brCalls[d].tls
  BY <1>5, <1>6, <1>9
<1>11. /\ brRing' \in Seq(BrRecords) /\ brSent' \subseteq BrRecords /\ BrRing'
       /\ brLost \subseteq brLost' /\ brSent \subseteq brSent'
       /\ \A r \in brSent' : r \in brSent \/ (reports /\ room /\ r = rec)
       /\ reports => c \in brLost' \/ rec \in brSent'
  <2>1. CASE ~reports
    BY <1>1, <1>2, <2>1 DEF BrShape, BrRing
  <2>2. CASE reports
    <3>1. rec \notin brSent
      BY <1>7, <1>8, <2>2
    <3>2. Br!Submit(c, rec)
      BY <1>2, <2>2
    <3> QED
      BY <1>1, <1>8, <2>2, <3>1, <3>2, BrSubmitted
  <2> QED
    BY <2>1, <2>2
<1>12. brBufs' = (IF reports /\ room THEN [brBufs EXCEPT ![p] = Br!None] ELSE brBufs)
  BY <1>2
<1> HIDE DEF room
<1>13. brCurrent' \in [BrProcs -> Nat] /\ brBufs' \in [BrProcs -> Nat]
  BY <1>1, <1>3, <1>12 DEF BrShape
<1>14. BrShape'
  BY <1>1, <1>9, <1>11, <1>13 DEF BrShape
<1>15. BrDescriptors' /\ BrCache' /\ BrVerdicts'
  BY <1>1 DEF BrDescriptors, BrCache, Br!Slot, BrVerdicts
<1>16. \A d \in 1 .. Len(brCalls) : d # c /\ Br!LeftBehind(d) => Br!LeftBehind(d)'
  BY <1>9, <1>11 DEF Br!LeftBehind
<1>17. BrCallsOwned'
  <2> SUFFICES ASSUME NEW q \in BrProcs
               PROVE  BrInCall(q)' /\ BrBufAt(q)'
    BY DEF BrCallsOwned
  <2>1. BrInCall(q) /\ BrBufAt(q)
    BY DEF BrCallsOwned
  <2>2. CASE q # p
    <3>1. brCurrent'[q] = brCurrent[q] /\ brBufs'[q] = brBufs[q]
      BY <1>1, <1>12, <2>2 DEF BrShape
    <3>2. brCurrent[q] # Br!None => brCurrent[q] # c /\ brCurrent[q] \in 1 .. Len(brCalls)
      BY <1>5, <2>1, <2>2 DEF BrInCall
    <3>3. BrInCall(q)'
      BY <1>1, <1>9, <2>1, <3>1, <3>2 DEF BrInCall, Br!None
    <3>4. brBufs[q] # Br!None => brBufs[q] \in 1 .. Len(brCalls) /\ brCalls[brBufs[q]].proc = q
            /\ brCalls[brBufs[q]].stored /\ (\A r \in brSent : r.buf # brBufs[q])
            /\ (brCurrent[q] # brBufs[q] => Br!LeftBehind(brBufs[q]))
      BY <2>1 DEF BrBufAt
    <3>5. brBufs[q] # Br!None => (reports => brBufs[q] # b)
      BY <1>7, <2>2, <3>4
    <3>6. BrBufAt(q)'
      <4>1. brBufs[q] # Br!None => brBufs[q] # c
        BY <1>5, <2>2, <3>4
      <4> QED
        BY <1>8, <1>9, <1>10, <1>11, <1>16, <3>1, <3>4, <3>5, <4>1 DEF BrBufAt, Br!None
    <3> QED
      BY <3>3, <3>6
  <2>3. CASE q = p
    <3>1. brCurrent'[p] = Br!None
      BY <1>1 DEF BrShape
    <3>2. CASE reports /\ room
      <4>1. brBufs'[p] = Br!None
        BY <1>12, <3>2 DEF BrShape
      <4> QED
        BY <2>3, <3>1, <4>1 DEF BrInCall, BrBufAt, Br!None
    <3>3. CASE ~(reports /\ room)
      <4>1. brBufs'[p] = b
        BY <1>12, <3>3 DEF b
      <4>2. \A r \in brSent' : r \in brSent
        BY <1>11, <3>3
      <4>3. ASSUME NEW d \in 1 .. Len(brCalls), d = b, b # Br!None
            PROVE  Br!LeftBehind(d)'
        <5>1. CASE d # c
          BY <1>7, <1>16, <4>3, <5>1
        <5>2. CASE d = c
          <6>1. brCalls'[c].stored /\ old.stored
            BY <1>5, <1>7, <1>10, <4>3, <5>2
          <6>2. brCalls'[c].end = "data" /\ brCalls'[c].probed => reports
            BY <1>5, <1>6, <1>9, <4>3, <6>1
          <6>3. reports => c \in brLost'
            BY <1>7, <1>8, <1>11, <3>3, <4>2
          <6> QED
            BY <5>2, <6>1, <6>2, <6>3 DEF Br!LeftBehind
        <5> QED
          BY <5>1, <5>2
      <4>4. BrBufAt(p)'
        BY <1>7, <1>9, <1>10, <4>1, <4>2, <4>3 DEF BrBufAt, Br!None
      <4> QED
        BY <2>3, <3>1, <4>4 DEF BrInCall, Br!None
    <3> QED
      BY <3>2, <3>3
  <2> QED
    BY <2>2, <2>3
<1>18. BrSentOnce'
  <2>1. ASSUME NEW r \in brSent
        PROVE  BrRight(r)'
    <3>1. BrRight(r)
      BY DEF BrSentOnce
    <3>2. r.buf # r.call => r.buf # c
      <4>1. CASE r.buf = c /\ r.buf # r.call
        <5>1. old.stored
          BY <3>1, <4>1 DEF BrRight, Br!LeftBehind
        <5> QED
          BY <1>1, <1>5, <1>7, <4>1, <5>1
      <4> QED
        BY <4>1
    <3> QED
      BY <1>9, <1>10, <1>16, <3>1, <3>2 DEF BrRight
  <2>2. ASSUME NEW r, reports, r = rec
        PROVE  BrRight(r)'
    <3>1. c \in 1 .. Len(brCalls') /\ b \in 1 .. Len(brCalls') /\ brCalls'[b].proc = p
          /\ (brCalls'[c].stored => b = c)
      BY <1>5, <1>7, <1>9, <1>10, <2>2
    <3>2. \A d \in 1 .. Len(brCalls) : d = b /\ b # c => Br!LeftBehind(d)'
      BY <1>7, <1>16, <2>2
    <3>3. r.pid = p /\ r.call = c /\ r.buf = b
      BY <1>8, <2>2
    <3>4. r.buf # r.call => Br!LeftBehind(r.buf)'
      BY <1>9, <3>1, <3>2, <3>3
    <3> QED
      BY <3>1, <3>3, <3>4 DEF BrRight
  <2>3. reports => \A s \in brSent : s.buf # rec.buf
    BY <1>7, <1>8
  <2>4. \A r \in brSent' : BrRight(r)'
    BY <1>11, <2>1, <2>2
  <2>5. \A r, s \in brSent' : s.buf = r.buf => s = r
    BY <1>11, <2>3 DEF BrSentOnce
  <2> QED
    BY <2>4, <2>5 DEF BrSentOnce
<1>19. BrReported'
  <2> SUFFICES ASSUME NEW d \in 1 .. Len(brCalls'), brCalls'[d].tls, brCalls'[d].end = "data"
               PROVE  d \in brLost' \/ \E r \in brSent' : r.call = d /\ r.buf = d
    BY DEF BrReported
  <2>1. CASE d # c
    <3>1. d \in brLost \/ \E r \in brSent : r.call = d /\ r.buf = d
      BY <1>9, <2>1 DEF BrReported
    <3> QED
      BY <1>11, <3>1
  <2>2. CASE d = c
    <3>1. data /\ old.tls
      BY <1>6, <1>9, <2>2
    <3>2. reports /\ b = c
      BY <1>1, <1>5, <3>1
    <3> QED
      BY <1>8, <1>11, <2>2, <3>2
  <2> QED
    BY <2>1, <2>2
<1>20. BrUsed'
  BY <1>1, <1>9, <1>10 DEF BrUsed
<1> QED
  BY <1>11, <1>14, <1>15, <1>17, <1>18, <1>19, <1>20

LEMMA BrKeptByCopy ==
  ASSUME BrKept, NEW p \in BrProcs, Br!Copy(p)
  PROVE  BrKept'
<1> USE DEF BrKept
<1> DEFINE c == Len(brCalls) + 1
           reports == p \in brOpts.allowed
           new == [proc |-> p, tls |-> reports, stored |-> FALSE, probed |-> FALSE,
                   end |-> "data"]
           rec == [pid |-> p, call |-> c, buf |-> c]
<1>1. /\ UNCHANGED <<brOpts, brAttached, brExe, brUses, brFds, brImporting, brNss_import_fds,
                     brNss_ssl_fds, brRobbed, brTarget_pid_cache, brShown, brCurrent, brBufs>>
      /\ brExe[p] # "gone" /\ brCalls' = Append(brCalls, new)
      /\ reports => Br!Submit(c, rec)
      /\ ~reports => UNCHANGED <<brRing, brSent, brLost>>
  BY DEF Br!Copy, Br!Idle, Br!program, Br!system, Br!nssMaps, Br!records, Br!output
<1>2. new \in BrTypes /\ new.proc = p /\ (new.tls <=> reports) /\ ~new.stored /\ new.end = "data"
  <2>1. reports \in BOOLEAN
    OBVIOUS
  <2> HIDE DEF reports
  <2> QED
    BY <2>1 DEF BrTypes
<1> HIDE DEF new
<1>3. /\ brCalls' \in Seq(BrTypes) /\ Len(brCalls') = c /\ brCalls'[c] = new
      /\ \A d \in 1 .. Len(brCalls) : brCalls'[d] = brCalls[d]
      /\ \A d \in 1 .. Len(brCalls') : d \in 1 .. Len(brCalls) \/ d = c
      /\ c \in Nat \ {0} /\ c \notin 1 .. Len(brCalls) /\ Len(brCalls) \in Nat
  BY <1>1, <1>2, BrCallAdded, BrTyped
<1>4. rec \in BrRecords /\ rec.pid = p /\ rec.call = c /\ rec.buf = c
  BY <1>3 DEF BrRecords
<1> HIDE DEF c, rec
<1>5. 1 .. Len(brCalls) \subseteq 1 .. Len(brCalls') /\ c \in 1 .. Len(brCalls') /\ Br!None = 0
  BY <1>3, BrWords DEF c
<1>6. \A r \in brSent : r.buf \in 1 .. Len(brCalls) /\ r.call \in 1 .. Len(brCalls)
  BY DEF BrSentOnce, BrRight
<1>7. /\ brRing' \in Seq(BrRecords) /\ brSent' \subseteq BrRecords /\ BrRing'
      /\ brLost \subseteq brLost' /\ brSent \subseteq brSent'
      /\ \A r \in brSent' : r \in brSent \/ r = rec
      /\ reports => c \in brLost' \/ rec \in brSent'
  <2>1. CASE ~reports
    BY <1>1, <2>1 DEF BrShape, BrRing
  <2>2. CASE reports
    <3>1. rec \notin brSent
      BY <1>3, <1>4, <1>6
    <3> QED
      BY <1>1, <1>4, <2>2, <3>1, BrSubmitted
  <2> QED
    BY <2>1, <2>2
<1>8. BrShape'
  BY <1>1, <1>3, <1>7 DEF BrShape
<1>9. BrDescriptors' /\ BrCache' /\ BrVerdicts'
  BY <1>1 DEF BrDescriptors, BrCache, Br!Slot, BrVerdicts
<1>10. \A d \in 1 .. Len(brCalls) : Br!LeftBehind(d) => Br!LeftBehind(d)'
  BY <1>3, <1>7 DEF Br!LeftBehind
<1>11. BrCallsOwned'
  <2> SUFFICES ASSUME NEW q \in BrProcs
               PROVE  BrInCall(q)' /\ BrBufAt(q)'
    BY DEF BrCallsOwned
  <2>1. BrInCall(q) /\ BrBufAt(q)
    BY DEF BrCallsOwned
  <2>2. BrInCall(q)'
    BY <1>1, <1>3, <1>5, <2>1 DEF BrInCall
  <2>3. BrBufAt(q)'
    BY <1>1, <1>3, <1>4, <1>5, <1>7, <1>10, <2>1 DEF BrBufAt
  <2> QED
    BY <2>2, <2>3
<1>12. BrSentOnce'
  <2>1. \A r \in brSent : BrRight(r)' /\ r.buf # rec.buf
    BY <1>3, <1>4, <1>5, <1>6, <1>10 DEF BrSentOnce, BrRight
  <2>2. ASSUME NEW r, r = rec
        PROVE  BrRight(r)'
    BY <1>2, <1>3, <1>4, <1>5, <2>2 DEF BrRight
  <2>3. \A r \in brSent' : BrRight(r)'
    BY <1>7, <2>1, <2>2
  <2>4. \A r, s \in brSent' : s.buf = r.buf => s = r
    BY <1>7, <2>1 DEF BrSentOnce
  <2> QED
    BY <2>3, <2>4 DEF BrSentOnce
<1>13. BrReported'
  BY <1>2, <1>3, <1>4, <1>7 DEF BrReported
<1>14. BrUsed'
  BY <1>1, <1>2, <1>3 DEF BrUsed
<1> QED
  BY <1>7, <1>8, <1>9, <1>11, <1>12, <1>13, <1>14

-----------------------------------------------------------------------------
\* The cache of verdicts
LEMMA BrSlotTyped ==
  ASSUME NEW p \in BrProcs, NEW i \in BrSlots
  PROVE  Br!Slot(p, i) \in BrSlots
<1>1. p \in Nat /\ i \in Nat /\ BrCacheSize \in Nat \ {0}
  BY BrConstants DEF BrSlots
<1> QED
  BY <1>1 DEF Br!Slot, BrSlots

LEMMA BrMin ==
  ASSUME NEW S \in SUBSET Nat, S # {}
  PROVE  Br!Min(S) \in S /\ \A j \in S : Br!Min(S) <= j
<1>1. PICK i \in S : \A j \in S : ~(j < i)
  BY FirstExists
<1>2. \A j \in S : i <= j
  BY <1>1
<1>3. Br!Min(S) = CHOOSE x \in S : \A y \in S : x <= y
  BY BrWords
<1> QED
  BY <1>2, <1>3

\* The search ends at the PID's entry if there is one, at a free slot all before
\* which are taken, or, if none is free, at the PID's own slot.
LEMMA BrSearch ==
  ASSUME BrShape, BrCache, NEW p \in BrProcs
  PROVE  /\ Br!Place(p) \in BrSlots
         /\ Br!Cached(p) \/ \A s \in BrSlots : brTarget_pid_cache[s].pid # p
         /\ Br!Cached(p) \/ \E i \in BrSlots :
              /\ Br!Slot(p, i) = Br!Place(p)
              /\ \A j \in 0 .. i - 1 : brTarget_pid_cache[Br!Slot(p, j)].pid # Br!None
<1> DEFINE T == brTarget_pid_cache
           m == IF Br!Places(p) = {} THEN 0 ELSE Br!Min(Br!Places(p))
<1>1. Br!Places(p) = {i \in BrSlots : T[Br!Slot(p, i)].pid \in {Br!None, p}}
      /\ Br!Places(p) \in SUBSET Nat
  BY DEF Br!Places, BrSlots
<1>2. m \in BrSlots /\ \A i \in Br!Places(p) : m <= i /\ m \in Br!Places(p)
  <2>1. 0 \in BrSlots
    BY BrConstants DEF BrSlots
  <2> QED
    BY <1>1, <2>1, BrMin
<1>3. Br!Place(p) = Br!Slot(p, m)
  BY DEF Br!Place
<1> HIDE DEF m
<1>4. Br!Place(p) \in BrSlots
  BY <1>2, <1>3, BrSlotTyped
<1>5. \A j \in 0 .. m - 1 : T[Br!Slot(p, j)].pid # Br!None
  <2> SUFFICES ASSUME NEW j \in 0 .. m - 1, T[Br!Slot(p, j)].pid = Br!None
               PROVE  FALSE
    OBVIOUS
  <2>1. m \in Nat /\ j \in BrSlots /\ ~(m <= j)
    BY <1>2, BrConstants DEF BrSlots
  <2> QED
    BY <1>1, <1>2, <2>1
<1>6. ASSUME NEW s \in BrSlots, T[s].pid = p
      PROVE  Br!Cached(p)
  <2>0. p # Br!None
    BY BrConstants, BrWords
  <2>1. PICK i \in BrSlots : /\ Br!Slot(p, i) = s
                             /\ \A j \in 0 .. i - 1 : T[Br!Slot(p, j)].pid # Br!None
    BY <1>6, <2>0 DEF BrCache
  <2>2. i \in Br!Places(p)
    BY <1>1, <1>6, <2>1
  <2>3. m \in Br!Places(p) /\ m <= i
    BY <1>2, <2>2
  <2>4. CASE m = i
    BY <1>3, <1>6, <2>1, <2>4 DEF Br!Cached
  <2>5. CASE m # i
    <3>1. m \in 0 .. i - 1
      BY <1>2, <2>3, <2>5 DEF BrSlots
    <3>2. T[Br!Slot(p, m)].pid = p
      BY <1>1, <2>1, <2>3, <3>1
    <3> QED
      BY <1>3, <3>2 DEF Br!Cached
  <2> QED
    BY <2>4, <2>5
<1> QED
  BY <1>2, <1>3, <1>4, <1>5, <1>6

\* What is said of a cached PID is what its program is, if it has run only one.
LEMMA BrMatches ==
  ASSUME BrKept, NEW p \in BrProcs, brUses[p] = 1, brExe[p] # "gone"
  PROVE  Br!Matches(p) <=> brExe[p] = "target"
<1>1. CASE Br!Cached(p)
  <2>1. Br!Place(p) \in BrSlots /\ brTarget_pid_cache[Br!Place(p)].pid = p /\ p # Br!None
    BY <1>1, BrSearch, BrConstants, BrWords DEF BrKept, Br!Cached
  <2>2. brTarget_pid_cache[Br!Place(p)].matched <=> brExe[p] = "target"
    BY <2>1 DEF BrKept, BrVerdicts
  <2> QED
    BY <1>1, <2>2 DEF Br!Matches
<1>2. CASE ~Br!Cached(p)
  BY <1>2 DEF Br!Matches
<1> QED
  BY <1>1, <1>2

\* The record that is handled is of a process that has run, and was not shown.
LEMMA BrHead ==
  ASSUME BrKept, brRing # << >>
  PROVE  /\ Head(brRing) \in brSent /\ Head(brRing) \notin brShown
         /\ Head(brRing).pid \in BrProcs /\ brUses[Head(brRing).pid] >= 1
         /\ Tail(brRing) \in Seq(BrRecords) /\ Len(Tail(brRing)) = Len(brRing) - 1
         /\ Len(brRing) \in Nat
         /\ ToSet(brRing) = ToSet(Tail(brRing)) \cup {Head(brRing)}
         /\ Head(brRing) \notin ToSet(Tail(brRing))
         /\ \A i, j \in 1 .. Len(Tail(brRing)) : Tail(brRing)[i] = Tail(brRing)[j] => i = j
<1> USE DEF BrKept
<1> DEFINE r == Head(brRing)
           u == Tail(brRing)
<1>1. brRing \in Seq(BrRecords) /\ brSent \subseteq BrRecords
  BY DEF BrShape
<1>2. ToSet(brRing) = ToSet(u) \cup {r}
  BY <1>1, ElementsOf
<1>3. r \in brSent /\ r \notin brShown /\ r \in BrRecords
  BY <1>1, <1>2 DEF BrRing
<1>4. r.pid \in BrProcs
  BY <1>3 DEF BrRecords
<1>5. r.buf \in 1 .. Len(brCalls) /\ brCalls[r.buf].proc = r.pid
  BY <1>3 DEF BrSentOnce, BrRight
<1>6. brUses[r.pid] >= 1
  BY <1>5 DEF BrUsed
<1>7. /\ Len(brRing) \in Nat /\ Len(brRing) >= 1 /\ u \in Seq(BrRecords)
      /\ Len(u) = Len(brRing) - 1 /\ DOMAIN u = 1 .. Len(u) /\ r = brRing[1]
      /\ \A i \in 1 .. Len(u) : u[i] = brRing[i + 1]
  BY <1>1
<1> HIDE DEF r, u
<1>8. \A i \in 1 .. Len(u) : i + 1 \in 1 .. Len(brRing) /\ i + 1 # 1
  BY <1>7
<1>9. r \notin ToSet(u)
  <2> SUFFICES ASSUME NEW i \in 1 .. Len(u), u[i] = r
               PROVE  FALSE
    BY <1>7 DEF ToSet
  <2> QED
    BY <1>7, <1>8 DEF BrRing
<1>10. \A i, j \in 1 .. Len(u) : u[i] = u[j] => i = j
  <2> SUFFICES ASSUME NEW i \in 1 .. Len(u), NEW j \in 1 .. Len(u), u[i] = u[j]
               PROVE  i = j
    OBVIOUS
  <2>1. i + 1 = j + 1
    BY <1>7, <1>8 DEF BrRing
  <2> QED
    BY <1>7, <2>1
<1> QED
  BY <1>2, <1>3, <1>4, <1>6, <1>7, <1>9, <1>10 DEF r, u

LEMMA BrKeptByHandle ==
  ASSUME BrKept, Br!Handle
  PROVE  BrKept'
<1> USE DEF BrKept
<1> DEFINE r == Head(brRing)
           p == r.pid
           T == brTarget_pid_cache
           s0 == Br!Place(p)
           e == [pid |-> p, matched |-> Br!Matches(p)]
<1>1. /\ UNCHANGED <<brOpts, brAttached, brExe, brUses, brFds, brImporting, brNss_import_fds,
                     brNss_ssl_fds, brRobbed, brCurrent, brCalls, brBufs, brSent, brLost>>
      /\ brRing # << >> /\ brRing' = Tail(brRing)
      /\ brShown' = IF Br!Matches(p) THEN brShown \cup {r} ELSE brShown
      /\ T' = IF Br!Cached(p) THEN T ELSE [T EXCEPT ![s0] = e]
  BY DEF Br!Handle, Br!program, Br!system, Br!nssMaps
<1>2. p \in BrProcs /\ brUses[p] >= 1 /\ p # Br!None /\ Br!None = 0
  BY <1>1, BrHead, BrConstants, BrWords
<1>3. BrRing'
  <2>1. brShown' \subseteq brShown \cup {r}
    BY <1>1
  <2>2. Len(Tail(brRing)) <= BrRingSize
    BY <1>1, BrHead, BrConstants DEF BrRing
  <2> HIDE DEF r
  <2> QED
    BY <1>1, <2>1, <2>2, BrHead DEF BrRing, r
<1>4. s0 \in BrSlots
  BY <1>2, BrSearch
<1>5. T \in [BrSlots -> [pid : BrProcs \cup {Br!None}, matched : BOOLEAN]]
  BY DEF BrShape
<1>6. e \in [pid : BrProcs \cup {Br!None}, matched : BOOLEAN] /\ e.pid = p
      /\ (e.matched <=> Br!Matches(p))
  <2>1. Br!Matches(p) \in BOOLEAN
    BY <1>4, <1>5 DEF Br!Matches
  <2> QED
    BY <1>2, <2>1
<1> HIDE DEF e, s0, p
<1>7. T' \in [BrSlots -> [pid : BrProcs \cup {Br!None}, matched : BOOLEAN]]
  BY <1>1, <1>4, <1>5, <1>6
<1>8. BrShape'
  BY <1>1, <1>7, BrHead DEF BrShape
<1>9. BrDescriptors' /\ BrSentOnce' /\ BrReported' /\ BrUsed'
  BY <1>1 DEF BrDescriptors, BrSentOnce, BrRight, Br!LeftBehind, BrReported, BrUsed
<1>10. BrCallsOwned'
  BY <1>1 DEF BrCallsOwned, BrInCall, BrBufAt, Br!LeftBehind
<1>11. CASE Br!Cached(p)
  <2>1. T' = T
    BY <1>1, <1>11 DEF p
  <2>2. BrCache' /\ BrVerdicts'
    BY <1>1, <2>1 DEF BrCache, Br!Slot, BrVerdicts
  <2> QED
    BY <1>3, <1>8, <1>9, <1>10, <2>2
<1>12. CASE ~Br!Cached(p)
  <2>1. T' = [T EXCEPT ![s0] = e]
    BY <1>1, <1>12 DEF p, s0, e
  <2>2. T'[s0] = e /\ \A s \in BrSlots : s # s0 => T'[s] = T[s]
    BY <1>4, <1>5, <2>1
  <2>3. \A s \in BrSlots : T[s].pid # p
    BY <1>2, <1>12, BrSearch
  <2>4. \A s \in BrSlots : T[s].pid # Br!None => T'[s].pid # Br!None
    BY <1>2, <1>6, <2>2
  <2>5. \A q, i : Br!Slot(q, i)' = Br!Slot(q, i)
    BY DEF Br!Slot
  <2>6. ASSUME NEW s \in BrSlots, T'[s].pid # Br!None
        PROVE  \E i \in BrSlots :
                 /\ Br!Slot(T'[s].pid, i) = s
                 /\ \A j \in 0 .. i - 1 : T'[Br!Slot(T'[s].pid, j)].pid # Br!None
    <3>1. PICK q \in BrProcs, i \in BrSlots :
            /\ T'[s].pid = q /\ Br!Slot(q, i) = s
            /\ \A j \in 0 .. i - 1 : T[Br!Slot(q, j)].pid # Br!None
      <4>1. CASE s = s0
        <5>1. PICK i \in BrSlots : Br!Slot(p, i) = s0
                /\ \A j \in 0 .. i - 1 : T[Br!Slot(p, j)].pid # Br!None
          BY <1>2, <1>12, BrSearch DEF s0
        <5> QED
          BY <1>2, <1>6, <2>2, <4>1, <5>1
      <4>2. CASE s # s0
        <5>1. T'[s] = T[s] /\ T[s].pid \in BrProcs
          BY <1>5, <2>2, <2>6, <4>2
        <5> QED
          BY <2>6, <5>1 DEF BrCache
      <4> QED
        BY <4>1, <4>2
    <3>2. \A j \in 0 .. i - 1 : Br!Slot(q, j) \in BrSlots
      <4>1. \A j \in 0 .. i - 1 : j \in BrSlots
        BY BrConstants DEF BrSlots
      <4> QED
        BY <4>1, BrSlotTyped
    <3>3. \A j \in 0 .. i - 1 : T'[Br!Slot(q, j)].pid # Br!None
      BY <2>4, <3>1, <3>2
    <3> QED
      BY <3>1, <3>3
  <2>7. \A s \in BrSlots : T'[s].pid = Br!None => T'[s] = Br!NoEntry
    BY <1>2, <1>6, <2>2 DEF BrCache
  <2>8. \A s, t \in BrSlots : T'[s].pid = T'[t].pid /\ T'[s].pid # Br!None => s = t
    BY <1>6, <2>2, <2>3 DEF BrCache
  <2>9. BrCache'
    BY <2>5, <2>6, <2>7, <2>8 DEF BrCache, Br!NoEntry
  <2>10. Br!Matches(p) <=> brExe[p] = "target"
    BY <1>12 DEF Br!Matches
  <2>11. BrVerdicts'
    <3> SUFFICES ASSUME NEW s \in BrSlots, T'[s].pid # Br!None
                 PROVE  /\ brUses[T'[s].pid] >= 1
                        /\ brUses[T'[s].pid] = 1 /\ brExe[T'[s].pid] # "gone" =>
                             (T'[s].matched <=> brExe[T'[s].pid] = "target")
      BY <1>1 DEF BrVerdicts
    <3>1. CASE s = s0
      BY <1>2, <1>6, <2>2, <2>10, <3>1
    <3>2. CASE s # s0
      <4>1. T'[s] = T[s]
        BY <2>2, <3>2
      <4> QED
        BY <4>1 DEF BrVerdicts
    <3> QED
      BY <3>1, <3>2
  <2> QED
    BY <1>3, <1>8, <1>9, <1>10, <2>9, <2>11
<1> QED
  BY <1>11, <1>12

-----------------------------------------------------------------------------
\* A process ends, begins, or executes another file.
LEMMA BrKeptByChange ==
  ASSUME BrKept, NEW p \in BrProcs, NEW file \in {"target", "other", "gone"}, Br!Change(p, file)
  PROVE  BrKept'
<1> USE DEF BrKept
<1>1. /\ UNCHANGED <<brOpts, brAttached, brCalls, brNss_import_fds, brNss_ssl_fds, brBufs, brRing,
                     brSent, brLost, brTarget_pid_cache, brShown>>
      /\ brExe' = [brExe EXCEPT ![p] = file]
      /\ brUses' = IF file = "gone" THEN brUses ELSE [brUses EXCEPT ![p] = @ + 1]
      /\ brFds' = [brFds EXCEPT ![p] = [fd \in BrFds |-> "none"]]
      /\ brImporting' = [brImporting EXCEPT ![p] = Br!NoImport]
      /\ brCurrent' = [brCurrent EXCEPT ![p] = Br!None]
      /\ brRobbed' = {r \in brRobbed : r[1] # p}
  BY DEF Br!Change, Br!program, Br!nssMaps, Br!records, Br!output
<1>2. /\ brExe \in [BrProcs -> {"target", "other", "gone"}] /\ brUses \in [BrProcs -> Nat]
      /\ brFds \in [BrProcs -> [BrFds -> {"none", "plain", "tls"}]]
      /\ brImporting \in [BrProcs -> BrImports] /\ brCurrent \in [BrProcs -> Nat]
  BY DEF BrShape
<1>3. brUses' \in [BrProcs -> Nat] /\ \A q \in BrProcs : brUses'[q] >= brUses[q]
  BY <1>1, <1>2
<1>4. \A q \in BrProcs : q # p => /\ brExe'[q] = brExe[q] /\ brUses'[q] = brUses[q]
                                  /\ brFds'[q] = brFds[q] /\ brImporting'[q] = brImporting[q]
                                  /\ brCurrent'[q] = brCurrent[q]
  BY <1>1, <1>2
<1>5. /\ brExe'[p] = file /\ brImporting'[p] = Br!NoImport /\ brCurrent'[p] = Br!None
      /\ \A fd \in BrFds : brFds'[p][fd] = "none"
      /\ file # "gone" => brUses'[p] = brUses[p] + 1
  BY <1>1, <1>2
<1>6. BrShape'
  <2>1. [fd \in BrFds |-> "none"] \in [BrFds -> {"none", "plain", "tls"}]
    OBVIOUS
  <2>2. brFds' \in [BrProcs -> [BrFds -> {"none", "plain", "tls"}]]
    BY <1>1, <1>2, <2>1
  <2>3. brExe' \in [BrProcs -> {"target", "other", "gone"}]
        /\ brImporting' \in [BrProcs -> BrImports] /\ brCurrent' \in [BrProcs -> Nat]
    BY <1>1, <1>2, BrWords
  <2> QED
    BY <1>1, <1>3, <2>2, <2>3 DEF BrShape
<1>7. BrRing' /\ BrSentOnce' /\ BrReported'
  BY <1>1 DEF BrRing, BrSentOnce, BrRight, Br!LeftBehind, BrReported
<1>8. BrDescriptors'
  <2> SUFFICES ASSUME NEW q \in BrProcs
               PROVE  /\ brImporting'[q] # Br!NoImport =>
                           brImporting'[q].fd \in BrFds /\ brFds'[q][brImporting'[q].fd] = "plain"
                      /\ \A fd \in BrFds : brFds'[q][fd] = "tls" /\ <<q, fd>> \notin brRobbed'
                                           => fd \in brNss_ssl_fds'
    BY DEF BrDescriptors, Br!NoImport, Br!None
  <2>1. CASE q = p
    BY <1>5, <2>1
  <2>2. CASE q # p
    <3>1. \A fd \in BrFds : <<q, fd>> \in brRobbed => <<q, fd>> \in brRobbed'
      BY <1>1, <2>2
    <3> QED
      BY <1>1, <1>4, <2>2, <3>1 DEF BrDescriptors
  <2> QED
    BY <2>1, <2>2
<1>9. BrCallsOwned'
  <2> SUFFICES ASSUME NEW q \in BrProcs
               PROVE  BrInCall(q)' /\ BrBufAt(q)'
    BY DEF BrCallsOwned
  <2>2. BrInCall(q) /\ BrBufAt(q)
    BY DEF BrCallsOwned
  <2>3. BrBufAt(q)'
    <3>1. brBufs[q] # Br!None => Br!LeftBehind(brBufs[q]) \/ brCurrent[q] = brBufs[q]
      BY <2>2 DEF BrBufAt
    <3>2. brBufs[q] # Br!None /\ brCurrent'[q] # brBufs[q] => Br!LeftBehind(brBufs[q])
      BY <1>4, <1>5, <2>2, <3>1 DEF BrBufAt, BrInCall, Br!LeftBehind
    <3> QED
      BY <1>1, <2>2, <3>2 DEF BrBufAt, Br!LeftBehind, Br!None
  <2>4. CASE q = p
    BY <1>5, <2>3, <2>4 DEF BrInCall, Br!None
  <2>5. CASE q # p
    BY <1>1, <1>4, <2>2, <2>3, <2>5 DEF BrInCall, Br!None
  <2> QED
    BY <2>4, <2>5
<1>10. BrUsed'
  <2>1. \A c \in 1 .. Len(brCalls) : brCalls[c].proc \in BrProcs
    BY BrTyped DEF BrTypes
  <2>2. \A q \in BrProcs : brExe'[q] # "gone" => brUses'[q] >= 1
    BY <1>2, <1>3, <1>4, <1>5 DEF BrUsed
  <2>3. \A c \in 1 .. Len(brCalls) : brUses'[brCalls[c].proc] >= 1
    BY <1>2, <1>3, <2>1 DEF BrUsed
  <2> QED
    BY <1>1, <2>2, <2>3 DEF BrUsed
<1>11. BrCache'
  BY <1>1 DEF BrCache, Br!Slot, Br!None, Br!NoEntry
<1>12. BrVerdicts'
  <2> SUFFICES ASSUME NEW s \in BrSlots, brTarget_pid_cache[s].pid # Br!None
               PROVE  LET e == brTarget_pid_cache[s] IN
                        /\ brUses'[e.pid] >= 1
                        /\ brUses'[e.pid] = 1 /\ brExe'[e.pid] # "gone" =>
                             (e.matched <=> brExe'[e.pid] = "target")
    BY <1>1 DEF BrVerdicts, Br!None
  <2> DEFINE q == brTarget_pid_cache[s].pid
  <2>1. q \in BrProcs
    BY DEF BrShape
  <2>2. brUses[q] >= 1 /\ (brUses[q] = 1 /\ brExe[q] # "gone" =>
                             (brTarget_pid_cache[s].matched <=> brExe[q] = "target"))
    BY DEF BrVerdicts
  <2> HIDE DEF q
  <2>3. CASE q = p
    BY <1>2, <1>3, <1>5, <2>1, <2>2, <2>3 DEF q
  <2>4. CASE q # p
    BY <1>4, <2>1, <2>2, <2>4 DEF q
  <2> QED
    BY <2>3, <2>4
<1> QED
  BY <1>6, <1>7, <1>8, <1>9, <1>10, <1>11, <1>12

LEMMA BrKeptByNext == BrKept /\ [Br!Next]_(Br!vars) => BrKept'
<1> SUFFICES ASSUME BrKept, [Br!Next]_(Br!vars)
             PROVE  BrKept'
  OBVIOUS
<1>1. CASE UNCHANGED Br!vars
  <2>1. /\ UNCHANGED <<brOpts, brAttached, brExe, brUses, brCurrent, brCalls, brBufs, brRing,
                       brSent, brLost, brShown, brTarget_pid_cache>>
        /\ UNCHANGED <<brFds, brImporting, brNss_import_fds, brNss_ssl_fds, brRobbed>>
    BY <1>1 DEF Br!vars, Br!program, Br!system, Br!nssMaps, Br!records, Br!output
  <2>2. BrShape /\ BrDescriptors
    BY DEF BrKept
  <2>4. BrShape' /\ BrDescriptors'
    BY <2>1, <2>2 DEF BrShape, BrDescriptors
  <2> QED
    BY <2>1, <2>4, BrCallsStay DEF BrKept
<1>2. CASE Br!Handle
  BY <1>2, BrKeptByHandle
<1>3. CASE \/ Br!Attach
           \/ \E p \in BrProcs :
                \/ \E fd \in BrFds : Br!Open(p, fd) \/ Br!ImportEnter(p, fd) \/ Br!Close(p, fd)
                \/ \E ok \in BOOLEAN : Br!ImportExit(p, ok)
  BY <1>3, BrKeptByDescriptors
<1>4. ASSUME NEW p \in BrProcs, NEW fd \in BrFds, NEW f, Br!Enter(p, fd, f)
      PROVE  BrKept'
  BY <1>4, BrKeptByEnter
<1>5. ASSUME NEW p \in BrProcs, NEW ok \in BOOLEAN, Br!Exit(p, ok)
      PROVE  BrKept'
  BY <1>5, BrKeptByExit
<1>6. ASSUME NEW p \in BrProcs, Br!Copy(p)
      PROVE  BrKept'
  BY <1>6, BrKeptByCopy
<1>7. ASSUME NEW p \in BrProcs, NEW file \in {"target", "other", "gone"}, Br!Change(p, file)
      PROVE  BrKept'
  BY <1>7, BrKeptByChange
<1> QED
  BY <1>1, <1>2, <1>3, <1>4, <1>5, <1>6, <1>7 DEF Br!Next

LEMMA BrAlwaysKept == Br!Spec => []BrKept
<1> QED
  BY BrAtFirst, BrKeptByNext, PTL DEF Br!Spec

LEMMA BrowserPart == ProbesSpec => Br!Spec
<1>1. ProbesInit => Br!Init
  BY DEF ProbesInit
<1>2. [ProbesNext]_<<part, vars, ioVars, brVars>> => [Br!Next]_(Br!vars)
  BY DEF ProbesNext, brVars, Br!vars, Br!program, Br!system, Br!nssMaps, Br!records, Br!output
<1> QED
  BY <1>1, <1>2, PTL DEF ProbesSpec, Br!Spec

\* browsertrace_exit and probe_nss_import_fd_exit: what a call moves on a descriptor the probe
\* saw imported is reported with the call's own buffer, unless the ring was full or another
\* process had closed a descriptor at that address; a call whose entry stored nothing reports at
\* most what a call of the same thread has left behind, and no buffer is reported twice,
\* whatever was attached when.  Nothing is said of which descriptors the entry stores: one is
\* known by its address, so that a plain descriptor at that of a TLS one is reported too.
THEOREM TlsCallsAreReported == ProbesSpec => []TlsCallsReported
<1>1. BrKept => TlsCallsReported
  <2> SUFFICES ASSUME BrKept
               PROVE  Br!TlsCallsReported
    BY DEF TlsCallsReported
  <2> USE DEF BrKept
  <2>1. DOMAIN brCalls = 1 .. Len(brCalls)
    BY DEF BrShape
  <2>2. Br!TypeOK
    <3>1. ASSUME NEW i \in BrSlots, NEW j \in BrSlots, brTarget_pid_cache[i] # Br!NoEntry,
                 brTarget_pid_cache[i].pid = brTarget_pid_cache[j].pid
          PROVE  i = j
      BY <3>1 DEF BrCache
    <3> QED
      BY <3>1, BrWords DEF Br!TypeOK, BrShape, BrRing, BrSlots
  <2>3. \A c \in DOMAIN brCalls : brCalls[c].tls /\ brCalls[c].end = "data" =>
          c \in brLost \/ \E r \in brSent : r.call = c /\ r.buf = c
    BY <2>1 DEF BrReported
  <2>4. \A r \in brSent :
          /\ brCalls[r.buf].proc = r.pid /\ (r.buf # r.call => Br!LeftBehind(r.buf))
          /\ brCalls[r.call].stored => r.buf = r.call
          /\ \A s \in brSent : s.buf = r.buf => s = r
    BY DEF BrSentOnce, BrRight
  <2> QED
    BY <2>2, <2>3, <2>4 DEF Br!TlsCallsReported
<1> QED
  BY <1>1, BrowserPart, BrAlwaysKept, PTL

\* lookup_target_pid_cache and store_target_pid_cache: whatever PIDs have gone through the
\* cache, a record of a PID that has run one program only is shown exactly if it is the browser.
THEOREM VerdictsAreExact == ProbesSpec => VerdictExact
<1> DEFINE r == Head(brRing)
           Exact == Len(brRing') < Len(brRing) =>
                      (brExe[r.pid] # "gone" /\ brUses[r.pid] = 1
                         => (r \in brShown') = (brExe[r.pid] = "target"))
<1>1. BrKept /\ [Br!Next]_(Br!vars) => [Exact]_(Br!vars)
  <2> SUFFICES ASSUME BrKept, Br!Next, Len(brRing') < Len(brRing),
                      brExe[r.pid] # "gone", brUses[r.pid] = 1
               PROVE  (r \in brShown') = (brExe[r.pid] = "target")
    OBVIOUS
  <2> USE DEF BrKept
  <2>1. brRing \in Seq(BrRecords) /\ Len(brRing) \in Nat
    BY DEF BrShape
  <2>2. ~UNCHANGED brRing
    BY <2>1
  <2>3. \A x : Len(Append(brRing, x)) = Len(brRing) + 1
    BY <2>1
  <2>4. \A c, x : ~Br!Submit(c, x)
    BY <2>1, <2>2, <2>3 DEF Br!Submit
  <2>5. Br!Handle
    <3>1. ~Br!Attach /\ \A p \in BrProcs, fd \in BrFds :
             ~Br!Open(p, fd) /\ ~Br!ImportEnter(p, fd) /\ ~Br!Close(p, fd)
      BY <2>2 DEF Br!Attach, Br!Open, Br!ImportEnter, Br!Close, Br!records
    <3>2. \A p \in BrProcs, ok \in BOOLEAN : ~Br!ImportExit(p, ok) /\ ~Br!Exit(p, ok)
      BY <2>2, <2>4 DEF Br!ImportExit, Br!Exit, Br!records
    <3>3. \A p \in BrProcs, file \in {"target", "other", "gone"} :
             ~Br!Copy(p) /\ ~Br!Change(p, file)
      BY <2>2, <2>4 DEF Br!Copy, Br!Change, Br!records
    <3>4. ASSUME NEW p \in BrProcs, NEW fd \in BrFds, NEW f, Br!Enter(p, fd, f)
          PROVE  FALSE
      BY <2>2, <3>4 DEF Br!Enter, Br!records
    <3> QED
      BY <3>1, <3>2, <3>3, <3>4 DEF Br!Next
  <2>6. brRing # << >>
        /\ brShown' = IF Br!Matches(r.pid) THEN brShown \cup {r} ELSE brShown
    BY <2>5 DEF Br!Handle
  <2>7. r \notin brShown /\ r.pid \in BrProcs
    BY <2>6, BrHead
  <2>8. Br!Matches(r.pid) <=> brExe[r.pid] = "target"
    BY <2>7, BrMatches
  <2>9. r \in brShown' <=> brExe[r.pid] = "target"
    <3> HIDE DEF r
    <3> QED
      BY <2>6, <2>7, <2>8
  <2> QED
    BY <2>9
<1>2. [][Exact]_(Br!vars) => VerdictExact
  BY DEF VerdictExact, Br!VerdictExact
<1> QED
  BY <1>1, <1>2, BrowserPart, BrAlwaysKept, PTL DEF Br!Spec

=============================================================================
