------------------------ MODULE RecordLifecycleProofs ------------------------
(***************************************************************************)
(* What a recording leaves behind, for every number of probes, with and    *)
(* without a target, a system runner and sudo.                             *)
(***************************************************************************)
EXTENDS RecordLifecycle, TLAPS

\* No branch of the loops loses sight of the target: it has ended wherever
\* the main task no longer means to stop it.
TargetInv ==
  /\ pc \in {"prepare", "start"} => ~readied
  /\ pc \in {"drain", "drainHandle"} => target = "exited"
  /\ pc \in {"drop", "returned"} /\ readied => target \in {"none", "exited"} \/ 0 \in refused

\* An ended stream has no process any more but one that sudo did not kill, and
\* there are none before the first runner is started.
ProbeInv ==
  /\ pc = "prepare" => \A p \in Probes : probe[p] = "none"
  /\ \A p \in Probes : stream[p] = "ended" /\ probe[p] = "up" => NeedsSudo /\ p \in refused

Inv == TypeOK /\ TargetInv /\ ProbeInv /\ ProbesStopped

\* The bound of the pipes, apart from the other assumptions.
LEMMA BoundInNat == MaxLines \in Nat
  BY RecordAssumption

\* What dropping the runners leaves of a probe.
LEMMA DroppedEffect ==
  ASSUME TypeOK, ProbeInv, DropStreams
  PROVE  /\ probe' \in [Probes -> {"none", "up", "ok", "failed", "killed"}]
         /\ stream' \in [Probes -> {"none", "unpolled", "open", "ended"}]
         /\ \A p \in Probes : stream'[p] = "none" <=> probe'[p] = "none"
         /\ refused' \subseteq Probes \cup {0} /\ refused \subseteq refused'
         /\ \A p \in Probes : stream'[p] = "ended" /\ probe'[p] = "up"
                              => NeedsSudo /\ p \in refused'
         /\ \A p \in Probes : probe'[p] = "up"
                              => NeedsSudo /\ (stream'[p] = "unpolled" \/ p \in refused')
<1>1. PICK spared \in Refusals :
        /\ probe' = [p \in Probes |-> IF p \in spared THEN probe[p] ELSE Dropped(p)]
        /\ stream' = [p \in Probes |-> IF stream[p] = "open" THEN "ended" ELSE stream[p]]
        /\ refused' = refused \cup spared
  BY DEF DropStreams
<1>2. \A p \in spared : p \in Probes /\ NeedsSudo /\ probe[p] = "up" /\ stream[p] = "open"
  BY DEF Refusals
<1> QED
  BY <1>1, <1>2 DEF TypeOK, ProbeInv, Dropped

-----------------------------------------------------------------------------
\* Everything but the main task keeps the invariant.
LEMMA OthersKeepInv ==
  ASSUME Inv,
         \/ ShellStops \/ TargetExits \/ Signal
         \/ \E p \in Probes : ProbeWrites(p) \/ \E s \in {"ok", "failed"} : ProbeExits(p, s)
  PROVE  Inv'
<1> USE DEF Inv, TypeOK, TargetInv, ProbeInv, ProbesStopped, Waiting, io, past
<1>1. CASE ShellStops
  BY <1>1 DEF ShellStops
<1>2. CASE TargetExits
  BY <1>2 DEF TargetExits
<1>3. CASE Signal
  BY <1>3 DEF Signal
<1>4. ASSUME NEW p \in Probes, ProbeWrites(p)
      PROVE  Inv'
  BY <1>4, BoundInNat DEF ProbeWrites
<1>5. ASSUME NEW p \in Probes, NEW s \in {"ok", "failed"}, ProbeExits(p, s)
      PROVE  Inv'
  BY <1>5 DEF ProbeExits
<1> QED
  BY <1>1, <1>2, <1>3, <1>4, <1>5

\* So does the main task up to its loop.
LEMMA StartKeepsInv ==
  ASSUME Inv,
         Prepare \/ StartFails \/ Started \/ \E p \in Probes : StartProbe(p)
  PROVE  Inv'
<1> USE DEF Inv, TypeOK, TargetInv, ProbeInv, ProbesStopped, Waiting, io, past
<1>1. CASE Prepare
  BY <1>1 DEF Prepare
<1>2. CASE StartFails
  BY <1>2, DroppedEffect DEF StartFails
<1>3. CASE Started
  BY <1>3 DEF Started
<1>4. ASSUME NEW p \in Probes, StartProbe(p)
      PROVE  Inv'
  BY <1>4 DEF StartProbe
<1> QED
  BY <1>1, <1>2, <1>3, <1>4

\* And every branch of its two loops, and what follows them.
LEMMA LoopKeepsInv ==
  ASSUME Inv,
         \/ NextIteration \/ StreamEnds \/ TargetGone \/ DrainDeadline \/ Shutdown
         \/ StopTarget \/ Return
         \/ \E p \in Probes : Poll(p) \/ TakeLine(p) \/ EndOfOutput(p)
  PROVE  Inv'
<1> USE DEF Inv, TypeOK, TargetInv, ProbeInv, ProbesStopped, Waiting, io, past
<1>1. CASE NextIteration
  BY <1>1 DEF NextIteration
<1>2. CASE StreamEnds
  BY <1>2 DEF StreamEnds
<1>3. CASE TargetGone
  BY <1>3 DEF TargetGone
<1>4. CASE DrainDeadline
  BY <1>4 DEF DrainDeadline
<1>5. CASE Shutdown
  BY <1>5 DEF Shutdown
<1>6. CASE StopTarget
  BY <1>6 DEF StopTarget
<1>7. CASE Return
  BY <1>7, DroppedEffect DEF Return
<1>8. ASSUME NEW p \in Probes, Poll(p)
      PROVE  Inv'
  BY <1>8 DEF Poll
<1>9. ASSUME NEW p \in Probes, TakeLine(p)
      PROVE  Inv'
  <2>1. lines' \in [Probes -> 0 .. MaxLines]
    <3>1. lines[p] \in 0 .. MaxLines /\ lines[p] > 0
      BY <1>9 DEF TakeLine
    <3>2. lines[p] - 1 \in 0 .. MaxLines
      BY <3>1, BoundInNat
    <3> QED
      BY <1>9, <3>2 DEF TakeLine
  <2> QED
    BY <1>9, <2>1 DEF TakeLine
<1>10. ASSUME NEW p \in Probes, EndOfOutput(p)
       PROVE  Inv'
  BY <1>10 DEF EndOfOutput
<1> QED
  BY <1>1, <1>2, <1>3, <1>4, <1>5, <1>6, <1>7, <1>8, <1>9, <1>10

-----------------------------------------------------------------------------
\* The inductive invariant holds.
THEOREM Invariance == Spec => []Inv
<1>1. Init => Inv
  <2> SUFFICES ASSUME Init
               PROVE  Inv
    OBVIOUS
  <2>1. lines \in [Probes -> 0 .. MaxLines]
    BY BoundInNat DEF Init
  <2>2. probe = [p \in Probes |-> "none"] /\ stream = [p \in Probes |-> "none"]
    BY DEF Init
  <2>3. /\ pc = "prepare"
        /\ signal = FALSE /\ woken = FALSE /\ readied = FALSE /\ late = FALSE /\ refused = {}
        /\ target = IF HasTarget THEN "shell" ELSE "none"
    BY DEF Init
  <2> QED
    BY <2>1, <2>2, <2>3 DEF Inv, TypeOK, TargetInv, ProbeInv, ProbesStopped, Waiting
<1>2. Inv /\ [Next]_vars => Inv'
  <2> SUFFICES ASSUME Inv, [Next]_vars
               PROVE  Inv'
    OBVIOUS
  <2>1. CASE Next
    BY <2>1, OthersKeepInv, StartKeepsInv, LoopKeepsInv DEF Next, Main
  <2>2. CASE UNCHANGED vars
    BY <2>2 DEF vars, past, Inv, TypeOK, TargetInv, ProbeInv, ProbesStopped, Waiting
  <2> QED
    BY <2>1, <2>2
<1> QED
  BY <1>1, <1>2, PTL DEF Spec

\* The state keeps its shape: output only where there was a probe, and no
\* waiting before all probes have been started.
THEOREM TypeCorrect == Spec => []TypeOK
  BY Invariance, PTL DEF Inv

\* run_exec never leaves its command behind once recording got under way,
\* whichever of its many ways out it takes, unless it tried to end it and could not.
THEOREM NoTargetIsLeft == Spec => []TargetStopped
<1>1. Inv => TargetStopped
  BY DEF Inv, TargetInv, TargetStopped
<1> QED
  BY <1>1, Invariance, PTL

\* A probe survives the recording only under sudo, and either before its stream
\* was polled or when sudo -n kill failed: the guards see to all others.
THEOREM NoProbeIsLeft == Spec => []ProbesStopped
  BY Invariance, PTL DEF Inv
=============================================================================
