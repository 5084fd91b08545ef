----------------------------- MODULE LoopsProofs ------------------------------
(***************************************************************************)
(* The loops in the background of the server: the gate that stops them from*)
(* calling a model that is down, the sweep for missing embeddings, rollup and*)
(* narrator.  Their invariants for any number of workers, rows, windows and*)
(* devices, and any thresholds and batches.                                *)
(***************************************************************************)
EXTENDS VLMHealthGate, Embeddings, Summaries,
        FiniteSetTheorems, SequenceTheorems, TLAPS

(***************************************************************************)
(* VLMHealthGate                                                           *)
(***************************************************************************)
TypeInv ==
    /\ state \in {"healthy", "sleeping"}
    /\ failures \in Nat /\ successes \in Nat
    /\ cooling \in BOOLEAN /\ up \in BOOLEAN
    /\ worker \in [Workers -> {"idle", "probing", "lost", "cleared", "calling"}]
    /\ called \subseteq Workers
    /\ beats \in Seq(Answers) /\ Len(beats) <= RecoverThreshold

(* A worker that has called in this sleep holds no further permission. *)
Permits == state = "sleeping" => \A w \in called : worker[w] # "cleared"

(* The probe successes counted in a sleep are its last heartbeats. *)
Streak ==
    state = "sleeping" =>
        /\ successes < RecoverThreshold /\ successes <= Len(beats)
        /\ \A i \in 1 .. Len(beats) : i > Len(beats) - successes => beats[i] = "ok"

(* Workers that can still report a failure, and what they can add. *)
Busy == {w \in Workers : worker[w] \in {"cleared", "calling"}}

Counted ==
    /\ state = "healthy" => failures < FailThreshold
    /\ state = "sleeping" =>
          failures + Cardinality(Busy) <= FailThreshold - 1 + Cardinality(Workers)

GateInv == TypeInv /\ Permits /\ Streak

-----------------------------------------------------------------------------
LEMMA Thresholds ==
    /\ IsFiniteSet(Workers)
    /\ FailThreshold \in Nat /\ FailThreshold > 0
    /\ RecoverThreshold \in Nat /\ RecoverThreshold > 0
<1> QED
  BY GateAssumption DEF GateAssumption

(* LastOf drops the oldest of more than RecoverThreshold answers. *)
LEMMA LastOfAppend ==
    ASSUME NEW b \in Seq(Answers), NEW x \in Answers, Len(b) <= RecoverThreshold,
           NEW c, c = LastOf(Append(b, x))
    PROVE  /\ c \in Seq(Answers)
           /\ Len(c) \in {Len(b), Len(b) + 1} /\ Len(c) >= 1
           /\ Len(c) <= RecoverThreshold
           /\ Len(c) = Len(b) => Len(b) = RecoverThreshold
           /\ c[Len(c)] = x
           /\ \A i \in 1 .. Len(c) - 1 : c[i] = b[i + Len(b) + 1 - Len(c)]
<1> DEFINE a == Append(b, x)
<1>1. /\ a \in Seq(Answers) /\ Len(a) = Len(b) + 1 /\ a[Len(b) + 1] = x
      /\ \A i \in 1 .. Len(b) : a[i] = b[i]
  BY AppendProperties
<1>2. Len(b) \in Nat /\ RecoverThreshold \in Nat \ {0}
  BY LenProperties, Thresholds
<1>3. CASE Len(a) > RecoverThreshold
  <2>1. c = Tail(a)
    BY <1>3 DEF LastOf
  <2>2. a # <<>>
    BY <1>1, <1>2, EmptySeq
  <2>3. /\ c \in Seq(Answers) /\ Len(c) = Len(b)
        /\ \A i \in 1 .. Len(c) : c[i] = a[i + 1]
    BY <1>1, <1>2, <2>1, <2>2, HeadTailProperties
  <2> QED
    BY <1>1, <1>2, <1>3, <2>3
<1>4. CASE ~(Len(a) > RecoverThreshold)
  <2>1. c = a
    BY <1>4 DEF LastOf
  <2> QED
    BY <1>1, <1>2, <1>4, <2>1
<1> QED
  BY <1>3, <1>4

-----------------------------------------------------------------------------
LEMMA InitInv == Init => GateInv
<1> SUFFICES ASSUME Init PROVE GateInv
  OBVIOUS
<1>1. beats \in Seq(Answers) /\ Len(beats) = 0
  BY EmptySeq DEF Init
<1>2. TypeInv
  <2>1. /\ cooling \in BOOLEAN /\ up \in BOOLEAN
    BY DEF Init
  <2>2. worker \in [Workers -> {"idle", "probing", "lost", "cleared", "calling"}]
    BY DEF Init
  <2> QED
    BY <1>1, <2>1, <2>2, Thresholds DEF Init, TypeInv
<1>3. Permits /\ Streak
  BY DEF Init, Permits, Streak
<1> QED
  BY <1>2, <1>3 DEF GateInv

LEMMA StepInv ==
    ASSUME GateInv, [Next]_vars
    PROVE  GateInv'
<1> USE Thresholds DEF GateInv
<1>1. ASSUME NEW w \in Workers, AcquireHealthy(w)
      PROVE  GateInv'
  BY <1>1 DEF AcquireHealthy, Goto, gate, history, TypeInv, Permits, Streak
<1>2. ASSUME NEW w \in Workers, StartProbe(w)
      PROVE  GateInv'
  BY <1>2 DEF StartProbe, Goto, gate, history, TypeInv, Permits, Streak
<1>3. ASSUME NEW w \in Workers, HeartbeatOk(w)
      PROVE  GateInv'
  <2> DEFINE c == LastOf(Append(beats, "ok"))
  <2>1. /\ c \in Seq(Answers) /\ Len(c) \in {Len(beats), Len(beats) + 1}
        /\ Len(c) >= 1 /\ Len(c) <= RecoverThreshold
        /\ Len(c) = Len(beats) => Len(beats) = RecoverThreshold
        /\ c[Len(c)] = "ok"
        /\ \A i \in 1 .. Len(c) - 1 : c[i] = beats[i + Len(beats) + 1 - Len(c)]
    BY LastOfAppend DEF TypeInv, Answers
  <2>2. beats' = IF state = "sleeping" THEN c ELSE beats
    BY <1>3 DEF HeartbeatOk
  <2>3. TypeInv' /\ Permits'
    <3>1. beats' \in Seq(Answers) /\ Len(beats') <= RecoverThreshold
      BY <2>1, <2>2 DEF TypeInv
    <3>2. TypeInv'
      BY <1>3, <3>1 DEF HeartbeatOk, Wake, Goto, TypeInv
    <3>3. Permits'
      BY <1>3 DEF HeartbeatOk, Wake, Goto, TypeInv, Permits
    <3> QED
      BY <3>2, <3>3
  <2>4. Streak'
    <3>1. CASE state' = "healthy"
      BY <3>1 DEF Streak
    <3>2. CASE state' # "healthy"
      <4>1. /\ state = "sleeping" /\ beats' = c
            /\ successes' = successes + 1 /\ successes' < RecoverThreshold
        BY <1>3, <2>2, <3>2 DEF HeartbeatOk, Wake, TypeInv
      <4>2. Len(beats) \in Nat /\ Len(c) \in Nat /\ successes \in Nat
        BY <2>1, LenProperties DEF TypeInv
      <4>3. successes <= Len(beats) /\ successes + 1 <= Len(c)
        BY <2>1, <4>1, <4>2 DEF Streak, TypeInv
      <4>4. ASSUME NEW i \in 1 .. Len(c), i > Len(c) - (successes + 1)
            PROVE  c[i] = "ok"
        <5>1. CASE i = Len(c)
          BY <2>1, <5>1
        <5>2. CASE i # Len(c)
          <6> DEFINE j == i + Len(beats) + 1 - Len(c)
          <6>1. c[i] = beats[j] /\ j \in 1 .. Len(beats) /\ j > Len(beats) - successes
            BY <2>1, <4>2, <4>4, <5>2
          <6> QED
            BY <4>1, <6>1 DEF Streak
        <5> QED
          BY <5>1, <5>2
      <4> QED
        BY <4>1, <4>3, <4>4 DEF Streak
    <3> QED
      BY <3>1, <3>2
  <2> QED
    BY <2>3, <2>4
<1>4. ASSUME NEW w \in Workers, HeartbeatFail(w)
      PROVE  GateInv'
  <2>1. beats' \in Seq(Answers) /\ Len(beats') <= RecoverThreshold
    BY <1>4, LastOfAppend DEF HeartbeatFail, TypeInv, Answers
  <2>2. Len(beats') \in Nat
    BY <2>1, LenProperties
  <2> QED
    BY <1>4, <2>1, <2>2 DEF HeartbeatFail, Goto, TypeInv, Permits, Streak
<1>5. ASSUME NEW w \in Workers, NoCall(w)
      PROVE  GateInv'
  BY <1>5 DEF NoCall, Goto, gate, history, TypeInv, Permits, Streak
<1>6. ASSUME NEW w \in Workers, Call(w)
      PROVE  GateInv'
  BY <1>6 DEF Call, Goto, gate, TypeInv, Permits, Streak
<1>7. ASSUME NEW w \in Workers, ReportSuccess(w)
      PROVE  GateInv'
  BY <1>7 DEF ReportSuccess, Goto, history, TypeInv, Permits, Streak
<1>8. ASSUME NEW w \in Workers, ReportFailure(w)
      PROVE  GateInv'
  <2>1. CASE state = "healthy" /\ failures + 1 >= FailThreshold
    <3>1. beats' = <<>> /\ <<>> \in Seq(Answers) /\ Len(<<>>) = 0
      BY <1>8, <2>1, EmptySeq DEF ReportFailure, Sleep
    <3> QED
      BY <1>8, <2>1, <3>1 DEF ReportFailure, Sleep, Goto, TypeInv, Permits, Streak
  <2>2. CASE ~(state = "healthy" /\ failures + 1 >= FailThreshold)
    BY <1>8, <2>2 DEF ReportFailure, Goto, history, TypeInv, Permits, Streak
  <2> QED
    BY <2>1, <2>2
<1>9. CASE IntervalElapses
  BY <1>9 DEF IntervalElapses, history, TypeInv, Permits, Streak
<1>10. CASE EndpointDown
  BY <1>10 DEF EndpointDown, gate, history, TypeInv, Permits, Streak
<1>11. CASE EndpointUp
  BY <1>11 DEF EndpointUp, gate, history, TypeInv, Permits, Streak
<1>12. CASE UNCHANGED vars
  BY <1>12 DEF vars, gate, history, TypeInv, Permits, Streak
<1> QED
  BY <1>1, <1>2, <1>3, <1>4, <1>5, <1>6, <1>7, <1>8, <1>9, <1>10, <1>11, <1>12
     DEF Next, WorkerStep

LEMMA Invariant == Spec => []GateInv
<1> QED
  BY InitInv, StepInv, PTL DEF Spec

-----------------------------------------------------------------------------
(* While the gate sleeps no worker calls the VLM twice (acquire, the stale *)
(* permissions of health.py's unlocked heartbeat included).                *)
THEOREM OneCall == Spec => OneCallPerSleep
<1>1. ASSUME GateInv, [Next]_vars
      PROVE  [\A w \in Workers : state = "sleeping" /\ Call(w) => w \notin called]_vars
  BY <1>1 DEF GateInv, Permits, Call
<1> QED
  BY <1>1, Invariant, PTL DEF Spec, OneCallPerSleep

(* The gate wakes only after recover_threshold successful heartbeats in a  *)
(* row, in the order in which their answers reached the gate.              *)
THEOREM Recovery == Spec => WakesOnRecovery
<1> DEFINE A == state = "sleeping" /\ state' = "healthy"
                  => Len(beats') = RecoverThreshold /\ \A i \in DOMAIN beats' : beats'[i] = "ok"
<1>1. ASSUME GateInv, Next
      PROVE  A
  <2> SUFFICES ASSUME state = "sleeping", state' = "healthy"
               PROVE  Len(beats') = RecoverThreshold /\ \A i \in DOMAIN beats' : beats'[i] = "ok"
    OBVIOUS
  <2>1. PICK w \in Workers : HeartbeatOk(w)
    BY <1>1 DEF Next, WorkerStep, AcquireHealthy, StartProbe, HeartbeatFail, NoCall, Call,
                ReportSuccess, ReportFailure, Sleep, IntervalElapses, EndpointDown,
                EndpointUp, gate
  <2> DEFINE c == LastOf(Append(beats, "ok"))
  <2>2. /\ c \in Seq(Answers) /\ Len(c) \in {Len(beats), Len(beats) + 1}
        /\ Len(c) <= RecoverThreshold
        /\ Len(c) = Len(beats) => Len(beats) = RecoverThreshold
        /\ c[Len(c)] = "ok"
        /\ \A i \in 1 .. Len(c) - 1 : c[i] = beats[i + Len(beats) + 1 - Len(c)]
    BY <1>1, LastOfAppend DEF GateInv, TypeInv, Answers
  <2>3. beats' = c /\ successes = RecoverThreshold - 1
    BY <1>1, <2>1, Thresholds DEF HeartbeatOk, GateInv, Streak, TypeInv
  <2>4. Len(beats) \in Nat /\ Len(c) = RecoverThreshold
    BY <1>1, <2>2, <2>3, LenProperties, Thresholds DEF GateInv, Streak, TypeInv
  <2>5. ASSUME NEW i \in 1 .. Len(c)
        PROVE  c[i] = "ok"
    <3>1. CASE i = Len(c)
      BY <2>2, <3>1
    <3>2. CASE i # Len(c)
      <4> DEFINE j == i + Len(beats) + 1 - Len(c)
      <4>1. c[i] = beats[j] /\ j \in 1 .. Len(beats) /\ j > Len(beats) - successes
        BY <2>2, <2>3, <2>4, <3>2, Thresholds
      <4> QED
        BY <1>1, <4>1 DEF GateInv, Streak
    <3> QED
      BY <3>1, <3>2
  <2>6. DOMAIN c = 1 .. Len(c)
    BY <2>2, LenProperties
  <2> QED
    BY <2>3, <2>4, <2>5, <2>6
<1>2. ASSUME GateInv, [Next]_vars
      PROVE  [A]_vars
  BY <1>1, <1>2
<1> QED
  BY <1>2, Invariant, PTL DEF Spec, WakesOnRecovery

-----------------------------------------------------------------------------
(* A worker that leaves Busy takes one away from what can still be added. *)
LEMMA BusyCount ==
    /\ IsFiniteSet(Busy) /\ Cardinality(Busy) \in Nat
    /\ Cardinality(Workers) \in Nat /\ Cardinality(Busy) <= Cardinality(Workers)
<1>1. Busy \subseteq Workers
  BY DEF Busy
<1> QED
  BY <1>1, Thresholds, FS_Subset, FS_CardinalityType

LEMMA StepCounted ==
    ASSUME TypeInv, Counted, [Next]_vars
    PROVE  Counted'
<1> USE Thresholds
<1>0. /\ IsFiniteSet(Busy) /\ Cardinality(Busy) \in Nat
      /\ Cardinality(Workers) \in Nat /\ Cardinality(Busy) <= Cardinality(Workers)
      /\ IsFiniteSet(Busy') /\ Cardinality(Busy') \in Nat
      /\ Cardinality(Busy') <= Cardinality(Workers)
  <2>1. Busy \subseteq Workers /\ Busy' \subseteq Workers
    BY DEF Busy
  <2> QED
    BY <2>1, FS_Subset, FS_CardinalityType
(* Whoever calls or is about to call and then reports: one fewer is busy. *)
<1>a. ASSUME NEW w \in Workers, worker[w] \in {"cleared", "calling"},
             worker' = [worker EXCEPT ![w] = "idle"]
      PROVE  Cardinality(Busy') = Cardinality(Busy) - 1
  <2>1. w \in Busy /\ Busy' = Busy \ {w}
    BY <1>a DEF Busy, TypeInv
  <2> QED
    BY <1>0, <2>1, FS_RemoveElement
(* Nobody else becomes busy while the gate sleeps. *)
<1>b. ASSUME Busy' = Busy, state' = state, failures' = failures
      PROVE  Counted'
  BY <1>b DEF Counted
<1>1. ASSUME NEW w \in Workers, AcquireHealthy(w)
      PROVE  Counted'
  BY <1>1 DEF AcquireHealthy, gate, Counted, TypeInv
<1>2. ASSUME NEW w \in Workers, StartProbe(w)
      PROVE  Counted'
  <2>1. Busy' = Busy
    BY <1>2 DEF StartProbe, Goto, Busy, TypeInv
  <2> QED
    BY <1>2, <2>1, <1>b DEF StartProbe
<1>3. ASSUME NEW w \in Workers, HeartbeatOk(w)
      PROVE  Counted'
  <2>1. CASE state' = "healthy"
    BY <1>3, <2>1 DEF HeartbeatOk, Wake, Counted, TypeInv
  <2>2. CASE state' # "healthy"
    <3>1. state' = state /\ failures' = failures /\ worker' = [worker EXCEPT ![w] = "idle"]
      BY <1>3, <2>2 DEF HeartbeatOk, Wake, Goto
    <3>2. Busy' = Busy
      BY <1>3, <3>1 DEF HeartbeatOk, Busy, TypeInv
    <3> QED
      BY <3>1, <3>2, <1>b
  <2> QED
    BY <2>1, <2>2
<1>4. ASSUME NEW w \in Workers, HeartbeatFail(w)
      PROVE  Counted'
  <2>1. Busy' = Busy
    BY <1>4 DEF HeartbeatFail, Goto, Busy, TypeInv
  <2> QED
    BY <1>4, <2>1, <1>b DEF HeartbeatFail
<1>5. ASSUME NEW w \in Workers, NoCall(w)
      PROVE  Counted'
  <2>1. Cardinality(Busy') = Cardinality(Busy) - 1
    BY <1>5, <1>a DEF NoCall, Goto
  <2> QED
    BY <1>0, <1>5, <2>1 DEF NoCall, gate, Counted, TypeInv
<1>6. ASSUME NEW w \in Workers, Call(w)
      PROVE  Counted'
  <2>1. Busy' = Busy
    BY <1>6 DEF Call, Goto, Busy, TypeInv
  <2> QED
    BY <1>6, <2>1, <1>b DEF Call, gate
<1>7. ASSUME NEW w \in Workers, ReportSuccess(w)
      PROVE  Counted'
  <2>1. Cardinality(Busy') = Cardinality(Busy) - 1
    BY <1>7, <1>a DEF ReportSuccess, Goto
  <2> QED
    BY <1>0, <1>7, <2>1 DEF ReportSuccess, Counted, TypeInv
<1>8. ASSUME NEW w \in Workers, ReportFailure(w)
      PROVE  Counted'
  <2>1. Cardinality(Busy') = Cardinality(Busy) - 1
    BY <1>8, <1>a DEF ReportFailure, Goto
  <2>2. failures' = failures + 1
    BY <1>8 DEF ReportFailure
  <2>3. CASE state = "healthy" /\ failures + 1 >= FailThreshold
    BY <1>0, <1>8, <2>1, <2>2, <2>3 DEF ReportFailure, Sleep, Counted, TypeInv
  <2>4. CASE ~(state = "healthy" /\ failures + 1 >= FailThreshold)
    BY <1>0, <1>8, <2>1, <2>2, <2>4 DEF ReportFailure, Counted, TypeInv
  <2> QED
    BY <2>3, <2>4
<1>9. CASE IntervalElapses
  <2>1. Busy' = Busy
    BY <1>9 DEF IntervalElapses, Busy
  <2> QED
    BY <1>9, <2>1, <1>b DEF IntervalElapses
<1>10. CASE EndpointDown
  <2>1. Busy' = Busy
    BY <1>10 DEF EndpointDown, Busy, TypeInv
  <2> QED
    BY <1>10, <2>1, <1>b DEF EndpointDown, gate
<1>11. CASE EndpointUp \/ UNCHANGED vars
  <2>1. Busy' = Busy
    BY <1>11 DEF EndpointUp, vars, Busy
  <2> QED
    BY <1>11, <2>1, <1>b DEF EndpointUp, vars, gate
<1> QED
  BY <1>1, <1>2, <1>3, <1>4, <1>5, <1>6, <1>7, <1>8, <1>9, <1>10, <1>11
     DEF Next, WorkerStep

(* Types, and the bound on report_failure's counter: a sleeping gate counts *)
(* at most one more failure for every worker but the one that tripped it.  *)
THEOREM TypeCorrect == Spec => []TypeOK
<1>1. Init => Counted
  BY Thresholds DEF Init, Counted
<1>2. ASSUME GateInv, Counted, [Next]_vars
      PROVE  Counted'
  BY <1>2, StepCounted DEF GateInv
<1>3. GateInv /\ Counted => TypeOK
  BY BusyCount, Thresholds DEF GateInv, TypeInv, Counted, TypeOK
<1> QED
  BY <1>1, <1>2, <1>3, Invariant, PTL DEF Spec

-----------------------------------------------------------------------------
(***************************************************************************)
(* Embeddings                                                              *)
(***************************************************************************)
(* Who holds a row: a described one, still processing until its worker has *)
(* finished it, and no two workers the same.                               *)
HoldersOk ==
    \A c \in Consumers : consumer[c].pc # "idle" =>
        /\ consumer[c].row \in Rows /\ consumer[c].text # 0
        /\ row[consumer[c].row].text # 0
        /\ row[consumer[c].row].status =
               IF consumer[c].pc = "finish" THEN "processing" ELSE "done"
        /\ \A d \in Consumers : consumer[d].row = consumer[c].row => d = c

FreeOk == \A c \in Consumers : consumer[c].pc = "idle" => consumer[c].row = Free

BackfillInv == EmbeddingsTypeOK /\ HoldersOk /\ FreeOk /\ MissingTried

-----------------------------------------------------------------------------
Texts == [row : Rows, text : 0 .. MaxTexts]
RowType == [status : {"pending", "processing", "done"}, text : 0 .. MaxTexts, vec : 0 .. MaxTexts]
SweepType == [pc : {"fetch", "embed", "store", "complete", "aborted"}, batch : Seq(Texts),
              skipped : SUBSET Rows, fails : Nat]

LEMMA EmbeddingsConstants ==
    /\ IsFiniteSet(Rows) /\ Poison \subseteq Rows /\ Free \notin Rows
    /\ Batch \in Nat /\ Batch > 0 /\ MaxFails \in Nat
    /\ 0 \in 0 .. MaxTexts /\ 1 \in 0 .. MaxTexts /\ MaxTexts \in Nat
    /\ MaxErrors \in Nat /\ 0 \in 0 .. MaxErrors
BY EmbeddingsAssumption

(* The rows of a page of the sweep, in some order, with their texts.       *)
LEMMA FetchedType ==
    ASSUME EmbeddingsTypeOK, NEW S \in SUBSET Rows, NEW found \in SetToSeqs(S)
    PROVE  /\ found = <<>> <=> Cardinality(S) = 0
           /\ Fetched(found) \in SweepType
           /\ Fetched(found).pc = "embed" => Fetched(found).batch # <<>>
           /\ Fetched(found).pc \in {"complete", "embed"}
           /\ Fetched(found).pc = "complete" => Cardinality(S) = 0
           /\ Fetched(found).skipped = sweep.skipped
<1>1. IsFiniteSet(S) /\ Cardinality(S) \in Nat
  BY EmbeddingsConstants, FS_Subset, FS_CardinalityType
<1> DEFINE n == Cardinality(S)
<1>2. found \in [1 .. n -> S]
  BY DEF SetToSeqs
<1> HIDE DEF n
<1>3. n \in Nat
  BY <1>1 DEF n
<1>4. found \in Seq(Rows) /\ Len(found) = n
  BY <1>2, <1>3, SeqDef
<1>5. found = <<>> <=> n = 0
  BY <1>3, <1>4, EmptySeq
<1> DEFINE batch == [i \in DOMAIN found |-> [row |-> found[i], text |-> row[found[i]].text]]
<1>6. batch \in Seq(Texts) /\ Len(batch) = n
  <2>1. DOMAIN found = 1 .. n
    BY <1>2
  <2>2. ASSUME NEW i \in 1 .. n
        PROVE  [row |-> found[i], text |-> row[found[i]].text] \in Texts
    <3>1. found[i] \in Rows
      BY <1>2
    <3> QED
      BY <3>1 DEF EmbeddingsTypeOK, Texts
  <2>3. batch = [i \in 1 .. n |-> [row |-> found[i], text |-> row[found[i]].text]]
    BY <2>1
  <2>4. batch \in [1 .. n -> Texts] /\ DOMAIN batch = 1 .. n
    BY <2>2, <2>3
  <2> HIDE DEF batch
  <2>5. batch \in Seq(Texts)
    BY <1>3, <2>4, SeqDef
  <2> QED
    BY <1>3, <2>4, <2>5, LenProperties
<1>7. n # 0 => batch # <<>>
  BY <1>6, EmptySeq
<1> HIDE DEF batch
<1>8. Fetched(found) = IF found = <<>> THEN [sweep EXCEPT !.pc = "complete"]
                       ELSE [sweep EXCEPT !.pc = "embed", !.batch = batch]
  BY DEF Fetched, batch
<1>9. sweep \in SweepType
  BY DEF EmbeddingsTypeOK, SweepType, Texts
<1>10. n = Cardinality(S)
  BY DEF n
<1> QED
  BY <1>5, <1>6, <1>7, <1>8, <1>9, <1>10 DEF SweepType

LEMMA AfterHeadType ==
    ASSUME EmbeddingsTypeOK, sweep.pc \in {"embed", "store"}
    PROVE  /\ AfterHead \in SweepType /\ AfterHead.skipped = sweep.skipped
           /\ AfterHead.pc \in {"fetch", "embed"}
           /\ AfterHead.pc = "embed" => AfterHead.batch # <<>>
           /\ Head(sweep.batch) \in Texts
<1>1. sweep.batch \in Seq(Texts) /\ sweep.batch # <<>>
  BY DEF EmbeddingsTypeOK, Texts
<1>2. Tail(sweep.batch) \in Seq(Texts) /\ Len(Tail(sweep.batch)) = Len(sweep.batch) - 1
      /\ Len(sweep.batch) \in Nat \ {0} /\ Head(sweep.batch) \in Texts
  BY <1>1, HeadTailProperties, EmptySeq
<1>3. Len(sweep.batch) # 1 => Tail(sweep.batch) # <<>>
  <2>1. Tail(sweep.batch) = <<>> => Len(Tail(sweep.batch)) = 0
    BY EmptySeq
  <2> QED
    BY <1>2, <2>1
<1> QED
  BY <1>2, <1>3 DEF AfterHead, EmbeddingsTypeOK, SweepType, Texts


LEMMA TypeShort ==
    EmbeddingsTypeOK <=>
        /\ row \in [Rows -> RowType]
        /\ consumer \in [Consumers -> [pc : {"idle", "finish", "embed", "store"},
                                       row : Rows \cup {Free}, text : 0 .. MaxTexts]]
        /\ sweep \in SweepType
        /\ sweep.pc \in {"embed", "store"} => sweep.batch # <<>>
        /\ missed \subseteq Rows /\ errors \in 0 .. MaxErrors
BY DEF EmbeddingsTypeOK, RowType, SweepType, Texts

LEMMA TypeShortNext ==
    (EmbeddingsTypeOK <=>
        /\ row \in [Rows -> RowType]
        /\ consumer \in [Consumers -> [pc : {"idle", "finish", "embed", "store"},
                                       row : Rows \cup {Free}, text : 0 .. MaxTexts]]
        /\ sweep \in SweepType
        /\ sweep.pc \in {"embed", "store"} => sweep.batch # <<>>
        /\ missed \subseteq Rows /\ errors \in 0 .. MaxErrors)'
BY TypeShort, PTL

LEMMA SweepStarts == Started \in SweepType /\ Started.pc = "fetch" /\ Idle.pc = "idle"
<1>1. <<>> \in Seq(Texts)
  BY EmptySeq
<1> QED
  BY <1>1 DEF Started, SweepType, Idle

LEMMA BackfillInitInv == EmbeddingsInit => BackfillInv
<1> SUFFICES ASSUME EmbeddingsInit PROVE BackfillInv
  OBVIOUS
<1>1. row \in [Rows -> RowType]
  BY EmbeddingsConstants
     DEF EmbeddingsInit, RowType, Undescribed, BeforeEmbeddings
<1>2. consumer \in [Consumers -> [pc : {"idle", "finish", "embed", "store"},
                                  row : Rows \cup {Free}, text : 0 .. MaxTexts]]
  BY EmbeddingsConstants DEF EmbeddingsInit, Idle
<1>3. EmbeddingsTypeOK
  BY <1>1, <1>2, TypeShort, SweepStarts, EmbeddingsConstants DEF EmbeddingsInit
<1>4. HoldersOk /\ FreeOk
  BY DEF EmbeddingsInit, HoldersOk, FreeOk, Idle
<1>5. MissingTried
  BY SweepStarts DEF EmbeddingsInit, MissingTried
<1> QED
  BY <1>3, <1>4, <1>5 DEF BackfillInv

LEMMA EmbeddingsNextType ==
    ASSUME EmbeddingsTypeOK, HoldersOk, [EmbeddingsNext]_embeddingsVars
    PROVE  EmbeddingsTypeOK'
<1> DEFINE ConsumerType == [pc : {"idle", "finish", "embed", "store"},
                            row : Rows \cup {Free}, text : 0 .. MaxTexts]
<1>0. /\ row \in [Rows -> RowType] /\ consumer \in [Consumers -> ConsumerType]
      /\ sweep \in SweepType /\ (sweep.pc \in {"embed", "store"} => sweep.batch # <<>>)
      /\ missed \subseteq Rows /\ errors \in 0 .. MaxErrors
  BY TypeShort
<1> DEFINE Typed == /\ row' \in [Rows -> RowType] /\ consumer' \in [Consumers -> ConsumerType]
                    /\ sweep' \in SweepType
                    /\ sweep'.pc \in {"embed", "store"} => sweep'.batch # <<>>
                    /\ missed' \subseteq Rows /\ errors' \in 0 .. MaxErrors
<1>1. SUFFICES Typed
  BY TypeShortNext
<1>2. Idle \in ConsumerType
  BY EmbeddingsConstants DEF Idle
<1>3. ASSUME NEW c \in Consumers, NEW r \in Rows, Describe(c, r) PROVE Typed
  <2>1. row[r].text + 1 \in 0 .. MaxTexts
    BY <1>0, <1>3, EmbeddingsConstants DEF Describe, RowType
  <2>2. row' \in [Rows -> RowType] /\ row'[r].text \in 0 .. MaxTexts
    BY <1>0, <1>3, <2>1 DEF Describe, RowType
  <2>3. consumer' \in [Consumers -> ConsumerType]
    BY <1>0, <1>3, <2>2 DEF Describe
  <2> QED
    BY <1>0, <1>3, <2>2, <2>3 DEF Describe
<1>4. ASSUME NEW c \in Consumers,
             Finish(c) \/ EmbedLive(c) \/ EmbedLiveFails(c) \/ StoreLive(c) \/ ConsumerError(c)
      PROVE  Typed
  <2>1. consumer[c].pc # "idle" /\ consumer[c].row \in Rows /\ consumer[c].text \in 0 .. MaxTexts
    BY <1>0, <1>4 DEF HoldersOk, Finish, EmbedLive, EmbedLiveFails, StoreLive, ConsumerError
  <2>2. row' \in [Rows -> RowType]
    <3>1. CASE Finish(c)
      BY <1>0, <2>1, <3>1 DEF Finish, RowType
    <3>2. CASE StoreLive(c)
      BY <1>0, <2>1, <3>2 DEF StoreLive, RowType
    <3>3. CASE UNCHANGED row
      BY <1>0, <3>3
    <3> QED
      BY <1>4, <3>1, <3>2, <3>3 DEF EmbedLive, EmbedLiveFails, ConsumerError
  <2>3. consumer' \in [Consumers -> ConsumerType]
    <3>1. CASE Finish(c) \/ EmbedLive(c)
      <4>1. PICK x \in {"embed", "store"} : consumer' = [consumer EXCEPT ![c].pc = x]
        BY <3>1 DEF Finish, EmbedLive
      <4>2. consumer[c] \in ConsumerType
        BY <1>0
      <4>3. [consumer[c] EXCEPT !.pc = x] \in ConsumerType
        BY <4>2
      <4> HIDE DEF ConsumerType
      <4> QED
        BY <1>0, <4>1, <4>3
    <3>2. CASE EmbedLiveFails(c) \/ StoreLive(c) \/ ConsumerError(c)
      <4>1. consumer' = [consumer EXCEPT ![c] = Idle]
        BY <3>2 DEF EmbedLiveFails, StoreLive, ConsumerError
      <4> HIDE DEF ConsumerType
      <4> QED
        BY <1>0, <1>2, <4>1
    <3> QED
      BY <1>4, <3>1, <3>2
  <2>4. missed' \subseteq Rows
    BY <1>0, <1>4, <2>1
       DEF Finish, EmbedLive, EmbedLiveFails, StoreLive, ConsumerError
  <2>5. errors' \in 0 .. MaxErrors
    <3>1. CASE ConsumerError(c)
      BY <1>0, <3>1, EmbeddingsConstants DEF ConsumerError
    <3>2. CASE UNCHANGED errors
      BY <1>0, <3>2
    <3> QED
      BY <1>4, <3>1, <3>2 DEF Finish, EmbedLive, EmbedLiveFails, StoreLive
  <2>6. UNCHANGED sweep
    BY <1>4 DEF Finish, EmbedLive, EmbedLiveFails, StoreLive, ConsumerError
  <2> QED
    BY <1>0, <2>2, <2>3, <2>4, <2>5, <2>6
<1>5. ASSUME NEW r \in Rows, ReclaimRow(r) PROVE Typed
  <2>1. row' \in [Rows -> RowType]
    BY <1>0, <1>5 DEF ReclaimRow, RowType
  <2> QED
    BY <1>0, <1>5, <2>1 DEF ReclaimRow
<1>6. CASE Fetch
  <2>1. PICK S \in SUBSET (Missing \ sweep.skipped) :
           \E found \in SetToSeqs(S) : sweep' = Fetched(found)
    BY <1>6 DEF Fetch
  <2>2. S \in SUBSET Rows
    BY DEF Missing
  <2>3. sweep' \in SweepType /\ (sweep'.pc \in {"embed", "store"} => sweep'.batch # <<>>)
    BY <2>1, <2>2, FetchedType
  <2> QED
    BY <1>0, <1>6, <2>3 DEF Fetch
<1>7. CASE FetchFails
  BY <1>0, <1>7, EmbeddingsConstants DEF FetchFails, SweepType
<1>8. CASE EmbedNext
  BY <1>0, <1>8 DEF EmbedNext, SweepType
<1>9. CASE EmbedNextFails
  <2> DEFINE fails == sweep.fails + 1
             after == [AfterHead EXCEPT !.skipped = @ \cup {Head(sweep.batch).row}, !.fails = fails]
  <2>1. Head(sweep.batch).row \in Rows /\ fails \in Nat
    BY <1>0, <1>9, AfterHeadType DEF EmbedNextFails, Texts, SweepType
  <2>2. after \in SweepType /\ after.pc \in {"fetch", "embed"} /\ after.batch = AfterHead.batch
        /\ after.pc = AfterHead.pc
    BY <1>9, <2>1, AfterHeadType DEF EmbedNextFails, SweepType
  <2>3. after.pc = "embed" => after.batch # <<>>
    BY <1>9, <2>2, AfterHeadType DEF EmbedNextFails
  <2>4. sweep' = IF fails >= MaxFails THEN [after EXCEPT !.pc = "aborted"] ELSE after
    BY <1>9 DEF EmbedNextFails
  <2> HIDE DEF after, fails
  <2>5. sweep' \in SweepType /\ (sweep'.pc \in {"embed", "store"} => sweep'.batch # <<>>)
    BY <2>2, <2>3, <2>4 DEF SweepType
  <2> QED
    BY <1>0, <1>9, <2>5 DEF EmbedNextFails
<1>10. CASE StoreNext
  <2>1. Head(sweep.batch) \in Texts /\ AfterHead \in SweepType
        /\ AfterHead.pc \in {"fetch", "embed"}
        /\ (AfterHead.pc = "embed" => AfterHead.batch # <<>>)
    BY <1>10, AfterHeadType DEF StoreNext
  <2>2. sweep' \in SweepType /\ (sweep'.pc \in {"embed", "store"} => sweep'.batch # <<>>)
    BY <1>10, <2>1 DEF StoreNext, SweepType
  <2>3. row' \in [Rows -> RowType]
    BY <1>0, <1>10, <2>1 DEF StoreNext, RowType, Texts
  <2> QED
    BY <1>0, <1>10, <2>2, <2>3 DEF StoreNext
<1>11. CASE RestartSweep
  BY <1>0, <1>2, <1>11, SweepStarts, EmbeddingsConstants DEF RestartSweep
<1>12. CASE UNCHANGED embeddingsVars
  BY <1>0, <1>12 DEF embeddingsVars
<1> QED
  BY <1>3, <1>4, <1>5, <1>6, <1>7, <1>8, <1>9, <1>10, <1>11, <1>12 DEF EmbeddingsNext

LEMMA HoldersNext ==
    ASSUME EmbeddingsTypeOK, HoldersOk, FreeOk, [EmbeddingsNext]_embeddingsVars
    PROVE  HoldersOk' /\ FreeOk'
<1>0. /\ row \in [Rows -> RowType]
      /\ consumer \in [Consumers -> [pc : {"idle", "finish", "embed", "store"},
                                     row : Rows \cup {Free}, text : 0 .. MaxTexts]]
      /\ Free \notin Rows
  BY TypeShort, EmbeddingsConstants
<1>1. ASSUME UNCHANGED <<row, consumer>> PROVE HoldersOk' /\ FreeOk'
  BY <1>1 DEF HoldersOk, FreeOk
<1>2. ASSUME NEW c \in Consumers, consumer' = [consumer EXCEPT ![c] = Idle], UNCHANGED row
      PROVE  HoldersOk' /\ FreeOk'
  BY <1>0, <1>2 DEF HoldersOk, FreeOk, Idle
<1>3. ASSUME NEW c \in Consumers, NEW r \in Rows, Describe(c, r) PROVE HoldersOk' /\ FreeOk'
  <2>1. /\ row[r].status = "pending" /\ row[r].text + 1 # 0 /\ consumer[c].pc = "idle"
        /\ \A s \in Rows \ {r} : row'[s] = row[s]
        /\ row'[r].status = "processing" /\ row'[r].text = row[r].text + 1
        /\ consumer'[c] = [pc |-> "finish", row |-> r, text |-> row'[r].text]
        /\ \A d \in Consumers \ {c} : consumer'[d] = consumer[d]
    BY <1>0, <1>3, SweepStarts, EmbeddingsConstants DEF Describe, RowType, Idle
  <2>2. \A d \in Consumers : consumer[d].row # r
    BY <1>0, <2>1 DEF HoldersOk, FreeOk
  <2> QED
    BY <1>0, <2>1, <2>2 DEF HoldersOk, FreeOk
<1>4. ASSUME NEW c \in Consumers, Finish(c) PROVE HoldersOk' /\ FreeOk'
  <2>1. /\ consumer[c].row \in Rows
        /\ \A s \in Rows : s # consumer[c].row => row'[s] = row[s]
        /\ row'[consumer[c].row].status = "done"
        /\ row'[consumer[c].row].text = row[consumer[c].row].text
        /\ consumer'[c].pc = "embed" /\ consumer'[c].row = consumer[c].row
        /\ consumer'[c].text = consumer[c].text
        /\ \A d \in Consumers \ {c} : consumer'[d] = consumer[d]
        /\ consumer[c].pc = "finish"
    BY <1>0, <1>4 DEF Finish, HoldersOk, RowType
  <2> QED
    BY <1>0, <2>1 DEF HoldersOk, FreeOk
<1>5. ASSUME NEW c \in Consumers, EmbedLive(c) PROVE HoldersOk' /\ FreeOk'
  <2>1. /\ consumer'[c].pc = "store" /\ consumer'[c].row = consumer[c].row
        /\ consumer'[c].text = consumer[c].text
        /\ \A d \in Consumers \ {c} : consumer'[d] = consumer[d]
        /\ consumer[c].pc = "embed" /\ UNCHANGED row
    BY <1>0, <1>5 DEF EmbedLive
  <2> QED
    BY <1>0, <2>1 DEF HoldersOk, FreeOk
<1>6. ASSUME NEW c \in Consumers, EmbedLiveFails(c) \/ ConsumerError(c)
      PROVE  HoldersOk' /\ FreeOk'
  BY <1>2, <1>6 DEF EmbedLiveFails, ConsumerError
<1>7. ASSUME NEW r \in Rows, NEW v, row' = [row EXCEPT ![r].vec = v],
             \/ UNCHANGED consumer
             \/ \E c \in Consumers : consumer' = [consumer EXCEPT ![c] = Idle]
      PROVE  HoldersOk' /\ FreeOk'
  <2>1. \A s \in Rows : row'[s].status = row[s].status /\ row'[s].text = row[s].text
    BY <1>0, <1>7 DEF RowType
  <2>2. \A d \in Consumers : consumer'[d] = consumer[d] \/ consumer'[d] = Idle
    BY <1>0, <1>7
  <2> QED
    BY <1>0, <2>1, <2>2 DEF HoldersOk, FreeOk, Idle
<1>8. ASSUME NEW c \in Consumers, StoreLive(c) PROVE HoldersOk' /\ FreeOk'
  <2>1. consumer[c].row \in Rows
    BY <1>8 DEF StoreLive, HoldersOk
  <2> QED
    BY <1>7, <1>8, <2>1 DEF StoreLive
<1>9. ASSUME NEW r \in Rows, ReclaimRow(r) PROVE HoldersOk' /\ FreeOk'
  <2>1. \A d \in Consumers : consumer[d].pc # "idle" => consumer[d].row # r
    BY <1>0, <1>9 DEF ReclaimRow, Held, HoldersOk
  <2>2. \A s \in Rows \ {r} : row'[s] = row[s]
    BY <1>0, <1>9 DEF ReclaimRow
  <2> QED
    BY <1>0, <1>9, <2>1, <2>2 DEF ReclaimRow, HoldersOk, FreeOk
<1>10. CASE StoreNext
  <2>1. Head(sweep.batch).row \in Rows
    BY <1>10, AfterHeadType DEF StoreNext, Texts
  <2> QED
    BY <1>7, <1>10, <2>1 DEF StoreNext
<1>11. CASE RestartSweep
  BY <1>11 DEF RestartSweep, HoldersOk, FreeOk, Idle
<1>12. CASE \/ Fetch \/ FetchFails \/ EmbedNext \/ EmbedNextFails \/ UNCHANGED embeddingsVars
  BY <1>1, <1>12 DEF Fetch, FetchFails, EmbedNext, EmbedNextFails, embeddingsVars
<1> QED
  BY <1>3, <1>4, <1>5, <1>6, <1>8, <1>9, <1>10, <1>11, <1>12 DEF EmbeddingsNext

(* The sweep completes only when every row it could still embed is one     *)
(* that it skipped; whatever changes a row after that leaves the row with  *)
(* its embedding, in the hands of its worker, or among the missed.         *)
LEMMA MissingTriedNext ==
    ASSUME BackfillInv, EmbeddingsTypeOK', [EmbeddingsNext]_embeddingsVars
    PROVE  MissingTried'
<1> USE DEF BackfillInv
<1>0. /\ row \in [Rows -> RowType]
      /\ consumer \in [Consumers -> [pc : {"idle", "finish", "embed", "store"},
                                     row : Rows \cup {Free}, text : 0 .. MaxTexts]]
      /\ sweep \in SweepType /\ Free \notin Rows
  BY TypeShort, EmbeddingsConstants
<1> SUFFICES ASSUME sweep'.pc = "complete", NEW r \in Rows,
                    row'[r].text # 0, row'[r].vec = 0, row'[r].status = "done"
             PROVE  r \in sweep'.skipped \cup missed' \cup Held'
  BY DEF MissingTried, Missing
<1>1. ASSUME sweep.pc = "complete", UNCHANGED sweep,
             row[r].text # 0 => (row[r].status = "done" => row[r].vec = 0)
      PROVE  row[r].text # 0 /\ row[r].status = "done" =>
                 r \in sweep'.skipped \cup missed \cup Held
  BY <1>1 DEF MissingTried, Missing
<1>2. ASSUME NEW c \in Consumers, consumer'[c].row = r PROVE r \in Held'
  BY <1>0, <1>2 DEF Held
<1>3. ASSUME NEW c \in Consumers, consumer' = [consumer EXCEPT ![c] = Idle],
             r \in Held, r # consumer[c].row
      PROVE  r \in Held'
  <2>1. PICK d \in Consumers : consumer[d].row = r
    BY <1>3 DEF Held
  <2>2. consumer'[d].row = r
    BY <1>0, <1>3, <2>1
  <2> QED
    BY <1>2, <2>2
<1>4. ASSUME NEW c \in Consumers, NEW s \in Rows, Describe(c, s)
      PROVE  r \in sweep'.skipped \cup missed' \cup Held'
  <2>1. /\ UNCHANGED <<sweep, missed>> /\ row'[s].status = "processing"
        /\ consumer[c].row = Free
        /\ \A d \in Consumers \ {c} : consumer'[d] = consumer[d]
        /\ \A t \in Rows \ {s} : row'[t] = row[t]
    BY <1>0, <1>4 DEF Describe, RowType, Idle
  <2>2. r \in sweep'.skipped \cup missed' \cup Held
    BY <1>1, <2>1
  <2>3. r \in Held => r \in Held'
    <3>1. ASSUME r \in Held PROVE r \in Held'
      <4>1. PICK d \in Consumers : consumer[d].row = r
        BY <3>1 DEF Held
      <4> QED
        BY <1>0, <1>2, <2>1, <4>1
    <3> QED
      BY <3>1
  <2> QED
    BY <2>2, <2>3
<1>5. ASSUME NEW c \in Consumers, Finish(c)
      PROVE  r \in sweep'.skipped \cup missed' \cup Held'
  <2>1. /\ UNCHANGED <<sweep, missed>>
        /\ \A d \in Consumers : consumer'[d].row = consumer[d].row
        /\ \A t \in Rows : t # consumer[c].row => row'[t] = row[t]
    BY <1>0, <1>5 DEF Finish
  <2>2. CASE r = consumer[c].row
    BY <1>2, <2>1, <2>2
  <2>3. CASE r # consumer[c].row
    BY <1>1, <2>1, <2>3 DEF Held
  <2> QED
    BY <2>2, <2>3
<1>6. ASSUME NEW c \in Consumers, EmbedLive(c)
      PROVE  r \in sweep'.skipped \cup missed' \cup Held'
  <2>1. /\ UNCHANGED <<sweep, missed, row>>
        /\ \A d \in Consumers : consumer'[d].row = consumer[d].row
    BY <1>0, <1>6 DEF EmbedLive
  <2> QED
    BY <1>1, <2>1 DEF Held
<1>7. ASSUME NEW c \in Consumers, EmbedLiveFails(c) \/ ConsumerError(c)
      PROVE  r \in sweep'.skipped \cup missed' \cup Held'
  <2>1. /\ UNCHANGED <<sweep, row>> /\ consumer' = [consumer EXCEPT ![c] = Idle]
        /\ missed \subseteq missed'
    BY <1>7 DEF EmbedLiveFails, ConsumerError
  <2>2. r \in sweep'.skipped \cup missed \cup Held
    BY <1>1, <2>1
  <2>3. CASE r = consumer[c].row
    BY <1>0, <1>7, <2>1, <2>3 DEF EmbedLiveFails, ConsumerError, HoldersOk
  <2>4. CASE r # consumer[c].row
    BY <1>3, <2>1, <2>2, <2>4
  <2> QED
    BY <2>3, <2>4
<1>8. ASSUME NEW c \in Consumers, StoreLive(c)
      PROVE  r \in sweep'.skipped \cup missed' \cup Held'
  <2>1. /\ UNCHANGED <<sweep, missed>> /\ consumer' = [consumer EXCEPT ![c] = Idle]
        /\ consumer[c].row \in Rows /\ consumer[c].text # 0
        /\ row'[consumer[c].row].vec = consumer[c].text
        /\ \A t \in Rows : t # consumer[c].row => row'[t] = row[t]
    BY <1>0, <1>8 DEF StoreLive, HoldersOk, RowType
  <2>2. r # consumer[c].row
    BY <2>1
  <2>3. r \in sweep'.skipped \cup missed \cup Held
    BY <1>1, <2>1, <2>2
  <2> QED
    BY <1>3, <2>1, <2>2, <2>3
<1>9. ASSUME NEW s \in Rows, ReclaimRow(s)
      PROVE  r \in sweep'.skipped \cup missed' \cup Held'
  <2>1. /\ UNCHANGED <<sweep, missed, consumer>> /\ row'[s].status = "pending"
        /\ \A t \in Rows : t # s => row'[t] = row[t]
    BY <1>0, <1>9 DEF ReclaimRow, RowType
  <2> QED
    BY <1>1, <2>1 DEF Held
<1>10. CASE Fetch
  <2>1. PICK S \in SUBSET (Missing \ sweep.skipped) :
           /\ Cardinality(S) = Smaller(Batch, Cardinality(Missing \ sweep.skipped))
           /\ \E found \in SetToSeqs(S) : sweep' = Fetched(found)
    BY <1>10 DEF Fetch
  <2>2. S \in SUBSET Rows
    BY DEF Missing
  <2>3. Cardinality(S) = 0 /\ sweep'.skipped = sweep.skipped
    BY <2>1, <2>2, FetchedType
  <2>4. IsFiniteSet(Missing \ sweep.skipped) /\ Cardinality(Missing \ sweep.skipped) \in Nat
    BY EmbeddingsConstants, FS_Subset, FS_CardinalityType DEF Missing
  <2>5. Cardinality(Missing \ sweep.skipped) = 0
    BY <2>1, <2>3, <2>4, EmbeddingsConstants DEF Smaller
  <2>6. Missing \ sweep.skipped = {}
    BY <2>4, <2>5, FS_EmptySet
  <2>7. r \in Missing
    BY <1>10 DEF Missing, Fetch
  <2> QED
    BY <2>3, <2>6, <2>7
<1>11. CASE FetchFails \/ EmbedNext \/ RestartSweep
  BY <1>0, <1>11 DEF FetchFails, EmbedNext, RestartSweep, Started, SweepType
<1>12. CASE EmbedNextFails
  <2>1. AfterHead \in SweepType /\ AfterHead.pc # "complete"
    BY <1>12, AfterHeadType DEF EmbedNextFails
  <2> QED
    BY <1>12, <2>1 DEF EmbedNextFails, SweepType
<1>13. CASE StoreNext
  <2>1. AfterHead \in SweepType /\ AfterHead.pc # "complete"
    BY <1>13, AfterHeadType DEF StoreNext
  <2> QED
    BY <1>13, <2>1 DEF StoreNext, SweepType
<1>14. CASE UNCHANGED embeddingsVars
  BY <1>1, <1>14 DEF embeddingsVars, Held
<1> QED
  BY <1>4, <1>5, <1>6, <1>7, <1>8, <1>9, <1>10, <1>11, <1>12, <1>13, <1>14 DEF EmbeddingsNext

LEMMA BackfillNextInv == BackfillInv /\ [EmbeddingsNext]_embeddingsVars => BackfillInv'
BY EmbeddingsNextType, HoldersNext, MissingTriedNext DEF BackfillInv

(* The rows, the workers and the sweep's local variables keep their types: *)
(* a batch that is being embedded or stored is never empty.                *)
THEOREM EmbeddingsTypeCorrect == EmbeddingsSpec => []EmbeddingsTypeOK
<1>1. BackfillInv => EmbeddingsTypeOK
  BY DEF BackfillInv
<1> QED
  BY <1>1, BackfillInitInv, BackfillNextInv, PTL DEF EmbeddingsSpec

(* However the backfill's awaits interleave with workers that describe,    *)
(* fail and embed, no row that _backfill_embeddings has passed is left     *)
(* without an embedding unless it was tried and refused: the id it pages by*)
(* never jumps over one.                                                   *)
THEOREM BackfillComplete == EmbeddingsSpec => []MissingTried
<1>1. BackfillInv => MissingTried
  BY DEF BackfillInv
<1> QED
  BY <1>1, BackfillInitInv, BackfillNextInv, PTL DEF EmbeddingsSpec

-----------------------------------------------------------------------------
(***************************************************************************)
(* Summaries                                                               *)
(***************************************************************************)
(* What a rebuild of row k would write at this moment. *)
Below(k, field) == IF k.grain = 0 THEN Contents(k) ELSE FromChildren(k, field)

(* The loops work on rows of the pyramid: a stage of the builder on rows   *)
(* of its grain, the narrator on rows whose window has closed.             *)
Staged ==
    /\ \A k \in builder.todo : k.grain = builder.grain
    /\ builder.pc \in {"hash", "upsert"} => builder.row \in Keys
    /\ builder.pc = "hash" => builder.row.grain = 0
    /\ \A k \in narrator.todo : End(k) <= narrator.now
    /\ narrator.pc \in {"children", "context", "save"} => narrator.row \in Keys
    /\ narrator.pc = "children" => narrator.row \in narrator.todo

(* No row counts more than what it is built from. *)
Grounded ==
    \A k \in Keys : /\ AtLeast(Below(k, "metrics"), rows[k].metrics)
                    /\ AtLeast(Below(k, "hash"), rows[k].hash)

(* What the builder has in hand lies between the row and what it is built  *)
(* from.                                                                   *)
InHand ==
    /\ builder.pc \in {"hash", "upsert"} =>
           /\ AtLeast(builder.metrics, rows[builder.row].metrics)
           /\ AtLeast(Below(builder.row, "metrics"), builder.metrics)
    /\ builder.pc = "upsert" =>
           /\ AtLeast(builder.hash, rows[builder.row].hash)
           /\ AtLeast(Below(builder.row, "hash"), builder.hash)

MetricsInv == SummariesTypeOK /\ Staged /\ Grounded /\ InHand

-----------------------------------------------------------------------------
LEMMA KeyOf ==
    ASSUME NEW s \in Scopes, NEW g \in Grains, NEW f \in Frames
    PROVE  /\ Row(s, g, LeafOf[f]) \in Keys
           /\ Row(s, g, LeafOf[f]).scope = s /\ Row(s, g, LeafOf[f]).grain = g
           /\ Row(s, g, LeafOf[f]).start = StartOf(LeafOf[f], g)
<1> DEFINE x == <<s, g, f>>
<1>1. x \in Scopes \X Grains \X Frames /\ x[1] = s /\ x[2] = g /\ x[3] = f
  OBVIOUS
<1>2. Row(s, g, LeafOf[f]) = Row(x[1], x[2], LeafOf[x[3]])
  BY <1>1
<1> QED
  BY <1>1, <1>2 DEF Keys, Row

LEMMA KeyIs ==
    ASSUME NEW k \in Keys
    PROVE  \E s \in Scopes, g \in Grains, f \in Frames :
              /\ k = Row(s, g, LeafOf[f])
              /\ k.scope = s /\ k.grain = g /\ k.start = StartOf(LeafOf[f], g)
<1>1. PICK x \in Scopes \X Grains \X Frames : k = Row(x[1], x[2], LeafOf[x[3]])
  BY DEF Keys
<1>2. x[1] \in Scopes /\ x[2] \in Grains /\ x[3] \in Frames
  BY <1>1
<1> QED
  BY <1>1, <1>2 DEF Row

(* Two rows of a scope and grain whose windows start together are one. *)
LEMMA SameKey ==
    ASSUME NEW k \in Keys, NEW c \in Keys,
           k.scope = c.scope, k.grain = c.grain, k.start = c.start
    PROVE  k = c
<1>1. PICK s \in Scopes, g \in Grains, f \in Frames :
         k = Row(s, g, LeafOf[f])
         /\ k.scope = s /\ k.grain = g /\ k.start = StartOf(LeafOf[f], g)
  BY KeyIs
<1>2. PICK t \in Scopes, h \in Grains, e \in Frames :
         c = Row(t, h, LeafOf[e])
         /\ c.scope = t /\ c.grain = h /\ c.start = StartOf(LeafOf[e], h)
  BY KeyIs
<1> QED
  BY <1>1, <1>2 DEF Row

LEMMA Constants ==
    /\ IsFiniteSet(Frames) /\ LeafOf \in [Frames -> Nat]
    /\ DeviceOf \in [Frames -> Devices] /\ Global \notin Devices
    /\ Top \in Nat /\ Size \in [Grains -> Nat \ {0}]
    /\ Lookback \in Nat /\ NarrateLookback \in Nat /\ Limit \in Nat \ {0} /\ Overfetch \in Nat \ {0}
    /\ MaxTime \in Nat /\ Changes \in [Frames -> Nat] /\ MaxFaults \in Nat
    /\ \A g \in 1..Top, f \in Frames :
          /\ StartOf(StartOf(LeafOf[f], g - 1), g) = StartOf(LeafOf[f], g)
          /\ StartOf(LeafOf[f], g - 1) + Size[g - 1] <= StartOf(LeafOf[f], g) + Size[g]
BY SummariesAssumption

LEMMA StartInt ==
    ASSUME NEW g \in Grains, NEW f \in Frames
    PROVE  StartOf(LeafOf[f], g) \in Int /\ Size[g] \in Nat /\ Size[g] > 0
BY Constants DEF StartOf

(* The row one grain below in which row k finds frame f. *)
Child(k, f) == Row(k.scope, k.grain - 1, LeafOf[f])

LEMMA ChildOf ==
    ASSUME NEW k \in Keys, k.grain # 0, NEW f \in Frames, Covers(k, f)
    PROVE  /\ Child(k, f) \in Keys /\ Child(k, f) # k
           /\ Child(k, f).scope = k.scope /\ Child(k, f).grain = k.grain - 1
           /\ StartOf(Child(k, f).start, k.grain) = k.start
           /\ Covers(Child(k, f), f) /\ End(Child(k, f)) <= End(k)
<1>1. PICK s \in Scopes, g \in Grains, e \in Frames :
         k = Row(s, g, LeafOf[e])
         /\ k.scope = s /\ k.grain = g /\ k.start = StartOf(LeafOf[e], g)
  BY KeyIs
<1>2. g \in 1..Top /\ g - 1 \in Grains /\ g - 1 # g
  BY <1>1, Constants DEF Grains
<1>3. /\ Child(k, f) \in Keys /\ Child(k, f).scope = k.scope
      /\ Child(k, f).grain = k.grain - 1 /\ Child(k, f).start = StartOf(LeafOf[f], g - 1)
  BY <1>1, <1>2, KeyOf DEF Child
<1>4. StartOf(LeafOf[f], g) = k.start /\ InScope(f, k.scope)
  BY <1>1 DEF Covers
<1>5. Covers(Child(k, f), f)
  BY <1>1, <1>3, <1>4 DEF Covers
<1>6. StartOf(Child(k, f).start, k.grain) = k.start
  BY <1>1, <1>2, <1>3, <1>4, Constants
<1>7. End(Child(k, f)) <= End(k)
  BY <1>1, <1>2, <1>3, <1>4, Constants DEF End
<1> QED
  BY <1>1, <1>2, <1>3, <1>5, <1>6, <1>7

-----------------------------------------------------------------------------
LEMMA NothingType == Nothing \in Contained /\ \A f \in Frames : Nothing[f] = 0
BY DEF Nothing, Contained

LEMMA ContentsType ==
    ASSUME SummariesTypeOK, NEW k \in Keys
    PROVE  /\ Contents(k) \in Contained
           /\ \A f \in Frames : Contents(k)[f] = IF Covers(k, f) THEN version[f] ELSE 0
BY DEF SummariesTypeOK, Contained, Contents

LEMMA FieldType ==
    ASSUME SummariesTypeOK, NEW k \in Keys, NEW field \in {"metrics", "hash", "told"}
    PROVE  rows[k][field] \in Contained
BY DEF SummariesTypeOK

LEMMA FromChildrenType ==
    ASSUME SummariesTypeOK, NEW k \in Keys, k.grain # 0,
           NEW field \in {"metrics", "hash", "told"}
    PROVE  /\ FromChildren(k, field) \in Contained
           /\ \A f \in Frames : FromChildren(k, field)[f] =
                 IF Covers(k, f) THEN rows[Child(k, f)][field][f] ELSE 0
<1>1. ASSUME NEW f \in Frames, Covers(k, f)
      PROVE  rows[Child(k, f)][field][f] \in Nat
  <2>1. rows[Child(k, f)][field] \in Contained
    BY <1>1, ChildOf, FieldType
  <2> QED
    BY <2>1 DEF Contained
<1>2. FromChildren(k, field) =
        [f \in Frames |-> IF Covers(k, f) THEN rows[Child(k, f)][field][f] ELSE 0]
  BY DEF FromChildren, Child
<1> QED
  BY <1>1, <1>2 DEF Contained

(* The device row in which row k finds frame f. *)
Source(k, f) == Row(DeviceOf[f], k.grain, LeafOf[f])

LEMMA SourceOf ==
    ASSUME NEW k \in Keys, NEW f \in Frames
    PROVE  /\ Source(k, f) \in Keys /\ Source(k, f).scope # Global
           /\ Source(k, f).grain = k.grain
           /\ Covers(k, f) => Source(k, f).start = k.start
<1>1. k.grain \in Grains
  BY KeyIs
<1>2. DeviceOf[f] \in Scopes /\ DeviceOf[f] # Global
  BY Constants DEF Scopes
<1> QED
  BY <1>1, <1>2, KeyOf DEF Source, Covers

LEMMA FromDevicesType ==
    ASSUME SummariesTypeOK, NEW k \in Keys
    PROVE  /\ FromDevices(k) \in Contained
           /\ \A f \in Frames : FromDevices(k)[f] =
                 IF Covers(k, f) THEN rows[Source(k, f)].told[f] ELSE 0
<1>1. k.grain \in Grains
  BY KeyIs
<1>2. ASSUME NEW f \in Frames
      PROVE  rows[Source(k, f)].told[f] \in Nat
  <2>1. Source(k, f) \in Keys
    BY <1>1, SourceOf
  <2> QED
    BY <2>1 DEF SummariesTypeOK, Contained
<1>3. FromDevices(k) =
        [f \in Frames |-> IF Covers(k, f) THEN rows[Source(k, f)].told[f] ELSE 0]
  BY DEF FromDevices, Source
<1> QED
  BY <1>2, <1>3 DEF Contained

LEMMA BelowType ==
    ASSUME SummariesTypeOK, NEW k \in Keys, NEW field \in {"metrics", "hash"}
    PROVE  /\ Below(k, field) \in Contained
           /\ \A f \in Frames : ~Covers(k, f) => Below(k, field)[f] = 0
<1>1. CASE k.grain = 0
  BY <1>1, ContentsType DEF Below
<1>2. CASE k.grain # 0
  BY <1>2, FromChildrenType DEF Below
<1> QED
  BY <1>1, <1>2

LEMMA BelowTypes ==
    SummariesTypeOK =>
        \A k \in Keys, field \in {"metrics", "hash"} : Below(k, field) \in Contained
BY BelowType

LEMMA BelowTypesNext ==
    (SummariesTypeOK =>
        \A k \in Keys, field \in {"metrics", "hash"} : Below(k, field) \in Contained)'
BY BelowTypes, PTL

(* The rows that a stage of the builder goes through are of its grain. *)
LEMMA TouchedType ==
    ASSUME NEW scopes \in SUBSET Scopes, NEW g \in Grains, NEW from, NEW to
    PROVE  /\ Touched(scopes, g, from, to) \subseteq Keys
           /\ \A k \in Touched(scopes, g, from, to) : k.grain = g
<1>1. CASE g = 0
  <2> SUFFICES ASSUME NEW k \in Touched(scopes, g, from, to)
               PROVE  k \in Keys /\ k.grain = g
    OBVIOUS
  <2>1. PICK x \in scopes \X Frames : k = Row(x[1], 0, LeafOf[x[2]])
    BY <1>1 DEF Touched
  <2>2. x[1] \in Scopes /\ x[2] \in Frames
    BY <2>1
  <2> QED
    BY <1>1, <2>1, <2>2, KeyOf
<1>2. CASE g # 0
  <2> SUFFICES ASSUME NEW k \in Touched(scopes, g, from, to)
               PROVE  k \in Keys /\ k.grain = g
    OBVIOUS
  <2>1. PICK c \in Keys : c.grain = g - 1 /\ k = Row(c.scope, g, c.start)
    BY <1>2 DEF Touched
  <2>2. PICK s \in Scopes, h \in Grains, f \in Frames :
           c.scope = s /\ c.grain = h /\ c.start = StartOf(LeafOf[f], h)
    BY KeyIs
  <2>3. g \in 1..Top /\ h = g - 1
    BY <1>2, <2>1, <2>2, Constants DEF Grains
  <2>4. StartOf(c.start, g) = StartOf(LeafOf[f], g)
    BY <2>2, <2>3, Constants
  <2>5. k = Row(s, g, LeafOf[f])
    BY <2>1, <2>2, <2>4 DEF Row
  <2> QED
    BY <2>5, KeyOf
<1> QED
  BY <1>1, <1>2

LEMMA Bounds == 0 \in 0..MaxTime /\ 0 \in 0..MaxFaults /\ 0 \in Grains
BY Constants DEF Grains

LEMMA BuilderStage ==
    ASSUME NEW scopes \in SUBSET Scopes, NEW g \in Grains, NEW from \in Int, NEW to \in Int,
           Stage(scopes, g, from, to)
    PROVE  /\ builder' \in BuilderState /\ builder'.pc = "row" /\ builder'.grain = g
           /\ builder'.todo = Touched(scopes, g, from, to)
           /\ \A k \in builder'.todo : k.grain = builder'.grain
<1>1. builder' = [pc |-> "row", grain |-> g, scopes |-> scopes, from |-> from, to |-> to,
           todo |-> Touched(scopes, g, from, to), row |-> NoRow,
           metrics |-> Nothing, hash |-> Nothing]
  BY DEF IdleBuilder, Stage
<1> QED
  BY <1>1, TouchedType, NothingType DEF BuilderState

LEMMA IdleTypes == IdleBuilder \in BuilderState /\ IdleNarrator \in NarratorState
BY NothingType, Bounds DEF IdleBuilder, IdleNarrator, BuilderState, NarratorState, Scopes

LEMMA FirstOf == ASSUME NEW keys, NEW k \in First(keys) PROVE k \in keys
BY DEF First

LEMMA NextRowType ==
    ASSUME SummariesTypeOK, NEW k, NextRow(k)
    PROVE  narrator' \in NarratorState /\ narrator'.pc = "row"
BY NothingType DEF SummariesTypeOK, NextRow, NarratorState

LEMMA NarrateStageType ==
    ASSUME NEW stage \in {"global", "devices"}, NEW g \in Grains, NEW t \in 0..MaxTime,
           NarrateStage(stage, g, t)
    PROVE  /\ narrator' \in NarratorState /\ narrator'.pc = "row" /\ narrator'.now = t
           /\ \A k \in narrator'.todo : End(k) <= t
<1>1. ASSUME NEW scopes
      PROVE  /\ Pending(scopes, g, t) \subseteq Keys
             /\ \A k \in Pending(scopes, g, t) : End(k) <= t
  BY DEF Pending
<1>2. PICK picked \in Picks(stage, g, t) :
         narrator' = [IdleNarrator EXCEPT !.pc = "row", !.stage = stage, !.grain = g,
                                          !.now = t, !.todo = picked]
  BY DEF NarrateStage
<1>3. picked \subseteq Pending(Devices, g, t) \/ picked \subseteq Pending({Global}, g, t)
  <2>1. CASE stage = "devices"
    <3>1. PICK fetched \in Oldest(Pending(Devices, g, t), Overfetch * Limit) :
             picked \in RoundRobin(fetched)
      BY <1>2, <2>1 DEF Picks
    <3>2. picked \subseteq fetched /\ fetched \subseteq Pending(Devices, g, t)
      BY <3>1 DEF RoundRobin, Oldest
    <3> QED
      BY <3>2
  <2>2. CASE stage # "devices"
    BY <1>2, <2>2 DEF Picks, Oldest
  <2> QED
    BY <2>1, <2>2
<1>4. picked \in SUBSET Keys /\ \A k \in picked : End(k) <= t
  BY <1>1, <1>3
<1> QED
  BY <1>2, <1>4, IdleTypes DEF IdleNarrator, NarratorState

LEMMA SummariesInitType == SummariesInit => SummariesTypeOK /\ Staged
BY NothingType, IdleTypes, Bounds
   DEF SummariesInit, SummariesTypeOK, Staged, IdleBuilder, IdleNarrator

LEMMA SummariesNextType ==
    SummariesTypeOK /\ Staged /\ [SummariesNext]_summariesVars => SummariesTypeOK'
<1> SUFFICES ASSUME SummariesTypeOK, Staged, [SummariesNext]_summariesVars
             PROVE  SummariesTypeOK'
  OBVIOUS
<1>1. CASE Tick
  BY <1>1, Constants DEF Tick, SummariesTypeOK, BuilderState, NarratorState
<1>2. ASSUME NEW f \in Frames, FrameChanges(f) PROVE SummariesTypeOK'
  BY <1>2 DEF FrameChanges, SummariesTypeOK, Contained
<1>3. CASE StartTick
  <2>1. now - Lookback \in Int /\ now \in Int /\ {Global} \in SUBSET Scopes
    BY Constants DEF SummariesTypeOK, Scopes
  <2>2. builder' \in BuilderState
    BY <1>3, <2>1, Bounds, BuilderStage DEF StartTick
  <2> QED
    BY <1>3, <2>2 DEF StartTick, SummariesTypeOK
<1>4. CASE NextStage
  <2>1. /\ builder.scopes \in SUBSET Scopes /\ builder.from \in Int /\ builder.to \in Int
        /\ builder.grain \in Grains /\ Devices \in SUBSET Scopes
    BY DEF SummariesTypeOK, BuilderState, Scopes
  <2>2. builder.grain < Top => builder.grain + 1 \in Grains
    BY <2>1, Constants DEF Grains
  <2>3. builder' \in BuilderState
    <3>1. CASE builder.grain < Top
      <4>1. Stage(builder.scopes, builder.grain + 1, builder.from, builder.to)
        BY <1>4, <3>1 DEF NextStage
      <4> QED
        BY <2>1, <2>2, <3>1, <4>1, BuilderStage
    <3>2. CASE ~(builder.grain < Top) /\ pyramid /\ builder.scopes = {Global}
      <4>1. Stage(Devices, 0, builder.from, builder.to)
        BY <1>4, <3>2 DEF NextStage
      <4> QED
        BY <2>1, <4>1, Bounds, BuilderStage
    <3>3. CASE ~(builder.grain < Top) /\ ~(pyramid /\ builder.scopes = {Global})
      BY <1>4, <3>3, IdleTypes DEF NextStage
    <3> QED
      BY <3>1, <3>2, <3>3
  <2> QED
    BY <1>4, <2>3 DEF NextStage, SummariesTypeOK
<1>5. ASSUME NEW k \in Keys, AggregateLeaf(k) PROVE SummariesTypeOK'
  <2>1. Contents(k) \in Contained
    BY ContentsType
  <2>2. builder' \in BuilderState
    BY <1>5, <2>1 DEF AggregateLeaf, SummariesTypeOK, BuilderState
  <2> QED
    BY <1>5, <2>2 DEF AggregateLeaf, SummariesTypeOK
<1>6. CASE HashLeaf
  <2>1. Contents(builder.row) \in Contained
    BY DEF Contents, SummariesTypeOK, Contained
  <2>2. builder' \in BuilderState
    BY <1>6, <2>1 DEF HashLeaf, SummariesTypeOK, BuilderState
  <2> QED
    BY <1>6, <2>2 DEF HashLeaf, SummariesTypeOK
<1>7. ASSUME NEW k \in Keys, MergeChildren(k) PROVE SummariesTypeOK'
  <2>1. k \in builder.todo /\ builder.grain # 0
    BY <1>7, FirstOf, Bounds DEF MergeChildren, SummariesTypeOK, BuilderState, Grains
  <2>2. ASSUME NEW field \in {"metrics", "hash"} PROVE FromChildren(k, field) \in Contained
    <3>1. CASE k.grain # 0
      BY <3>1, FromChildrenType
    <3>2. CASE k.grain = 0
      BY <3>2, <2>1 DEF Staged
    <3> QED
      BY <3>1, <3>2
  <2>3. builder' \in BuilderState
    BY <1>7, <2>2 DEF MergeChildren, SummariesTypeOK, BuilderState
  <2> QED
    BY <1>7, <2>3 DEF MergeChildren, SummariesTypeOK
<1>8. CASE UpsertSummary
  <2>1. builder.metrics \in Contained /\ builder.hash \in Contained
    BY DEF SummariesTypeOK, BuilderState
  <2>2. rows' \in [Keys -> [metrics : Contained, hash : Contained, told : Contained,
                           status : {"absent", "pending_summary", "narrated"}]]
    <3> DEFINE R == [metrics : Contained, hash : Contained, told : Contained,
                     status : {"absent", "pending_summary", "narrated"}]
               k == builder.row
    <3>1. rows \in [Keys -> R]
      BY DEF SummariesTypeOK
    <3>2. rows' = [rows EXCEPT ![k].metrics = builder.metrics, ![k].hash = builder.hash,
                      ![k].status = IF rows[k].hash # builder.hash THEN "pending_summary" ELSE @]
      BY <1>8 DEF UpsertSummary, Upserted
    <3>3. ASSUME NEW x \in Keys PROVE rows'[x] \in R
      <4>1. rows[x] \in R
        BY <3>1
      <4>2. CASE x = k
        <5>1. \/ rows'[x] = [rows[x] EXCEPT !.metrics = builder.metrics, !.hash = builder.hash,
                                            !.status = "pending_summary"]
              \/ rows'[x] = [rows[x] EXCEPT !.metrics = builder.metrics, !.hash = builder.hash]
          <6> HIDE DEF R
          <6> QED BY <3>1, <3>2, <4>2
        <5> QED BY <2>1, <4>1, <5>1
      <4>3. CASE x # k
        <5>1. rows'[x] = rows[x]
          <6> HIDE DEF R
          <6> QED BY <3>1, <3>2, <4>3
        <5> QED BY <4>1, <5>1
      <4> QED BY <4>2, <4>3
    <3>4. rows' = [x \in Keys |-> rows'[x]]
      <4> HIDE DEF R
      <4> QED BY <3>1, <3>2
    <3> HIDE DEF R
    <3>5. rows' \in [Keys -> R]
      BY <3>3, <3>4
    <3> QED BY <3>5 DEF R
  <2>3. builder' \in BuilderState
    BY <1>8, NothingType DEF UpsertSummary, SummariesTypeOK, BuilderState
  <2>4. narrator' \in NarratorState
    BY <1>8 DEF UpsertSummary, SummariesTypeOK, NarratorState
  <2> QED
    BY <1>8, <2>2, <2>3, <2>4 DEF UpsertSummary, SummariesTypeOK
<1>9. CASE RollupFails
  BY <1>9, IdleTypes, Constants DEF RollupFails, SummariesTypeOK
<1>10. CASE StartNarration
  <2>1. narrator' \in NarratorState
    BY <1>10, Bounds, NarrateStageType DEF StartNarration, SummariesTypeOK
  <2> QED
    BY <1>10, <2>1 DEF StartNarration, SummariesTypeOK
<1>11. CASE NextNarration
  <2>1. narrator.grain \in Grains /\ narrator.now \in 0..MaxTime
        /\ (narrator.grain < Top => narrator.grain + 1 \in Grains)
    BY Constants DEF SummariesTypeOK, NarratorState, Grains
  <2>2. narrator' \in NarratorState
    BY <1>11, <2>1, NarrateStageType, IdleTypes DEF NextNarration
  <2> QED
    BY <1>11, <2>2 DEF NextNarration, SummariesTypeOK
<1>12. ASSUME NEW k \in Keys, ReadDevices(k) PROVE SummariesTypeOK'
  <2>1. PICK outdated \in BOOLEAN : outdated = Outdated(k)
    BY DEF Outdated
  <2>2. PICK told \in Contained : told = FromDevices(k)
    BY FromDevicesType
  <2>3. \/ narrator' = [narrator EXCEPT !.pc = "children", !.row = k]
        \/ narrator' = [narrator EXCEPT !.pc = "save", !.row = k,
                                        !.stale = outdated, !.told = told]
        \/ NextRow(k)
    BY <1>12, <2>1, <2>2 DEF ReadDevices
  <2>4. narrator' \in NarratorState
    BY <2>3, NextRowType DEF SummariesTypeOK, NarratorState
  <2> QED
    BY <1>12, <2>4 DEF ReadDevices, SummariesTypeOK
<1>13. ASSUME NEW k \in Keys, CheckChildren(k) PROVE SummariesTypeOK'
  <2>1. narrator' \in NarratorState
    BY <1>13, NextRowType DEF CheckChildren, SummariesTypeOK, NarratorState
  <2> QED
    BY <1>13, <2>1 DEF CheckChildren, SummariesTypeOK
<1>14. CASE ReadContext
  <2>1. narrator.row \in Keys
    BY <1>14 DEF ReadContext, Staged
  <2>2. narrator'.told \in Contained
    BY <1>14, <2>1, ContentsType, FromChildrenType DEF ReadContext, SummariesTypeOK, NarratorState
  <2>3. narrator' \in NarratorState
    BY <1>14, <2>2 DEF ReadContext, SummariesTypeOK, NarratorState
  <2> QED
    BY <1>14, <2>3 DEF ReadContext, SummariesTypeOK
<1>15. CASE SaveNarrative
  <2>1. rows' \in [Keys -> [metrics : Contained, hash : Contained, told : Contained,
                           status : {"absent", "pending_summary", "narrated"}]]
    BY <1>15 DEF SaveNarrative, SummariesTypeOK, NarratorState
  <2>2. suspect' \subseteq Keys
    BY <1>15 DEF SaveNarrative, SummariesTypeOK, Staged
  <2> QED
    BY <1>15, <2>1, <2>2, NextRowType DEF SaveNarrative, SummariesTypeOK
<1>16. CASE NarrativeFails
  BY <1>16, NextRowType, Constants DEF NarrativeFails, SummariesTypeOK
<1>17. CASE NarrationFails
  BY <1>17, IdleTypes, Constants DEF NarrationFails, SummariesTypeOK
<1>18. CASE UNCHANGED summariesVars
  BY <1>18 DEF summariesVars, SummariesTypeOK, BuilderState, NarratorState
<1> QED
  BY <1>1, <1>2, <1>3, <1>4, <1>5, <1>6, <1>7, <1>8, <1>9, <1>10, <1>11, <1>12,
     <1>13, <1>14, <1>15, <1>16, <1>17, <1>18
     DEF SummariesNext, RollupStep, NarrateStep

LEMMA StagedNext ==
    SummariesTypeOK /\ Staged /\ [SummariesNext]_summariesVars => Staged'
<1> SUFFICES ASSUME SummariesTypeOK, Staged, [SummariesNext]_summariesVars
             PROVE  Staged'
  OBVIOUS
<1> DEFINE BuilderStagedInv ==
               /\ \A k \in builder.todo : k.grain = builder.grain
               /\ builder.pc \in {"hash", "upsert"} => builder.row \in Keys
               /\ builder.pc = "hash" => builder.row.grain = 0
           NarratorStagedInv ==
               /\ \A k \in narrator.todo : End(k) <= narrator.now
               /\ narrator.pc \in {"children", "context", "save"} => narrator.row \in Keys
               /\ narrator.pc = "children" => narrator.row \in narrator.todo
<1>0. /\ UNCHANGED builder => BuilderStagedInv'
      /\ UNCHANGED narrator => NarratorStagedInv'
  BY DEF Staged, End
<1>1. BuilderStagedInv'
  <2>1. ASSUME UNCHANGED builder PROVE BuilderStagedInv'
    BY <2>1, <1>0
  <2>2. CASE StartTick
    <3>1. now - Lookback \in Int /\ now \in Int /\ {Global} \in SUBSET Scopes
      BY Constants DEF SummariesTypeOK, Scopes
    <3>2. builder'.pc = "row" /\ \A k \in builder'.todo : k.grain = builder'.grain
      BY <2>2, <3>1, Bounds, BuilderStage DEF StartTick
    <3> QED
      BY <3>2
  <2>3. CASE NextStage
    <3>1. /\ builder.scopes \in SUBSET Scopes /\ builder.from \in Int /\ builder.to \in Int
          /\ builder.grain \in Grains /\ Devices \in SUBSET Scopes
      BY DEF SummariesTypeOK, BuilderState, Scopes
    <3>2. builder.grain < Top => builder.grain + 1 \in Grains
      BY <3>1, Constants DEF Grains
    <3>3. \/ builder'.pc = "row" /\ \A k \in builder'.todo : k.grain = builder'.grain
          \/ builder' = IdleBuilder
      BY <2>3, <3>1, <3>2, Bounds, BuilderStage DEF NextStage
    <3> QED
      BY <3>3 DEF IdleBuilder
  <2>4. ASSUME NEW k \in Keys, AggregateLeaf(k) PROVE BuilderStagedInv'
    BY <2>4, FirstOf DEF AggregateLeaf, Staged, SummariesTypeOK, BuilderState
  <2>5. CASE HashLeaf
    BY <2>5 DEF HashLeaf, Staged, SummariesTypeOK, BuilderState
  <2>6. ASSUME NEW k \in Keys, MergeChildren(k) PROVE BuilderStagedInv'
    BY <2>6, FirstOf DEF MergeChildren, Staged, SummariesTypeOK, BuilderState
  <2>7. CASE UpsertSummary
    BY <2>7 DEF UpsertSummary, Staged, SummariesTypeOK, BuilderState
  <2>8. CASE RollupFails
    BY <2>8 DEF RollupFails, IdleBuilder
  <2> QED
    BY <2>1, <2>2, <2>3, <2>4, <2>5, <2>6, <2>7, <2>8
       DEF SummariesNext, RollupStep, NarrateStep, summariesVars, Tick, FrameChanges,
           StartNarration, NextNarration, ReadContext, SaveNarrative, ReadDevices,
           CheckChildren, NarrativeFails, NarrationFails
<1>2. NarratorStagedInv'
  <2>1. ASSUME UNCHANGED narrator PROVE NarratorStagedInv'
    BY <2>1, <1>0
  <2>2. ASSUME NEW k, NextRow(k) PROVE NarratorStagedInv'
    BY <2>2 DEF NextRow, Staged, End, SummariesTypeOK, NarratorState
  <2>3. CASE UpsertSummary
    BY <2>3 DEF UpsertSummary, Staged, End, SummariesTypeOK, NarratorState
  <2>4. CASE StartNarration
    <3>1. narrator'.pc = "row" /\ \A k \in narrator'.todo : End(k) <= narrator'.now
      BY <2>4, Bounds, NarrateStageType DEF StartNarration, SummariesTypeOK
    <3> QED
      BY <3>1 DEF End
  <2>5. CASE NextNarration
    <3>1. narrator.grain \in Grains /\ narrator.now \in 0..MaxTime
          /\ (narrator.grain < Top => narrator.grain + 1 \in Grains)
      BY Constants DEF SummariesTypeOK, NarratorState, Grains
    <3>2. \/ narrator'.pc = "row" /\ \A k \in narrator'.todo : End(k) <= narrator'.now
          \/ narrator' = IdleNarrator
      BY <2>5, <3>1, NarrateStageType DEF NextNarration
    <3> QED
      BY <3>2 DEF End, IdleNarrator
  <2>6. ASSUME NEW k \in Keys, ReadDevices(k) PROVE NarratorStagedInv'
    <3>1. k \in narrator.todo
      BY <2>6, FirstOf DEF ReadDevices
    <3>2. CASE NextRow(k)
      BY <2>2, <3>2
    <3>3. CASE ~NextRow(k)
      BY <2>6, <3>1, <3>3 DEF ReadDevices, Staged, End, SummariesTypeOK, NarratorState
    <3> QED
      BY <3>2, <3>3
  <2>7. ASSUME NEW k \in Keys, CheckChildren(k) PROVE NarratorStagedInv'
    <3>1. CASE NextRow(k)
      BY <2>2, <3>1
    <3>2. CASE ~NextRow(k)
      BY <2>7, <3>2 DEF CheckChildren, Staged, End, SummariesTypeOK, NarratorState
    <3> QED
      BY <3>1, <3>2
  <2>8. CASE ReadContext
    BY <2>8 DEF ReadContext, Staged, End, SummariesTypeOK, NarratorState
  <2>9. CASE SaveNarrative \/ NarrativeFails
    BY <2>2, <2>9 DEF SaveNarrative, NarrativeFails
  <2>10. CASE NarrationFails
    BY <2>10 DEF NarrationFails, IdleNarrator
  <2> QED
    BY <2>1, <2>3, <2>4, <2>5, <2>6, <2>7, <2>8, <2>9, <2>10
       DEF SummariesNext, RollupStep, NarrateStep, summariesVars, Tick, FrameChanges,
           StartTick, NextStage, AggregateLeaf, HashLeaf, MergeChildren, RollupFails
<1> QED
  BY <1>1, <1>2 DEF Staged

-----------------------------------------------------------------------------
(* Only UpsertSummary changes metrics and hashes, only of the row it is at. *)
LEMMA CountsChange ==
    ASSUME SummariesTypeOK, Staged, [SummariesNext]_summariesVars, NEW k \in Keys
    PROVE  \/ rows'[k].metrics = rows[k].metrics /\ rows'[k].hash = rows[k].hash
           \/ /\ UpsertSummary /\ k = builder.row
              /\ rows'[k].metrics = builder.metrics /\ rows'[k].hash = builder.hash
<1>1. CASE UpsertSummary
  BY <1>1 DEF UpsertSummary, Upserted, SummariesTypeOK
<1>2. CASE SaveNarrative
  BY <1>2 DEF SaveNarrative, SummariesTypeOK
<1>3. CASE UNCHANGED rows
  BY <1>3
<1> QED
  BY <1>1, <1>2, <1>3
     DEF SummariesNext, RollupStep, NarrateStep, summariesVars, Tick, FrameChanges,
         StartTick, NextStage, AggregateLeaf, HashLeaf, MergeChildren, RollupFails,
         StartNarration, NextNarration, ReadContext, ReadDevices,
         CheckChildren, NarrativeFails, NarrationFails

(* A rebuild never takes back what a row counts, and a frame's version     *)
(* only grows.                                                             *)
Grows ==
    /\ \A f \in Frames : version'[f] >= version[f]
    /\ \A k \in Keys : /\ AtLeast(rows'[k].metrics, rows[k].metrics)
                       /\ AtLeast(rows'[k].hash, rows[k].hash)

LEMMA StepGrows ==
    ASSUME MetricsInv, [SummariesNext]_summariesVars
    PROVE  Grows
<1> USE DEF MetricsInv
<1>1. ASSUME NEW f \in Frames PROVE version'[f] >= version[f]
  <2>1. CASE \E e \in Frames : FrameChanges(e)
    BY <2>1 DEF FrameChanges, SummariesTypeOK, Contained
  <2>2. CASE UNCHANGED version
    BY <2>2 DEF SummariesTypeOK, Contained
  <2> QED
    BY <2>1, <2>2
       DEF SummariesNext, RollupStep, NarrateStep, summariesVars, Tick, SaveNarrative,
           StartTick, NextStage, AggregateLeaf, HashLeaf, MergeChildren, RollupFails,
           UpsertSummary, StartNarration, NextNarration, ReadContext, ReadDevices,
           CheckChildren, NarrativeFails, NarrationFails
<1>2. ASSUME NEW k \in Keys
      PROVE  /\ AtLeast(rows'[k].metrics, rows[k].metrics)
             /\ AtLeast(rows'[k].hash, rows[k].hash)
  <2>1. CASE rows'[k].metrics = rows[k].metrics /\ rows'[k].hash = rows[k].hash
    <3>1. rows[k].metrics \in Contained /\ rows[k].hash \in Contained
      BY DEF SummariesTypeOK
    <3> QED
      BY <2>1, <3>1 DEF AtLeast, Contained
  <2>2. CASE /\ UpsertSummary /\ k = builder.row
             /\ rows'[k].metrics = builder.metrics /\ rows'[k].hash = builder.hash
    BY <2>2 DEF UpsertSummary, InHand
  <2> QED
    BY <2>1, <2>2, CountsChange
<1> QED
  BY <1>1, <1>2 DEF Grows

LEMMA BelowGrows ==
    ASSUME SummariesTypeOK, SummariesTypeOK', Grows, NEW k \in Keys,
           NEW field \in {"metrics", "hash"}
    PROVE  AtLeast(Below(k, field)', Below(k, field))
<1> SUFFICES ASSUME NEW f \in Frames PROVE Below(k, field)'[f] >= Below(k, field)[f]
  BY DEF AtLeast
<1>1. CASE k.grain = 0
  <2>1. Below(k, field)[f] = IF Covers(k, f) THEN version[f] ELSE 0
    BY <1>1, ContentsType DEF Below
  <2>2. Below(k, field)'[f] = IF Covers(k, f) THEN version'[f] ELSE 0
    BY <1>1 DEF Below, Contents
  <2> QED
    BY <2>1, <2>2 DEF Grows
<1>2. CASE k.grain # 0 /\ Covers(k, f)
  <2> DEFINE c == Child(k, f)
  <2>1. Below(k, field)[f] = rows[c][field][f] /\ Below(k, field)'[f] = rows'[c][field][f]
    BY <1>2 DEF Below, FromChildren, Child
  <2>2. c \in Keys
    BY <1>2, ChildOf
  <2> HIDE DEF c
  <2>3. AtLeast(rows'[c][field], rows[c][field])
    BY <2>2 DEF Grows
  <2> QED
    BY <2>1, <2>3 DEF AtLeast
<1>3. CASE k.grain # 0 /\ ~Covers(k, f)
  BY <1>3 DEF Below, FromChildren
<1> QED
  BY <1>1, <1>2, <1>3

LEMMA AtLeastChain ==
    ASSUME NEW a \in Contained, NEW b \in Contained, NEW c \in Contained,
           AtLeast(a, b), AtLeast(b, c)
    PROVE  AtLeast(a, c)
BY DEF AtLeast, Contained

LEMMA AtLeastSelf == ASSUME NEW a \in Contained PROVE AtLeast(a, a)
BY DEF AtLeast, Contained

LEMMA GroundedNext ==
    ASSUME MetricsInv, SummariesTypeOK', [SummariesNext]_summariesVars
    PROVE  Grounded'
<1> USE DEF MetricsInv
<1> SUFFICES ASSUME NEW k \in Keys
             PROVE  /\ AtLeast(Below(k, "metrics")', rows'[k].metrics)
                    /\ AtLeast(Below(k, "hash")', rows'[k].hash)
  BY DEF Grounded
<1>1. /\ AtLeast(Below(k, "metrics")', Below(k, "metrics"))
      /\ AtLeast(Below(k, "hash")', Below(k, "hash"))
  BY StepGrows, BelowGrows
<1>2. /\ AtLeast(Below(k, "metrics"), rows'[k].metrics)
      /\ AtLeast(Below(k, "hash"), rows'[k].hash)
  <2>1. CASE rows'[k].metrics = rows[k].metrics /\ rows'[k].hash = rows[k].hash
    BY <2>1 DEF Grounded
  <2>2. CASE /\ UpsertSummary /\ k = builder.row
             /\ rows'[k].metrics = builder.metrics /\ rows'[k].hash = builder.hash
    BY <2>2 DEF UpsertSummary, InHand
  <2> QED
    BY <2>1, <2>2, CountsChange
<1>3. /\ Below(k, "metrics") \in Contained /\ Below(k, "hash") \in Contained
      /\ rows'[k].metrics \in Contained /\ rows'[k].hash \in Contained
  BY BelowType DEF SummariesTypeOK
<1>4. Below(k, "metrics")' \in Contained /\ Below(k, "hash")' \in Contained
  BY BelowTypesNext
<1> QED
  BY <1>1, <1>2, <1>3, <1>4, AtLeastChain

(* Whatever else happens, what the builder has in hand stays in bounds.    *)
LEMMA HandKept ==
    ASSUME MetricsInv, SummariesTypeOK', [SummariesNext]_summariesVars,
           UNCHANGED <<builder, rows>> \/ (UNCHANGED builder /\ SaveNarrative)
    PROVE  InHand'
<1> USE DEF MetricsInv
<1>1. SUFFICES ASSUME builder.pc \in {"hash", "upsert"}
               PROVE  InHand'
  BY DEF InHand
<1> DEFINE k == builder.row
<1>2. k \in Keys /\ builder.metrics \in Contained /\ builder.hash \in Contained
  BY <1>1 DEF Staged, SummariesTypeOK, BuilderState
<1>3. /\ AtLeast(Below(k, "metrics")', Below(k, "metrics"))
      /\ AtLeast(Below(k, "hash")', Below(k, "hash"))
  BY <1>2, StepGrows, BelowGrows
<1>4. /\ Below(k, "metrics") \in Contained /\ Below(k, "hash") \in Contained
      /\ Below(k, "metrics")' \in Contained /\ Below(k, "hash")' \in Contained
  BY <1>2, BelowTypes, BelowTypesNext
<1>5. rows'[k].metrics = rows[k].metrics /\ rows'[k].hash = rows[k].hash
  BY <1>2 DEF SaveNarrative, SummariesTypeOK
<1>6. builder' = builder
  OBVIOUS
<1>7. AtLeast(builder.metrics, rows'[k].metrics) /\ AtLeast(Below(k, "metrics")', builder.metrics)
  BY <1>1, <1>2, <1>3, <1>4, <1>5, AtLeastChain DEF InHand
<1>8. builder.pc = "upsert" =>
         AtLeast(builder.hash, rows'[k].hash) /\ AtLeast(Below(k, "hash")', builder.hash)
  BY <1>1, <1>2, <1>3, <1>4, <1>5, AtLeastChain DEF InHand
<1> HIDE DEF k
<1>9. k' = k /\ k = builder.row
  BY <1>6 DEF k
<1> QED
  BY <1>6, <1>7, <1>8, <1>9 DEF InHand, Below, Contents, FromChildren, Covers, InScope

(* A step of the builder leaves version and rows, and so what any row is   *)
(* built from, as they are.                                                *)
LEMMA BelowKept ==
    ASSUME UNCHANGED <<version, rows>>, NEW k \in Keys, NEW field
    PROVE  Below(k, field)' = Below(k, field)
BY DEF Below, Contents, FromChildren, Covers, InScope

LEMMA InHandNext ==
    ASSUME MetricsInv, SummariesTypeOK', [SummariesNext]_summariesVars
    PROVE  InHand'
<1> USE DEF MetricsInv
<1>1. ASSUME builder'.pc \in {"idle", "row"} PROVE InHand'
  BY <1>1 DEF InHand
<1>2. CASE StartTick
  BY <1>1, <1>2 DEF StartTick, Stage, IdleBuilder
<1>3. CASE NextStage
  <2>1. ASSUME NEW scopes, NEW g, NEW from, NEW to, Stage(scopes, g, from, to)
        PROVE  builder'.pc = "row"
    BY <2>1 DEF Stage, IdleBuilder
  <2>2. builder' # IdleBuilder => builder'.pc = "row"
    BY <1>3, <2>1 DEF NextStage
  <2> QED
    BY <1>1, <2>2 DEF IdleBuilder
<1>4. ASSUME NEW k \in Keys, AggregateLeaf(k) PROVE InHand'
  <2>1. k.grain = 0
    BY <1>4, FirstOf DEF AggregateLeaf, Staged
  <2>2. Below(k, "metrics") = Contents(k) /\ Contents(k) \in Contained
    BY <2>1, ContentsType DEF Below
  <2>3. /\ builder'.pc = "hash" /\ builder'.row = k /\ builder'.metrics = Contents(k)
        /\ UNCHANGED <<version, rows>>
    BY <1>4 DEF AggregateLeaf, SummariesTypeOK, BuilderState
  <2>4. AtLeast(Contents(k), rows[k].metrics)
    BY <2>2 DEF Grounded
  <2>5. AtLeast(Below(k, "metrics")', builder'.metrics)
    BY <2>2, <2>3, BelowKept, AtLeastSelf
  <2>6. AtLeast(builder'.metrics, rows'[k].metrics)
    BY <2>3, <2>4
  <2> QED
    BY <2>3, <2>5, <2>6 DEF InHand, Below, Contents, FromChildren, Covers, InScope
<1>5. CASE HashLeaf
  <2>1. PICK k \in Keys : k = builder.row /\ k.grain = 0
    BY <1>5 DEF HashLeaf, Staged
  <2>2. /\ Below(k, "hash") = Contents(k) /\ Below(k, "metrics") = Contents(k)
        /\ Contents(k) \in Contained
    BY <2>1, ContentsType DEF Below
  <2>3. /\ builder'.pc = "upsert" /\ builder'.row = k /\ builder'.hash = Contents(k)
        /\ builder'.metrics = builder.metrics /\ UNCHANGED <<version, rows>>
    BY <1>5, <2>1 DEF HashLeaf, SummariesTypeOK, BuilderState
  <2>4. /\ AtLeast(builder.metrics, rows[k].metrics)
        /\ AtLeast(Below(k, "metrics"), builder.metrics)
    BY <1>5, <2>1 DEF HashLeaf, InHand
  <2>5. AtLeast(Contents(k), rows[k].hash)
    BY <2>1, <2>2 DEF Grounded
  <2>6. /\ AtLeast(Below(k, "metrics")', builder'.metrics)
        /\ AtLeast(Below(k, "hash")', builder'.hash)
    BY <2>1, <2>2, <2>3, <2>4, BelowKept, AtLeastSelf
  <2>7. AtLeast(builder'.metrics, rows'[k].metrics) /\ AtLeast(builder'.hash, rows'[k].hash)
    BY <2>3, <2>4, <2>5
  <2> QED
    BY <2>3, <2>6, <2>7 DEF InHand, Below, Contents, FromChildren, Covers, InScope
<1>6. ASSUME NEW k \in Keys, MergeChildren(k) PROVE InHand'
  <2>1. k.grain # 0
    BY <1>6, FirstOf, Bounds DEF MergeChildren, Staged, SummariesTypeOK, BuilderState, Grains
  <2>2. /\ Below(k, "hash") = FromChildren(k, "hash")
        /\ Below(k, "metrics") = FromChildren(k, "metrics")
        /\ Below(k, "hash") \in Contained /\ Below(k, "metrics") \in Contained
    BY <2>1, BelowTypes DEF Below
  <2>3. /\ builder'.pc = "upsert" /\ builder'.row = k
        /\ builder'.hash = Below(k, "hash")
        /\ builder'.metrics = Below(k, "metrics") /\ UNCHANGED <<version, rows>>
    BY <1>6, <2>2 DEF MergeChildren, SummariesTypeOK, BuilderState
  <2>4. /\ AtLeast(Below(k, "metrics"), rows[k].metrics)
        /\ AtLeast(Below(k, "hash"), rows[k].hash)
    BY DEF Grounded
  <2>5. /\ AtLeast(Below(k, "metrics")', builder'.metrics)
        /\ AtLeast(Below(k, "hash")', builder'.hash)
    BY <2>2, <2>3, BelowKept, AtLeastSelf
  <2>6. AtLeast(builder'.metrics, rows'[k].metrics) /\ AtLeast(builder'.hash, rows'[k].hash)
    BY <2>3, <2>4
  <2> QED
    BY <2>3, <2>5, <2>6 DEF InHand, Below, Contents, FromChildren, Covers, InScope
<1>7. CASE UpsertSummary
  BY <1>1, <1>7 DEF UpsertSummary, SummariesTypeOK, BuilderState
<1>8. CASE RollupFails
  BY <1>1, <1>8 DEF RollupFails, IdleBuilder
<1>9. CASE UNCHANGED <<builder, rows>> \/ (UNCHANGED builder /\ SaveNarrative)
  BY <1>9, HandKept
<1> QED
  BY <1>2, <1>3, <1>4, <1>5, <1>6, <1>7, <1>8, <1>9
     DEF SummariesNext, RollupStep, NarrateStep, summariesVars, Tick, FrameChanges,
         StartNarration, NextNarration, ReadContext, SaveNarrative, ReadDevices,
         CheckChildren, NarrativeFails, NarrationFails

LEMMA MetricsInitInv == SummariesInit => MetricsInv
<1> SUFFICES ASSUME SummariesInit PROVE MetricsInv
  OBVIOUS
<1>1. SummariesTypeOK /\ Staged
  BY SummariesInitType
<1>2. ASSUME NEW k \in Keys, NEW field \in {"metrics", "hash"}
      PROVE  AtLeast(Below(k, field), rows[k][field])
  <2>1. Below(k, field) \in Contained /\ rows[k][field] = Nothing
    BY <1>1, <1>2, BelowTypes DEF SummariesInit
  <2> QED
    BY <2>1, NothingType DEF AtLeast, Contained
<1>3. Grounded
  BY <1>2 DEF Grounded
<1>4. InHand
  BY DEF SummariesInit, IdleBuilder, InHand
<1> QED
  BY <1>1, <1>3, <1>4 DEF MetricsInv

LEMMA MetricsNextInv == MetricsInv /\ [SummariesNext]_summariesVars => MetricsInv'
<1> SUFFICES ASSUME MetricsInv, [SummariesNext]_summariesVars PROVE MetricsInv'
  OBVIOUS
<1>1. SummariesTypeOK' /\ Staged'
  BY SummariesNextType, StagedNext DEF MetricsInv
<1> QED
  BY <1>1, GroundedNext, InHandNext DEF MetricsInv

(* The rows of the pyramid and the two loops' local variables keep their   *)
(* types.                                                                  *)
THEOREM SummariesTypeCorrect == SummariesSpec => []SummariesTypeOK
<1>1. MetricsInv => SummariesTypeOK
  BY DEF MetricsInv
<1> QED
  BY <1>1, MetricsInitInv, MetricsNextInv, PTL DEF SummariesSpec

(* _build_leaf and _build_from_children never write metrics over better    *)
(* ones: whatever arrives late, fails or is rebuilt between their two      *)
(* reads, a row's metrics only grow.                                       *)
THEOREM MetricsOnlyGrow == SummariesSpec => NeverDowngraded
<1>1. MetricsInv /\ [SummariesNext]_summariesVars =>
          \A k \in Keys : /\ AtLeast(rows'[k].metrics, rows[k].metrics)
                          /\ AtLeast(rows'[k].hash, rows[k].hash)
  BY StepGrows DEF Grows
<1> QED
  BY <1>1, MetricsInitInv, MetricsNextInv, PTL DEF SummariesSpec, NeverDowngraded

-----------------------------------------------------------------------------
(* What a step can do to what the rows say.                                *)
LEMMA ToldChange ==
    ASSUME SummariesTypeOK, Staged, [SummariesNext]_summariesVars
    PROVE  \/ UNCHANGED <<rows, suspect>>
           \/ UpsertSummary /\ UNCHANGED suspect
              /\ \A k \in Keys : rows'[k].told = rows[k].told
           \/ /\ SaveNarrative
              /\ \A k \in Keys :
                    /\ rows'[k].metrics = rows[k].metrics /\ rows'[k].hash = rows[k].hash
                    /\ k # narrator.row => rows'[k] = rows[k]
                    /\ k = narrator.row => /\ rows'[k].told = narrator.told
                                           /\ rows'[k].status = "narrated"
<1>1. CASE UpsertSummary
  <2>1. \A k \in Keys : rows'[k].told = rows[k].told
    BY <1>1 DEF UpsertSummary, Upserted, SummariesTypeOK
  <2> QED
    BY <1>1, <2>1 DEF UpsertSummary
<1>2. CASE SaveNarrative
  BY <1>2 DEF SaveNarrative, SummariesTypeOK
<1>3. CASE UNCHANGED <<rows, suspect>>
  BY <1>3
<1> QED
  BY <1>1, <1>2, <1>3
     DEF SummariesNext, RollupStep, NarrateStep, summariesVars, Tick, FrameChanges,
         StartTick, NextStage, AggregateLeaf, HashLeaf, MergeChildren, RollupFails,
         StartNarration, NextNarration, ReadContext, ReadDevices,
         CheckChildren, NarrativeFails, NarrationFails

(* The narrator's answer is as it was before any step but its own.         *)
LEMMA AnswerChange ==
    ASSUME SummariesTypeOK, Staged, [SummariesNext]_summariesVars,
           narrator'.pc \in {"context", "save"}
    PROVE  \/ UNCHANGED narrator /\ UNCHANGED rows
           \/ /\ UpsertSummary
              /\ narrator'.pc = narrator.pc /\ narrator'.row = narrator.row
              /\ narrator'.told = narrator.told
              /\ ~narrator'.stale => /\ ~narrator.stale
                                     /\ builder.row = narrator.row =>
                                            rows[builder.row].hash = builder.hash
           \/ \E k \in Keys : /\ ReadDevices(k) /\ UNCHANGED rows
                              /\ narrator'.pc = "save" /\ narrator'.row = k
                              /\ narrator'.told = FromDevices(k) /\ narrator'.stale = Outdated(k)
           \/ \E k \in Keys : /\ CheckChildren(k) /\ UNCHANGED rows
                              /\ narrator'.pc = "context" /\ narrator'.row = k
           \/ ReadContext /\ UNCHANGED rows /\ narrator'.pc = "save"
<1>1. ASSUME NEW k, NextRow(k) PROVE FALSE
  BY <1>1, NextRowType
<1>2. CASE UNCHANGED <<narrator, rows>>
  BY <1>2
<1>3. CASE UpsertSummary
  BY <1>3 DEF UpsertSummary, SummariesTypeOK, NarratorState
<1>4. CASE StartNarration
  <2>1. narrator'.pc = "row"
    BY <1>4, Bounds, NarrateStageType DEF StartNarration, SummariesTypeOK
  <2> QED
    BY <2>1
<1>5. CASE NextNarration
  <2>1. narrator.grain \in Grains /\ narrator.now \in 0..MaxTime
        /\ (narrator.grain < Top => narrator.grain + 1 \in Grains)
    BY Constants DEF SummariesTypeOK, NarratorState, Grains
  <2>2. narrator'.pc = "row" \/ narrator' = IdleNarrator
    BY <1>5, <2>1, NarrateStageType DEF NextNarration
  <2> QED
    BY <2>2 DEF IdleNarrator
<1>6. ASSUME NEW k \in Keys, ReadDevices(k)
      PROVE  /\ ReadDevices(k) /\ UNCHANGED rows
             /\ narrator'.pc = "save" /\ narrator'.row = k
             /\ narrator'.told = FromDevices(k) /\ narrator'.stale = Outdated(k)
  <2>1. ~NextRow(k)
    BY <1>1
  <2>2. narrator' # [narrator EXCEPT !.pc = "children", !.row = k]
    BY DEF SummariesTypeOK, NarratorState
  <2>3. narrator' = [narrator EXCEPT !.pc = "save", !.row = k,
                                     !.stale = Outdated(k), !.told = FromDevices(k)]
    BY <1>6, <2>1, <2>2 DEF ReadDevices
  <2>4. UNCHANGED rows
    BY <1>6 DEF ReadDevices
  <2> QED
    BY <1>6, <2>3, <2>4 DEF SummariesTypeOK, NarratorState
<1>7. ASSUME NEW k \in Keys, CheckChildren(k)
      PROVE  /\ CheckChildren(k) /\ UNCHANGED rows
             /\ narrator'.pc = "context" /\ narrator'.row = k
  BY <1>1, <1>7 DEF CheckChildren, SummariesTypeOK, NarratorState
<1>8. CASE ReadContext
  BY <1>8 DEF ReadContext, SummariesTypeOK, NarratorState
<1>9. CASE SaveNarrative \/ NarrativeFails
  BY <1>1, <1>9 DEF SaveNarrative, NarrativeFails
<1>10. CASE NarrationFails
  BY <1>10 DEF NarrationFails, IdleNarrator
<1> QED
  BY <1>2, <1>3, <1>4, <1>5, <1>6, <1>7, <1>8, <1>9, <1>10
     DEF SummariesNext, RollupStep, NarrateStep, summariesVars, Tick, FrameChanges,
         StartTick, NextStage, AggregateLeaf, HashLeaf, MergeChildren, RollupFails

(* A row counts no frame of another window or scope. *)
LEMMA HashApart ==
    ASSUME MetricsInv, NEW k \in Keys, NEW f \in Frames, ~Covers(k, f)
    PROVE  rows[k].hash[f] = 0
<1>1. Below(k, "hash")[f] = 0
  BY BelowType DEF MetricsInv
<1>2. 0 >= rows[k].hash[f]
  BY <1>1 DEF MetricsInv, Grounded, AtLeast
<1>3. rows[k].hash[f] \in Nat
  BY DEF MetricsInv, SummariesTypeOK, Contained
<1> QED
  BY <1>2, <1>3

-----------------------------------------------------------------------------
(* A row that is not there has no inputs and no narrative to suspect.      *)
AbsentEmpty ==
    \A k \in Keys : ~Stored(k) => rows[k].hash = Nothing /\ k \notin suspect

(* A row whose children are about to be read: each of them has a narrative *)
(* of what the row's hash stands for, or is suspect.                       *)
ContextCovers ==
    narrator.pc = "context" /\ narrator.row.grain # 0 /\ ~narrator.stale =>
        \A f \in Frames : Covers(narrator.row, f) =>
            \/ Child(narrator.row, f) \in suspect
            \/ rows[narrator.row].hash[f] <= rows[Child(narrator.row, f)].told[f]

(* An answer about to be saved covers its row, unless a rebuild came       *)
(* between.                                                                *)
AnswerCovers ==
    narrator.pc = "save" /\ ~narrator.stale =>
        AtLeast(narrator.told, rows[narrator.row].hash)

NarrativeInv ==
    MetricsInv /\ AbsentEmpty /\ ContextCovers /\ AnswerCovers /\ NarrativeCoversInputs

LEMMA AbsentEmptyNext ==
    ASSUME NarrativeInv, [SummariesNext]_summariesVars
    PROVE  AbsentEmpty'
<1> USE DEF NarrativeInv, MetricsInv
<1> SUFFICES ASSUME NEW k \in Keys, rows'[k].status = "absent"
             PROVE  rows'[k].hash = Nothing /\ k \notin suspect'
  BY DEF AbsentEmpty, Stored
<1>1. CASE UNCHANGED <<rows, suspect>>
  BY <1>1 DEF AbsentEmpty, Stored
<1>2. CASE UpsertSummary /\ UNCHANGED suspect
  <2>1. rows[k].status = "absent" /\ rows'[k].hash = rows[k].hash
    BY <1>2 DEF UpsertSummary, Upserted, SummariesTypeOK
  <2> QED
    BY <1>2, <2>1 DEF AbsentEmpty, Stored
<1>3. CASE /\ SaveNarrative /\ k # narrator.row /\ rows'[k] = rows[k]
  BY <1>3 DEF AbsentEmpty, Stored, SaveNarrative
<1>4. k = narrator.row => ~(SaveNarrative /\ rows'[k].status = "narrated")
  OBVIOUS
<1> QED
  BY <1>1, <1>2, <1>3, <1>4, ToldChange

(* Of the children of a row about to be described, each tells what the     *)
(* row's hash stands for: none of them is pending.                         *)
LEMMA ChildrenTell ==
    ASSUME NarrativeInv, NEW k \in Keys, CheckChildren(k), narrator'.pc = "context",
           k.grain # 0, NEW f \in Frames, Covers(k, f), Child(k, f) \notin suspect
    PROVE  rows[k].hash[f] <= rows[Child(k, f)].told[f]
<1> USE DEF NarrativeInv, MetricsInv
<1>1. PICK c \in Keys :
         /\ c = Child(k, f) /\ c.scope = k.scope /\ c.grain = k.grain - 1
         /\ StartOf(c.start, k.grain) = k.start /\ End(c) <= End(k)
  BY ChildOf
<1>2. Below(k, "hash")[f] = rows[c].hash[f]
  BY <1>1, FromChildrenType DEF Below
<1>3. rows[k].hash[f] <= rows[c].hash[f]
  <2>1. Below(k, "hash")[f] >= rows[k].hash[f]
    BY DEF Grounded, AtLeast
  <2> QED
    BY <1>2, <2>1
<1>4. /\ rows[k].hash[f] \in Nat /\ rows[c].hash[f] \in Nat /\ rows[c].told[f] \in Nat
      /\ rows[c].status \in {"absent", "pending_summary", "narrated"}
  BY <1>1 DEF SummariesTypeOK, Contained
<1>5. CASE ~Stored(c)
  BY <1>1, <1>3, <1>4, <1>5, NothingType DEF AbsentEmpty
<1>6. CASE Stored(c)
  <2>1. c \in Children(k)
    BY <1>1, <1>6 DEF Children
  <2>2. ~NextRow(k)
    BY NextRowType
  <2>3. ~(rows[c].status = "pending_summary" /\ End(c) <= narrator.now)
    BY <2>1, <2>2 DEF CheckChildren
  <2>4. End(k) <= narrator.now
    BY FirstOf DEF CheckChildren, Staged
  <2>5. End(k) \in Int /\ End(c) \in Int /\ narrator.now \in Int
    BY <1>1, KeyIs, StartInt DEF End, SummariesTypeOK, NarratorState
  <2>6. rows[c].status = "narrated"
    BY <1>1, <1>4, <1>6, <2>3, <2>4, <2>5 DEF Stored
  <2>7. AtLeast(rows[c].told, rows[c].hash)
    BY <1>1, <2>6 DEF NarrativeCoversInputs
  <2> QED
    BY <1>1, <1>3, <1>4, <2>7 DEF AtLeast
<1> QED
  BY <1>5, <1>6

LEMMA ContextCoversNext ==
    ASSUME NarrativeInv, [SummariesNext]_summariesVars
    PROVE  ContextCovers'
<1> USE DEF NarrativeInv, MetricsInv
<1> SUFFICES ASSUME narrator'.pc = "context", narrator'.row.grain # 0, ~narrator'.stale,
                    NEW f \in Frames, Covers(narrator'.row, f)
             PROVE  \/ Child(narrator'.row, f) \in suspect'
                    \/ rows'[narrator'.row].hash[f] <= rows'[Child(narrator'.row, f)].told[f]
  BY DEF ContextCovers, Covers, InScope, Child, Row, StartOf
<1>1. PICK k \in Keys : k = narrator'.row
  BY StagedNext DEF Staged
<1>2. Child(k, f) \in Keys
  BY <1>1, ChildOf
<1>3. UNCHANGED suspect
  <2>1. ~SaveNarrative
    BY NextRowType DEF SaveNarrative
  <2> QED
    BY <2>1, ToldChange
<1>4. CASE UNCHANGED narrator /\ UNCHANGED rows
  BY <1>3, <1>4 DEF ContextCovers
<1>5. CASE /\ UpsertSummary
           /\ narrator'.pc = narrator.pc /\ narrator'.row = narrator.row
           /\ ~narrator.stale /\ (builder.row = narrator.row =>
                                      rows[builder.row].hash = builder.hash)
  <2>1. \/ Child(k, f) \in suspect
        \/ rows[k].hash[f] <= rows[Child(k, f)].told[f]
    BY <1>1, <1>5 DEF ContextCovers
  <2>2. rows'[k].hash = rows[k].hash
    BY <1>1, <1>5, CountsChange
  <2>3. rows'[Child(k, f)].told = rows[Child(k, f)].told
    BY <1>2, <1>5, ToldChange DEF UpsertSummary, Upserted, SummariesTypeOK
  <2> QED
    BY <1>1, <1>3, <2>1, <2>2, <2>3
<1>6. CASE CheckChildren(k) /\ UNCHANGED rows
  BY <1>1, <1>3, <1>6, ChildrenTell
<1> QED
  BY <1>1, <1>4, <1>5, <1>6, AnswerChange

(* Device rows that are not outdated tell what the row's hash stands for.  *)
LEMMA DevicesTell ==
    ASSUME NarrativeInv, NEW k \in Keys, ~Outdated(k)
    PROVE  AtLeast(FromDevices(k), rows[k].hash)
<1> USE DEF NarrativeInv, MetricsInv
<1> SUFFICES ASSUME NEW f \in Frames
             PROVE  FromDevices(k)[f] >= rows[k].hash[f]
  BY DEF AtLeast
<1>1. rows[k].hash[f] \in Nat
  BY DEF SummariesTypeOK, Contained
<1>2. CASE ~Covers(k, f)
  BY <1>1, <1>2, FromDevicesType, HashApart
<1>3. CASE Covers(k, f)
  <2>1. PICK c \in Keys : /\ c = Source(k, f) /\ c.scope # Global
                          /\ c.grain = k.grain /\ c.start = k.start
    BY <1>3, SourceOf
  <2>2. rows[c].hash[f] \in Nat /\ rows[c].told[f] \in Nat
    BY DEF SummariesTypeOK, Contained
  <2>3. ~(rows[k].hash[f] > rows[c].hash[f])
    BY <1>3, <2>1 DEF Outdated, Source
  <2>4. FromDevices(k)[f] = rows[c].told[f]
    BY <1>3, <2>1, FromDevicesType
  <2>5. CASE ~Stored(c)
    <3>1. rows[c].hash[f] = 0
      BY <2>5, NothingType DEF AbsentEmpty
    <3> QED
      BY <1>1, <2>2, <2>3, <2>4, <3>1
  <2>6. CASE Stored(c)
    <3>1. c \in DeviceRows(k)
      BY <2>1, <2>6 DEF DeviceRows
    <3>2. rows[c].status = "narrated" /\ c \notin suspect
      BY <3>1 DEF Outdated
    <3>3. rows[c].told[f] >= rows[c].hash[f]
      BY <3>2 DEF NarrativeCoversInputs, AtLeast
    <3> QED
      BY <1>1, <2>2, <2>3, <2>4, <3>3
  <2> QED
    BY <2>5, <2>6
<1> QED
  BY <1>2, <1>3

LEMMA AnswerCoversNext ==
    ASSUME NarrativeInv, [SummariesNext]_summariesVars
    PROVE  AnswerCovers'
<1> USE DEF NarrativeInv, MetricsInv
<1> SUFFICES ASSUME narrator'.pc = "save", ~narrator'.stale
             PROVE  AtLeast(narrator'.told, rows'[narrator'.row].hash)
  BY DEF AnswerCovers
<1>1. CASE UNCHANGED narrator /\ UNCHANGED rows
  BY <1>1 DEF AnswerCovers
<1>2. CASE /\ UpsertSummary
           /\ narrator'.pc = narrator.pc /\ narrator'.row = narrator.row
           /\ narrator'.told = narrator.told
           /\ ~narrator.stale /\ (builder.row = narrator.row =>
                                      rows[builder.row].hash = builder.hash)
  <2>1. PICK k \in Keys : k = narrator.row
    BY <1>2 DEF Staged
  <2>2. AtLeast(narrator.told, rows[k].hash)
    BY <1>2, <2>1 DEF AnswerCovers
  <2>3. rows'[k].hash = rows[k].hash
    BY <1>2, <2>1, CountsChange
  <2> QED
    BY <1>2, <2>1, <2>2, <2>3
<1>3. CASE ReadContext /\ UNCHANGED rows
  <2>1. PICK k \in Keys : k = narrator.row /\ narrator'.row = k
    BY <1>3 DEF ReadContext, Staged, SummariesTypeOK, NarratorState
  <2>2. narrator'.told = IF k.grain = 0 THEN Contents(k) ELSE FromChildren(k, "told")
    BY <1>3, <2>1 DEF ReadContext, SummariesTypeOK, NarratorState
  <2>3. AtLeast(Below(k, "hash"), rows[k].hash)
    BY DEF Grounded
  <2>4. CASE k.grain = 0
    BY <1>3, <2>1, <2>2, <2>3, <2>4 DEF Below
  <2>5. CASE k.grain # 0
    <3>1. ~narrator.stale /\ Children(k) \cap suspect = {}
      BY <1>3, <2>1, <2>5 DEF ReadContext, SummariesTypeOK, NarratorState
    <3> SUFFICES ASSUME NEW f \in Frames
                 PROVE  FromChildren(k, "told")[f] >= rows[k].hash[f]
      BY <1>3, <2>1, <2>2, <2>5 DEF AtLeast
    <3>2. CASE Covers(k, f)
      <4>1. PICK c \in Keys :
               /\ c = Child(k, f) /\ c.scope = k.scope /\ c.grain = k.grain - 1
               /\ StartOf(c.start, k.grain) = k.start
        BY <2>5, <3>2, ChildOf
      <4>2. c \notin suspect
        BY <3>1, <4>1 DEF AbsentEmpty, Children
      <4>3. rows[k].hash[f] <= rows[c].told[f]
        BY <1>3, <2>1, <2>5, <3>1, <3>2, <4>1, <4>2 DEF ContextCovers, ReadContext
      <4>4. FromChildren(k, "told")[f] = rows[c].told[f]
        BY <2>5, <3>2, <4>1, FromChildrenType
      <4>5. rows[k].hash[f] \in Nat /\ rows[c].told[f] \in Nat
        BY DEF SummariesTypeOK, Contained
      <4> QED
        BY <4>3, <4>4, <4>5
    <3>3. CASE ~Covers(k, f)
      <4>1. FromChildren(k, "told")[f] = 0
        BY <2>5, <3>3, FromChildrenType
      <4>2. rows[k].hash[f] = 0
        BY <3>3, HashApart
      <4> QED
        BY <4>1, <4>2
    <3> QED
      BY <3>2, <3>3
  <2> QED
    BY <2>4, <2>5
<1>4. ASSUME NEW k \in Keys, UNCHANGED rows, narrator'.row = k,
             narrator'.told = FromDevices(k), narrator'.stale = Outdated(k)
      PROVE  AtLeast(narrator'.told, rows'[narrator'.row].hash)
  BY <1>4, DevicesTell
<1> QED
  BY <1>1, <1>2, <1>3, <1>4, AnswerChange

LEMMA CoversNext ==
    ASSUME NarrativeInv, [SummariesNext]_summariesVars
    PROVE  NarrativeCoversInputs'
<1> USE DEF NarrativeInv, MetricsInv
<1> SUFFICES ASSUME NEW k \in Keys, k \notin suspect', rows'[k].status = "narrated"
             PROVE  AtLeast(rows'[k].told, rows'[k].hash)
  BY DEF NarrativeCoversInputs
<1>1. CASE UNCHANGED <<rows, suspect>>
  BY <1>1 DEF NarrativeCoversInputs
<1>2. CASE UpsertSummary /\ UNCHANGED suspect
  <2>1. /\ rows[k].status = "narrated"
        /\ rows'[k].hash = rows[k].hash /\ rows'[k].told = rows[k].told
    BY <1>2 DEF UpsertSummary, Upserted, SummariesTypeOK
  <2> QED
    BY <1>2, <2>1 DEF NarrativeCoversInputs
<1>3. CASE SaveNarrative /\ k # narrator.row /\ rows'[k] = rows[k]
  BY <1>3 DEF NarrativeCoversInputs, SaveNarrative
<1>4. CASE /\ SaveNarrative /\ k = narrator.row /\ rows'[k].hash = rows[k].hash
           /\ rows'[k].told = narrator.told
  <2>1. ~narrator.stale
    BY <1>4 DEF SaveNarrative
  <2> QED
    BY <1>4, <2>1 DEF SaveNarrative, AnswerCovers
<1> QED
  BY <1>1, <1>2, <1>3, <1>4, ToldChange

LEMMA NarrativeInitInv == SummariesInit => NarrativeInv
BY MetricsInitInv
   DEF NarrativeInv, SummariesInit, AbsentEmpty, ContextCovers, AnswerCovers,
       NarrativeCoversInputs, IdleNarrator

LEMMA NarrativeNextInv == NarrativeInv /\ [SummariesNext]_summariesVars => NarrativeInv'
BY MetricsNextInv, AbsentEmptyNext, ContextCoversNext, AnswerCoversNext, CoversNext
   DEF NarrativeInv

(* Every narrated row says what its hash names, through all grains and for *)
(* composed rows too, unless a rebuild changed the row while it was being  *)
(* described, or it was composed from outdated device rows, or from rows   *)
(* that were (suspect): narrate_range and build_recent interleave freely.  *)
THEOREM NarratedFromInputs == SummariesSpec => []NarrativeCoversInputs
<1>1. NarrativeInv => NarrativeCoversInputs
  BY DEF NarrativeInv
<1> QED
  BY <1>1, NarrativeInitInv, NarrativeNextInv, PTL DEF SummariesSpec
=============================================================================
