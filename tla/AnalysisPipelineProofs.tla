----------------------- MODULE AnalysisPipelineProofs -----------------------
(***************************************************************************)
(* Proofs about the analysis pipeline, for any number of records, workers, *)
(* ingest handlers, retries and faults.                                    *)
(***************************************************************************)
EXTENDS AnalysisPipeline, TLAPS

(* A handler past the insert works on a record that exists. *)
Inserted ==
    \A h \in Handlers :
        request[h].pc \in {"shot", "requeue", "mark"} => record[request[h].rec] # "none"

(* A busy worker alone is on its task, unless the task was reclaimed from   *)
(* a live worker.                                                          *)
Owned ==
    \A w \in Workers : worker[w].pc # "idle" /\ worker[w].rec \notin overtaken =>
        /\ analysis[worker[w].rec].status = "processing_vlm"
        /\ worker[w].retry = analysis[worker[w].rec].retry
        /\ \A v \in Workers : worker[v].rec = worker[w].rec => v = w

(* retry_count counts the failures until the last one. *)
Counted ==
    \A r \in Records \ overtaken :
        fails[r] = IF analysis[r].status = "error_final"
                   THEN MaxRetries + 1 ELSE analysis[r].retry

-----------------------------------------------------------------------------
LEMMA SetRowEffect ==
    ASSUME analysis \in [Records -> Row], NEW r \in Records, NEW row, SetRow(r, row)
    PROVE  analysis'[r] = row /\ \A t \in Records : t # r => analysis'[t] = analysis[t]
BY DEF SetRow

LEMMA RowWritten ==
    ASSUME analysis \in [Records -> Row], NEW r \in Records, NEW row \in Row,
           SetRow(r, row)
    PROVE  analysis' \in [Records -> Row]
BY DEF SetRow

(* The transactions keep the two status columns well typed.                *)
LEMMA TransactionsTyped ==
    ASSUME TypeOK, NEW r \in Records, NEW n \in 0 .. MaxRetries,
           \/ MarkPending(r) \/ Requeue(r) \/ TransitionDone(r)
           \/ MarkErrorRetryable(r, n) \/ MarkErrorFinal(r)
    PROVE  /\ analysis' \in [Records -> Row]
           /\ record' \in [Records -> {"none", "captured", "pending_vlm", "vlm_done",
                                       "error_final"}]
<1>0. analysis[r] \in Row /\ analysis \in [Records -> Row]
  BY DEF TypeOK
<1>1. CASE MarkPending(r)
  <2>1. [analysis[r] EXCEPT !.status = "pending_vlm"] \in Row
    BY <1>0 DEF Row
  <2>2. QED BY <1>0, <1>1, <2>1 DEF MarkPending, SetRecord, SetRow, TypeOK
<1>2. CASE Requeue(r)
  <2>1. [analysis[r] EXCEPT !.status = "pending_vlm", !.due = TRUE, !.lease = "none"] \in Row
    BY <1>0 DEF Row
  <2>2. QED BY <1>0, <1>2, <2>1 DEF Requeue, SetRecord, SetRow, TypeOK
<1>3. CASE TransitionDone(r)
  <2>1. [analysis[r] EXCEPT !.status = "vlm_done", !.due = TRUE, !.lease = "none"] \in Row
    BY <1>0 DEF Row
  <2>2. QED BY <1>0, <1>3, <2>1 DEF TransitionDone, SetRecord, SetRow, TypeOK
<1>4. CASE MarkErrorRetryable(r, n)
  <2>1. [analysis[r] EXCEPT !.status = "pending_vlm", !.retry = n, !.due = FALSE,
                            !.lease = "none"] \in Row
    BY <1>0 DEF Row
  <2>2. QED BY <1>0, <1>4, <2>1 DEF MarkErrorRetryable, SetRecord, SetRow, TypeOK
<1>5. CASE MarkErrorFinal(r)
  <2>1. [analysis[r] EXCEPT !.status = "error_final", !.lease = "none"] \in Row
    BY <1>0 DEF Row
  <2>2. QED BY <1>0, <1>5, <2>1 DEF MarkErrorFinal, SetRecord, SetRow, TypeOK
<1>6. QED BY <1>1, <1>2, <1>3, <1>4, <1>5

(* TypeOK holds: in particular retry_count never exceeds max_retries.      *)
THEOREM TypeCorrect == Spec => []TypeOK
<1> USE PipelineAssumption
<1>1. Init => TypeOK
  BY DEF Init, TypeOK, NoRow, Row, IdleWorker, IdleRequest
<1>2. TypeOK /\ [Next]_vars => TypeOK'
  <2> SUFFICES ASSUME TypeOK, [Next]_vars PROVE TypeOK'
    OBVIOUS
  <2> USE DEF TypeOK
  <2>1. ASSUME NEW h \in Handlers, NEW r \in Records, NEW image \in BOOLEAN,
               Receive(h, r, image)
        PROVE TypeOK'
    BY <2>1 DEF Receive
  <2>2. ASSUME NEW h \in Handlers, HandlerStep(h) PROVE TypeOK'
    <3> DEFINE r == request[h].rec
    <3>1. CASE IngestOrGetRecord(h)
      BY <3>1 DEF IngestOrGetRecord, SetRecord, IdleRequest
    <3>2. CASE InsertScreenshot(h)
      BY <3>2 DEF InsertScreenshot, IdleRequest
    <3>3. CASE RequeueSkipped(h)
      <4>1. r \in Records /\ request' \in [Handlers ->
              [pc : {"record", "shot", "requeue", "mark"}, rec : Records, image : BOOLEAN]
              \cup {IdleRequest}]
        BY <3>3 DEF RequeueSkipped, IdleRequest
      <4>2. Requeue(r)
        BY <3>3 DEF RequeueSkipped
      <4>3. QED BY <3>3, <4>1, <4>2, TransactionsTyped, 0 \in 0 .. MaxRetries DEF RequeueSkipped
    <3>4. CASE MarkAndReply(h)
      <4>1. r \in Records
        BY <3>4 DEF MarkAndReply, IdleRequest
      <4>2. MarkPending(r)
        BY <3>4 DEF MarkAndReply
      <4>3. QED BY <3>4, <4>1, <4>2, TransactionsTyped, 0 \in 0 .. MaxRetries DEF MarkAndReply
    <3>5. QED BY <2>2, <3>1, <3>2, <3>3, <3>4 DEF HandlerStep
  <2>3. ASSUME NEW w \in Workers, WorkerStep(w) PROVE TypeOK'
    <3> DEFINE r == worker[w].rec
    <3>0. ASSUME worker[w].pc # "idle"
          PROVE /\ r \in Records /\ analysis[r] \in Row
                /\ worker[w].retry \in 0 .. MaxRetries
      BY <3>0 DEF IdleWorker
    <3>1. ASSUME NEW t \in Records, ClaimNextTask(w, t) PROVE TypeOK'
      <4>1. /\ [analysis[t] EXCEPT !.status = "processing_vlm", !.lease = "fresh"] \in Row
            /\ analysis[t].retry \in 0 .. MaxRetries
        <5>1. analysis[t] \in Row
          OBVIOUS
        <5>2. QED BY <5>1 DEF Row
      <4>2. analysis' \in [Records -> Row]
        BY <3>1, <4>1, RowWritten DEF ClaimNextTask
      <4>3. QED BY <3>1, <4>1, <4>2 DEF ClaimNextTask
    <3>2. CASE ReadMeta(w)
      BY <3>2 DEF ReadMeta, IdleWorker
    <3>3. CASE SkipNoImage(w)
      <4>1. TransitionDone(r) /\ r \in Records
        BY <3>0, <3>3 DEF SkipNoImage
      <4>2. QED BY <3>3, <4>1, TransactionsTyped, 0 \in 0 .. MaxRetries DEF SkipNoImage
    <3>4. CASE Describe(w)
      BY <3>4 DEF Describe, IdleWorker
    <3>5. CASE SaveDescription(w)
      <4>1. r \in Records /\ [analysis[r] EXCEPT !.desc = TRUE] \in Row
        BY <3>0, <3>5 DEF SaveDescription, Row
      <4>2. analysis' \in [Records -> Row]
        BY <3>5, <4>1, RowWritten DEF SaveDescription
      <4>3. QED BY <3>5, <4>2 DEF SaveDescription, IdleWorker
    <3>6. CASE Classify(w)
      <4>1. r \in Records /\ [analysis[r] EXCEPT !.category = "model"] \in Row
        BY <3>0, <3>6 DEF Classify, Row
      <4>2. analysis' \in [Records -> Row]
        BY <3>6, <4>1, RowWritten DEF Classify
      <4>3. QED BY <3>6, <4>2 DEF Classify, IdleWorker
    <3>7. CASE Finish(w)
      <4>1. TransitionDone(r) /\ r \in Records
        BY <3>0, <3>7 DEF Finish
      <4>2. QED BY <3>7, <4>1, TransactionsTyped, 0 \in 0 .. MaxRetries DEF Finish
    <3>8. CASE Fail(w)
      <4> DEFINE n == worker[w].retry + 1
      <4>1. r \in Records /\ n \in Nat /\ fails' \in [Records -> Nat]
        BY <3>0, <3>8 DEF Fail
      <4>2. CASE n > MaxRetries
        <5>1. MarkErrorFinal(r)
          BY <3>8, <4>2 DEF Fail
        <5>2. QED BY <3>8, <4>1, <5>1, TransactionsTyped, 0 \in 0 .. MaxRetries DEF Fail
      <4>3. CASE ~(n > MaxRetries)
        <5>1. MarkErrorRetryable(r, n) /\ n \in 0 .. MaxRetries
          BY <3>8, <4>1, <4>3 DEF Fail
        <5>2. QED BY <3>8, <4>1, <5>1, TransactionsTyped DEF Fail
      <4>4. QED BY <4>2, <4>3
    <3>9. QED
      BY <2>3, <3>1, <3>2, <3>3, <3>4, <3>5, <3>6, <3>7, <3>8 DEF WorkerStep
  <2>4. ASSUME NEW w \in Workers, WorkerError(w) PROVE TypeOK'
    BY <2>4 DEF WorkerError
  <2>5. ASSUME NEW r \in Records, BackoffElapses(r) \/ LeaseAges(r) \/ ApplyLabel(r)
        PROVE TypeOK'
    <3>0. analysis[r] \in Row
      OBVIOUS
    <3> DEFINE row == IF BackoffElapses(r) THEN [analysis[r] EXCEPT !.due = TRUE]
                      ELSE IF LeaseAges(r) THEN [analysis[r] EXCEPT !.lease = "old"]
                      ELSE [analysis[r] EXCEPT !.category = "manual",
                              !.status = IF @ = "none" THEN "vlm_done" ELSE @]
    <3>1. row \in Row
      <4>1. [analysis[r] EXCEPT !.due = TRUE] \in Row
        BY <3>0 DEF Row
      <4>2. [analysis[r] EXCEPT !.lease = "old"] \in Row
        BY <3>0 DEF Row
      <4>3. \A s \in {"vlm_done", analysis[r].status} :
               [analysis[r] EXCEPT !.category = "manual", !.status = s] \in Row
        BY <3>0 DEF Row
      <4>4. QED BY <4>1, <4>2, <4>3
    <3>2. SetRow(r, row)
      BY <2>5 DEF BackoffElapses, LeaseAges, ApplyLabel
    <3>3. QED
      BY <2>5, <3>1, <3>2, RowWritten DEF BackoffElapses, LeaseAges, ApplyLabel
  <2>6. CASE ReclaimStaleTasks
    <3>1. \A r \in Records :
              [analysis[r] EXCEPT !.status = "pending_vlm", !.lease = "none"] \in Row
      <4>1. \A r \in Records : analysis[r] \in Row
        OBVIOUS
      <4>2. QED BY <4>1 DEF Row
    <3>2. overtaken' \subseteq Records
      BY <2>6 DEF ReclaimStaleTasks, Stale
    <3>3. analysis' \in [Records -> Row]
      BY <2>6, <3>1 DEF ReclaimStaleTasks
    <3>4. QED BY <2>6, <3>2, <3>3 DEF ReclaimStaleTasks
  <2>7. CASE Crash
    BY <2>7 DEF Crash
  <2>8. CASE UNCHANGED vars
    BY <2>8 DEF vars
  <2>9. QED BY <2>1, <2>2, <2>3, <2>4, <2>5, <2>6, <2>7, <2>8 DEF Next
<1>3. QED BY <1>1, <1>2, PTL DEF Spec

-----------------------------------------------------------------------------
(* One record's two status columns agree. *)
Mirrors(t) == IF analysis[t].status = "none" THEN record[t] \in {"none", "captured"}
              ELSE record[t] = Shown(analysis[t].status)

(* A step that writes neither column of a record, or no status, keeps them. *)
LEMMA TransactionsMirror ==
    ASSUME TypeOK, NEW r \in Records, NEW n \in 0 .. MaxRetries,
           \/ MarkPending(r) /\ record[r] # "none"
           \/ Requeue(r) \/ TransitionDone(r)
           \/ MarkErrorRetryable(r, n) \/ MarkErrorFinal(r),
           NEW t \in Records
    PROVE  /\ Mirrors(t) => Mirrors(t)'
           /\ record[t] # "none" => record'[t] # "none"
<1> USE DEF SetRecord, SetRow, Mirrors, Shown, TypeOK, Row
<1>1. CASE MarkPending(r) /\ record[r] # "none"
  BY <1>1 DEF MarkPending
<1>2. CASE Requeue(r)
  <2>1. CASE analysis[r].status = "vlm_done" /\ ~analysis[r].desc
    <3>1. /\ analysis'[r].status = "pending_vlm"
          /\ record'[r] = IF record[r] = "vlm_done" THEN "pending_vlm" ELSE record[r]
          /\ t # r => analysis'[t] = analysis[t] /\ record'[t] = record[t]
      BY <1>2, <2>1 DEF Requeue
    <3>2. QED BY <2>1, <3>1
  <2>2. QED BY <1>2, <2>1 DEF Requeue
<1>3. CASE TransitionDone(r)
  BY <1>3 DEF TransitionDone
<1>4. CASE MarkErrorRetryable(r, n)
  BY <1>4 DEF MarkErrorRetryable
<1>5. CASE MarkErrorFinal(r)
  BY <1>5 DEF MarkErrorFinal
<1>6. QED BY <1>1, <1>2, <1>3, <1>4, <1>5

MirrorInv == TypeOK /\ Inserted /\ MirrorInSync

LEMMA MirrorInitially == Init => MirrorInv
BY PipelineAssumption
   DEF Init, MirrorInv, TypeOK, Inserted, MirrorInSync, NoRow, Row, IdleWorker, IdleRequest

LEMMA MirrorStep == MirrorInv /\ TypeOK' /\ [Next]_vars => MirrorInv'
<1> SUFFICES ASSUME TypeOK, Inserted, MirrorInSync, TypeOK', [Next]_vars
             PROVE  (Inserted /\ MirrorInSync)'
  BY DEF MirrorInv
<1> USE PipelineAssumption
<1>0. MirrorInSync <=> \A t \in Records \ seeded : Mirrors(t)
  BY DEF MirrorInSync, Mirrors
<1>00. MirrorInSync' <=> \A t \in Records \ seeded' : Mirrors(t)'
  BY DEF MirrorInSync, Mirrors
<1>1. ASSUME NEW r \in Records, NEW n \in 0 .. MaxRetries, UNCHANGED seeded,
             \/ MarkPending(r) /\ record[r] # "none"
             \/ Requeue(r) \/ TransitionDone(r)
             \/ MarkErrorRetryable(r, n) \/ MarkErrorFinal(r)
      PROVE  MirrorInSync' /\ \A t \in Records : record[t] # "none" => record'[t] # "none"
  <2>1. \A t \in Records : /\ Mirrors(t) => Mirrors(t)'
                           /\ record[t] # "none" => record'[t] # "none"
    BY <1>1, TransactionsMirror
  <2>2. QED BY <1>0, <1>00, <1>1, <2>1
<1>2. ASSUME UNCHANGED <<request, record>> PROVE Inserted'
  BY <1>2 DEF Inserted
<1>3. ASSUME UNCHANGED request, \A t \in Records : record[t] # "none" => record'[t] # "none"
      PROVE  Inserted'
  BY <1>3 DEF Inserted, TypeOK, IdleRequest
<1>4. ASSUME NEW h \in Handlers, NEW r \in Records, NEW image \in BOOLEAN,
             Receive(h, r, image)
      PROVE (Inserted /\ MirrorInSync)'
  BY <1>4 DEF Receive, Inserted, MirrorInSync, TypeOK
<1>5. ASSUME NEW h \in Handlers, HandlerStep(h) PROVE (Inserted /\ MirrorInSync)'
  <2> DEFINE r == request[h].rec
  <2>0. ASSUME request[h].pc # "idle" PROVE r \in Records
    BY <2>0 DEF TypeOK, IdleRequest
  <2>1. CASE IngestOrGetRecord(h)
    <3>1. r \in Records
      BY <2>0, <2>1 DEF IngestOrGetRecord
    <3>2. MirrorInSync'
      BY <2>1, <3>1 DEF IngestOrGetRecord, SetRecord, MirrorInSync, Shown, TypeOK
    <3>3. Inserted'
      BY <2>1, <3>1 DEF IngestOrGetRecord, SetRecord, Inserted, TypeOK
    <3>4. QED BY <3>2, <3>3
  <2>2. CASE InsertScreenshot(h)
    BY <2>2 DEF InsertScreenshot, Inserted, MirrorInSync, TypeOK
  <2>3. CASE RequeueSkipped(h)
    <3>1. Requeue(r) /\ r \in Records /\ UNCHANGED seeded /\ record[r] # "none"
      BY <2>0, <2>3 DEF RequeueSkipped, Inserted
    <3>2. MirrorInSync' /\ \A t \in Records : record[t] # "none" => record'[t] # "none"
      BY <1>1, <3>1, 0 \in 0 .. MaxRetries
    <3>3. Inserted'
      BY <2>3, <3>1, <3>2 DEF RequeueSkipped, Inserted, TypeOK, IdleRequest
    <3>4. QED BY <3>2, <3>3
  <2>4. CASE MarkAndReply(h)
    <3>1. MarkPending(r) /\ r \in Records /\ UNCHANGED seeded /\ record[r] # "none"
      BY <2>0, <2>4 DEF MarkAndReply, Inserted
    <3>2. MirrorInSync' /\ \A t \in Records : record[t] # "none" => record'[t] # "none"
      BY <1>1, <3>1, 0 \in 0 .. MaxRetries
    <3>3. Inserted'
      BY <2>4, <3>1, <3>2 DEF MarkAndReply, Inserted, TypeOK, IdleRequest
    <3>4. QED BY <3>2, <3>3
  <2>5. QED BY <1>5, <2>1, <2>2, <2>3, <2>4 DEF HandlerStep
<1>6. ASSUME NEW w \in Workers, WorkerStep(w) PROVE (Inserted /\ MirrorInSync)'
  <2> DEFINE r == worker[w].rec
  <2>0. ASSUME worker[w].pc # "idle" PROVE r \in Records /\ worker[w].retry \in 0 .. MaxRetries
    BY <2>0 DEF TypeOK, IdleWorker
  <2>1. ASSUME NEW t \in Records, ClaimNextTask(w, t) PROVE (Inserted /\ MirrorInSync)'
    BY <2>1, <1>2 DEF ClaimNextTask, SetRow, MirrorInSync, Shown, TypeOK, Row
  <2>2. CASE ReadMeta(w)
    BY <2>2, <1>2 DEF ReadMeta, MirrorInSync
  <2>3. CASE SkipNoImage(w) \/ Finish(w)
    <3>1. TransitionDone(r) /\ r \in Records /\ UNCHANGED <<seeded, request>>
      BY <2>0, <2>3 DEF SkipNoImage, Finish
    <3>2. QED BY <1>1, <1>3, <3>1, 0 \in 0 .. MaxRetries
  <2>4. CASE Describe(w)
    BY <2>4, <1>2 DEF Describe, MirrorInSync
  <2>5. CASE SaveDescription(w)
    BY <2>0, <2>5, <1>2 DEF SaveDescription, SetRow, MirrorInSync, Shown, TypeOK, Row
  <2>6. CASE Classify(w)
    BY <2>0, <2>6, <1>2 DEF Classify, SetRow, MirrorInSync, Shown, TypeOK, Row
  <2>7. CASE Fail(w)
    <3> DEFINE n == worker[w].retry + 1
    <3>1. r \in Records /\ n \in Nat /\ UNCHANGED <<seeded, request>>
      BY <2>0, <2>7 DEF Fail
    <3>2. \/ MarkErrorFinal(r)
          \/ MarkErrorRetryable(r, n) /\ n \in 0 .. MaxRetries
      BY <2>7, <3>1 DEF Fail
    <3>3. QED BY <1>1, <1>3, <3>1, <3>2, 0 \in 0 .. MaxRetries
  <2>8. QED
    BY <1>6, <2>1, <2>2, <2>3, <2>4, <2>5, <2>6, <2>7 DEF WorkerStep
<1>7. ASSUME NEW w \in Workers, WorkerError(w) PROVE (Inserted /\ MirrorInSync)'
  BY <1>2, <1>7 DEF WorkerError, MirrorInSync
<1>8. ASSUME NEW r \in Records, BackoffElapses(r) \/ LeaseAges(r) \/ ApplyLabel(r)
      PROVE (Inserted /\ MirrorInSync)'
  <2>1. CASE BackoffElapses(r) \/ LeaseAges(r)
    <3>1. \A t \in Records : analysis'[t].status = analysis[t].status
      <4>1. CASE BackoffElapses(r)
        BY <4>1 DEF BackoffElapses, SetRow, TypeOK, Row
      <4>2. CASE LeaseAges(r)
        BY <4>2 DEF LeaseAges, SetRow, TypeOK, Row
      <4>3. QED BY <2>1, <4>1, <4>2
    <3>2. UNCHANGED <<record, seeded, request>>
      BY <2>1 DEF BackoffElapses, LeaseAges
    <3>3. MirrorInSync'
      BY <3>1, <3>2 DEF MirrorInSync
    <3>4. QED BY <1>2, <3>2, <3>3
  <2>2. CASE ApplyLabel(r)
    <3>1. \A t \in Records \ seeded' : analysis'[t].status = analysis[t].status
      BY <2>2 DEF ApplyLabel, SetRow, TypeOK, Row
    <3>2. MirrorInSync'
      BY <2>2, <3>1 DEF ApplyLabel, MirrorInSync
    <3>3. QED BY <1>2, <2>2, <3>2 DEF ApplyLabel
  <2>3. QED BY <1>8, <2>1, <2>2
<1>9. CASE ReclaimStaleTasks
  <2>1. \A t \in Records :
           /\ Shown(analysis'[t].status) = Shown(analysis[t].status)
           /\ analysis'[t].status = "none" <=> analysis[t].status = "none"
    <3> SUFFICES ASSUME NEW t \in Records
                 PROVE  /\ Shown(analysis'[t].status) = Shown(analysis[t].status)
                        /\ analysis'[t].status = "none" <=> analysis[t].status = "none"
      OBVIOUS
    <3>0. analysis[t] \in Row
      BY DEF TypeOK
    <3>1. CASE t \in Stale
      <4>1. analysis'[t].status = "pending_vlm" /\ analysis[t].status = "processing_vlm"
        BY <1>9, <3>0, <3>1 DEF ReclaimStaleTasks, Stale, Row
      <4>2. QED BY <4>1 DEF Shown
    <3>2. CASE t \notin Stale
      BY <1>9, <3>2 DEF ReclaimStaleTasks, Shown
    <3>3. QED BY <3>1, <3>2
  <2>2. MirrorInSync'
    BY <1>9, <2>1 DEF ReclaimStaleTasks, MirrorInSync
  <2>3. QED BY <1>2, <1>9, <2>2 DEF ReclaimStaleTasks
<1>10. CASE Crash
  BY <1>10 DEF Crash, Inserted, MirrorInSync, IdleRequest
<1>11. CASE UNCHANGED vars
  BY <1>2, <1>11 DEF vars, MirrorInSync
<1>12. QED
  BY <1>4, <1>5, <1>6, <1>7, <1>8, <1>9, <1>10, <1>11 DEF Next

(* records.status never contradicts analysis_results.status, for any       *)
(* number of workers, overlapping ones included, and of faults: every      *)
(* transaction that moves one column moves the other, and a handler marks  *)
(* only a record it inserted or found (Inserted).                          *)
THEOREM StatusMirrored == Spec => []MirrorInSync
<1>1. Spec => [](TypeOK /\ Inserted /\ MirrorInSync)
  <2>1. MirrorInv /\ TypeOK /\ TypeOK' /\ [Next]_vars => MirrorInv'
    BY MirrorStep
  <2>2. QED BY <2>1, MirrorInitially, TypeCorrect, PTL DEF Spec, MirrorInv
<1>2. QED BY <1>1, PTL

-----------------------------------------------------------------------------
(* Why one worker at most: the inductive invariant behind SingleOwner,     *)
(* AttemptsBounded and DescribedIsTerminal.                                *)
OwnInv == TypeOK /\ Owned /\ Counted

LEMMA OwnInitially == Init => OwnInv
BY PipelineAssumption
   DEF Init, OwnInv, TypeOK, Owned, Counted, NoRow, Row, IdleWorker, IdleRequest

(* A step that changes no worker and, of the rows, no claimed one.         *)
LEMMA UnclaimedRowWritten ==
    ASSUME OwnInv, UNCHANGED <<worker, fails>>, overtaken \subseteq overtaken',
           \A r \in Records \ overtaken' :
               /\ analysis[r].status = "processing_vlm" =>
                     \/ \A w \in Workers : worker[w].rec # r
                     \/ analysis'[r].status = "processing_vlm"
               /\ analysis'[r].retry = analysis[r].retry
               /\ analysis'[r].status = "error_final" <=> analysis[r].status = "error_final"
    PROVE  (Owned /\ Counted)'
<1>1. \A w \in Workers : worker[w].pc # "idle" => worker[w].rec \in Records
  BY DEF OwnInv, TypeOK, IdleWorker
<1>2. Owned'
  BY <1>1 DEF OwnInv, Owned
<1>3. Counted'
  BY DEF OwnInv, Counted
<1>4. QED BY <1>2, <1>3

(* A worker hands its task back: nobody holds it any more.                 *)
LEMMA TaskReleased ==
    ASSUME OwnInv, NEW w \in Workers, worker[w].pc # "idle",
           worker' = [worker EXCEPT ![w] = IdleWorker], UNCHANGED overtaken,
           \A t \in Records : t # worker[w].rec =>
               analysis'[t] = analysis[t] /\ fails'[t] = fails[t],
           LET r == worker[w].rec
           IN  r \notin overtaken =>
                   fails'[r] = IF analysis'[r].status = "error_final"
                               THEN MaxRetries + 1 ELSE analysis'[r].retry
    PROVE  (Owned /\ Counted)'
<1>1. \A v \in Workers : worker[v].pc # "idle" => worker[v].rec \in Records
  BY DEF OwnInv, TypeOK, IdleWorker
<1>2. \A v \in Workers : worker'[v].pc # "idle" =>
          /\ v # w /\ worker'[v] = worker[v]
          /\ worker[v].rec \notin overtaken => worker[v].rec # worker[w].rec
  BY DEF OwnInv, Owned, IdleWorker, TypeOK
<1>3. \A v \in Workers : worker'[v].rec \in Records => worker'[v] = worker[v]
  BY PipelineAssumption DEF IdleWorker, OwnInv, TypeOK
<1>4. Owned'
  BY <1>1, <1>2, <1>3 DEF OwnInv, Owned
<1>5. Counted'
  BY <1>1 DEF OwnInv, Counted
<1>6. QED BY <1>4, <1>5

(* A worker moves on with its task: of the row only desc, category change. *)
LEMMA TaskAdvanced ==
    ASSUME OwnInv, NEW w \in Workers, worker[w].pc # "idle", NEW next,
           worker' = [worker EXCEPT ![w].pc = next], UNCHANGED <<fails, overtaken>>,
           \A t \in Records : /\ analysis'[t].status = analysis[t].status
                              /\ analysis'[t].retry = analysis[t].retry
    PROVE  (Owned /\ Counted)'
<1>1. \A v \in Workers : worker[v].pc # "idle" => worker[v].rec \in Records
  BY DEF OwnInv, TypeOK, IdleWorker
<1>2. \A v \in Workers : /\ worker'[v].rec = worker[v].rec
                         /\ worker'[v].retry = worker[v].retry
                         /\ worker'[v].pc # "idle" => worker[v].pc # "idle"
  BY DEF OwnInv, TypeOK, IdleWorker
<1>3. Owned'
  BY <1>1, <1>2 DEF OwnInv, Owned
<1>4. Counted'
  BY DEF OwnInv, Counted
<1>5. QED BY <1>3, <1>4

LEMMA OwnStep == OwnInv /\ TypeOK' /\ [Next]_vars => OwnInv'
<1> SUFFICES ASSUME OwnInv, TypeOK', [Next]_vars PROVE (Owned /\ Counted)'
  BY DEF OwnInv
<1>0. \A r \in Records : analysis[r] \in Row /\ fails[r] \in Nat
  BY DEF OwnInv, TypeOK
<1>1. ASSUME UNCHANGED <<worker, fails, analysis, overtaken>> PROVE (Owned /\ Counted)'
  BY <1>1 DEF OwnInv, Owned, Counted
<1>2. ASSUME NEW h \in Handlers, NEW r \in Records, NEW image \in BOOLEAN,
             Receive(h, r, image)
      PROVE (Owned /\ Counted)'
  BY <1>1, <1>2 DEF Receive
<1>3. ASSUME NEW h \in Handlers, HandlerStep(h) PROVE (Owned /\ Counted)'
  <2> DEFINE r == request[h].rec
  <2>0. ASSUME request[h].pc # "idle" PROVE r \in Records
    BY <2>0 DEF OwnInv, TypeOK, IdleRequest
  <2>1. CASE IngestOrGetRecord(h) \/ InsertScreenshot(h)
    BY <1>1, <2>1 DEF IngestOrGetRecord, InsertScreenshot
  <2>2. CASE RequeueSkipped(h)
    <3>1. r \in Records /\ Requeue(r) /\ UNCHANGED <<worker, fails, overtaken>>
      BY <2>0, <2>2 DEF RequeueSkipped
    <3>2. CASE analysis[r].status = "vlm_done" /\ ~analysis[r].desc
      <4>1. /\ \A t \in Records : t # r => analysis'[t] = analysis[t]
            /\ analysis'[r].status = "pending_vlm" /\ analysis'[r].retry = analysis[r].retry
        <5>1. SetRow(r, [analysis[r] EXCEPT !.status = "pending_vlm", !.due = TRUE,
                                             !.lease = "none"])
          BY <3>1, <3>2 DEF Requeue
        <5>2. /\ analysis'[r] = [analysis[r] EXCEPT !.status = "pending_vlm", !.due = TRUE,
                                             !.lease = "none"]
              /\ \A t \in Records : t # r => analysis'[t] = analysis[t]
          BY <1>0, <5>1, <3>1, SetRowEffect DEF OwnInv, TypeOK
        <5>3. QED BY <1>0, <5>2 DEF Row
      <4>2. QED BY <3>1, <3>2, <4>1, UnclaimedRowWritten
    <3>3. QED BY <1>1, <3>1, <3>2 DEF Requeue
  <2>3. CASE MarkAndReply(h)
    <3>1. r \in Records /\ MarkPending(r) /\ UNCHANGED <<worker, fails, overtaken>>
      BY <2>0, <2>3 DEF MarkAndReply
    <3>2. CASE analysis[r].status = "none"
      <4>1. /\ \A t \in Records : t # r => analysis'[t] = analysis[t]
            /\ analysis'[r].status = "pending_vlm" /\ analysis'[r].retry = analysis[r].retry
        BY <1>0, <3>1, <3>2 DEF MarkPending, SetRow, OwnInv, TypeOK, Row
      <4>2. QED BY <3>1, <3>2, <4>1, UnclaimedRowWritten
    <3>3. QED BY <1>1, <3>1, <3>2 DEF MarkPending
  <2>4. QED BY <1>3, <2>1, <2>2, <2>3 DEF HandlerStep
<1>4. ASSUME NEW w \in Workers, NEW r \in Records, ClaimNextTask(w, r)
      PROVE (Owned /\ Counted)'
  <2>1. /\ analysis'[r].status = "processing_vlm"
        /\ analysis'[r].retry = analysis[r].retry
        /\ \A t \in Records : t # r => analysis'[t] = analysis[t]
    <3>1. SetRow(r, [analysis[r] EXCEPT !.status = "processing_vlm", !.lease = "fresh"])
      BY <1>4 DEF ClaimNextTask
    <3>2. /\ analysis'[r] = [analysis[r] EXCEPT !.status = "processing_vlm", !.lease = "fresh"]
          /\ \A t \in Records : t # r => analysis'[t] = analysis[t]
      BY <1>0, <3>1, SetRowEffect DEF OwnInv, TypeOK
    <3>3. QED BY <1>0, <3>2 DEF Row
  <2>2. r \notin overtaken => \A v \in Workers : worker[v].rec # r
    <3>0. SUFFICES ASSUME r \notin overtaken PROVE \A v \in Workers : worker[v].rec # r
      OBVIOUS
    <3>1. analysis[r].status = "pending_vlm"
      BY <1>4 DEF ClaimNextTask
    <3>2. \A v \in Workers : worker[v].pc # "idle" => worker[v].rec # r
      BY <3>0, <3>1 DEF OwnInv, Owned
    <3>3. \A v \in Workers : worker[v].pc = "idle" => worker[v].rec = NoRecord
      BY DEF OwnInv, TypeOK, IdleWorker
    <3>4. QED BY <3>2, <3>3, PipelineAssumption DEF PipelineAssumption
  <2>3. /\ worker'[w] = [pc |-> "meta", rec |-> r, retry |-> analysis[r].retry]
        /\ \A v \in Workers : v # w => worker'[v] = worker[v]
    BY <1>4 DEF ClaimNextTask, OwnInv, TypeOK
  <2>4. \A v \in Workers : worker[v].pc # "idle" => worker[v].rec \in Records
    BY DEF OwnInv, TypeOK, IdleWorker
  <2>5. Owned'
    <3>1. UNCHANGED overtaken
      BY <1>4 DEF ClaimNextTask
    <3>2. QED BY <2>1, <2>2, <2>3, <2>4, <3>1 DEF OwnInv, Owned
  <2>6. Counted'
    BY <1>4, <2>1 DEF ClaimNextTask, OwnInv, Counted
  <2>7. QED BY <2>5, <2>6
<1>5. ASSUME NEW w \in Workers, ReadMeta(w) \/ Describe(w) PROVE (Owned /\ Counted)'
  <2>1. PICK next : worker' = [worker EXCEPT ![w].pc = next]
    BY <1>5 DEF ReadMeta, Describe
  <2>2. QED BY <1>5, <2>1, TaskAdvanced DEF ReadMeta, Describe
<1>6. ASSUME NEW w \in Workers, SaveDescription(w) \/ Classify(w)
      PROVE (Owned /\ Counted)'
  <2>1. PICK next : worker' = [worker EXCEPT ![w].pc = next]
    BY <1>6 DEF SaveDescription, Classify
  <2>2. \A t \in Records : /\ analysis'[t].status = analysis[t].status
                           /\ analysis'[t].retry = analysis[t].retry
    BY <1>6 DEF SaveDescription, Classify, SetRow, OwnInv, TypeOK, Row
  <2>3. QED BY <1>6, <2>1, <2>2, TaskAdvanced DEF SaveDescription, Classify
<1>7. ASSUME NEW w \in Workers, SkipNoImage(w) \/ Finish(w) PROVE (Owned /\ Counted)'
  <2> DEFINE r == worker[w].rec
  <2>1. /\ worker[w].pc # "idle" /\ worker' = [worker EXCEPT ![w] = IdleWorker]
        /\ TransitionDone(r) /\ UNCHANGED <<fails, overtaken>>
    BY <1>7 DEF SkipNoImage, Finish
  <2>2. r \in Records /\ (r \notin overtaken => analysis[r].status = "processing_vlm")
    BY <2>1 DEF OwnInv, Owned, TypeOK, IdleWorker
  <2>3. /\ analysis'[r].status = "vlm_done" /\ analysis'[r].retry = analysis[r].retry
        /\ \A t \in Records : t # r => analysis'[t] = analysis[t]
    BY <1>0, <2>1, <2>2 DEF TransitionDone, SetRow, OwnInv, TypeOK, Row
  <2>4. r \notin overtaken => fails'[r] = analysis'[r].retry
    BY <2>1, <2>2, <2>3 DEF OwnInv, Counted
  <2>5. QED BY <2>1, <2>3, <2>4, TaskReleased
<1>8. ASSUME NEW w \in Workers, Fail(w) PROVE (Owned /\ Counted)'
  <2> DEFINE r == worker[w].rec
             n == worker[w].retry + 1
  <2>1. /\ worker[w].pc # "idle" /\ worker' = [worker EXCEPT ![w] = IdleWorker]
        /\ IF n > MaxRetries THEN MarkErrorFinal(r) ELSE MarkErrorRetryable(r, n)
        /\ fails' = IF r \in overtaken THEN fails ELSE [fails EXCEPT ![r] = @ + 1]
        /\ UNCHANGED overtaken
    BY <1>8 DEF Fail
  <2>2. /\ r \in Records /\ worker[w].retry \in 0 .. MaxRetries
        /\ r \notin overtaken => /\ analysis[r].status = "processing_vlm"
                                /\ worker[w].retry = analysis[r].retry
    BY <1>0, <2>1 DEF OwnInv, Owned, TypeOK, IdleWorker
  <2>3. /\ r \notin overtaken => fails'[r] = n
        /\ \A t \in Records : t # r => fails'[t] = fails[t]
    BY <2>1, <2>2 DEF OwnInv, Counted, TypeOK
  <2>4. CASE n > MaxRetries
    <3>1. /\ analysis'[r].status = "error_final"
          /\ \A t \in Records : t # r => analysis'[t] = analysis[t]
      <4>1. SetRow(r, [analysis[r] EXCEPT !.status = "error_final", !.lease = "none"])
        BY <2>1, <2>4 DEF MarkErrorFinal
      <4>2. /\ analysis'[r] = [analysis[r] EXCEPT !.status = "error_final", !.lease = "none"]
            /\ \A t \in Records : t # r => analysis'[t] = analysis[t]
        BY <1>0, <2>2, <4>1, SetRowEffect DEF OwnInv, TypeOK
      <4>3. QED BY <1>0, <2>2, <4>2 DEF Row
    <3>2. n = MaxRetries + 1
      BY <2>2, <2>4, PipelineAssumption DEF PipelineAssumption
    <3>3. QED BY <2>1, <2>3, <3>1, <3>2, TaskReleased
  <2>5. CASE ~(n > MaxRetries)
    <3>1. /\ analysis'[r].status = "pending_vlm" /\ analysis'[r].retry = n
          /\ \A t \in Records : t # r => analysis'[t] = analysis[t]
      <4>1. SetRow(r, [analysis[r] EXCEPT !.status = "pending_vlm", !.retry = n, !.due = FALSE,
                                           !.lease = "none"])
        BY <2>1, <2>5 DEF MarkErrorRetryable
      <4>2. /\ analysis'[r] = [analysis[r] EXCEPT !.status = "pending_vlm", !.retry = n, !.due = FALSE,
                                           !.lease = "none"]
            /\ \A t \in Records : t # r => analysis'[t] = analysis[t]
        BY <1>0, <2>2, <4>1, SetRowEffect DEF OwnInv, TypeOK
      <4>3. QED BY <1>0, <2>2, <4>2 DEF Row
    <3>2. QED BY <2>1, <2>3, <3>1, TaskReleased
  <2>6. QED BY <2>4, <2>5
<1>9. ASSUME NEW w \in Workers, WorkerError(w) PROVE (Owned /\ Counted)'
  <2>1. /\ worker[w].pc # "idle" /\ worker' = [worker EXCEPT ![w] = IdleWorker]
        /\ UNCHANGED <<analysis, fails, overtaken>>
    BY <1>9 DEF WorkerError
  <2>2. worker[w].rec \in Records
    BY <2>1 DEF OwnInv, TypeOK, IdleWorker
  <2>3. QED BY <2>1, <2>2, TaskReleased DEF OwnInv, Counted
<1>10. ASSUME NEW r \in Records, BackoffElapses(r) \/ LeaseAges(r) \/ ApplyLabel(r)
       PROVE (Owned /\ Counted)'
  <2>1. /\ UNCHANGED <<worker, fails, overtaken>>
        /\ \A t \in Records : t # r => analysis'[t] = analysis[t]
    BY <1>10 DEF BackoffElapses, LeaseAges, ApplyLabel, SetRow, OwnInv, TypeOK
  <2>2. CASE BackoffElapses(r)
    <3>1. /\ analysis'[r].status = analysis[r].status
          /\ analysis'[r].retry = analysis[r].retry
      BY <1>0, <2>2 DEF BackoffElapses, SetRow, OwnInv, TypeOK, Row
    <3>2. QED BY <2>1, <3>1, UnclaimedRowWritten
  <2>3. CASE LeaseAges(r)
    <3>1. /\ analysis'[r].status = analysis[r].status
          /\ analysis'[r].retry = analysis[r].retry
      BY <1>0, <2>3 DEF LeaseAges, SetRow, OwnInv, TypeOK, Row
    <3>2. QED BY <2>1, <3>1, UnclaimedRowWritten
  <2>4. CASE ApplyLabel(r)
    <3>1. /\ analysis'[r].status = IF analysis[r].status = "none" THEN "vlm_done"
                                   ELSE analysis[r].status
          /\ analysis'[r].retry = analysis[r].retry
      BY <1>0, <2>4 DEF ApplyLabel, SetRow, OwnInv, TypeOK, Row
    <3>2. QED BY <2>1, <3>1, UnclaimedRowWritten
  <2>5. QED BY <1>10, <2>2, <2>3, <2>4
<1>11. CASE ReclaimStaleTasks
  <2>1. /\ UNCHANGED <<worker, fails>> /\ overtaken \subseteq overtaken'
        /\ \A t \in Stale \ overtaken' : \A w \in Workers : worker[w].rec # t
    BY <1>11 DEF ReclaimStaleTasks, Stale
  <2>2. \A t \in Records : t \notin Stale => analysis'[t] = analysis[t]
    BY <1>11 DEF ReclaimStaleTasks
  <2>3. \A t \in Stale : /\ analysis[t].status = "processing_vlm"
                         /\ analysis'[t].status = "pending_vlm"
                         /\ analysis'[t].retry = analysis[t].retry
    BY <1>0, <1>11 DEF ReclaimStaleTasks, Stale, Row
  <2>4. QED BY <2>1, <2>2, <2>3, UnclaimedRowWritten
<1>12. CASE Crash
  <2>1. Owned'
    BY <1>12 DEF Crash, Owned, IdleWorker
  <2>2. Counted'
    BY <1>12 DEF Crash, OwnInv, Counted
  <2>3. QED BY <2>1, <2>2
<1>13. CASE UNCHANGED vars
  BY <1>1, <1>13 DEF vars
<1>14. QED
  BY <1>2, <1>3, <1>4, <1>5, <1>6, <1>7, <1>8, <1>9, <1>10, <1>11, <1>12, <1>13
     DEF Next, WorkerStep

THEOREM OwnershipHolds == Spec => []OwnInv
<1>1. OwnInv /\ TypeOK' /\ [Next]_vars => OwnInv'
  BY OwnStep
<1>2. QED BY <1>1, OwnInitially, TypeCorrect, PTL DEF Spec

(* A task that was not reclaimed from a live worker is worked on by one    *)
(* worker and nothing else changes its status while it is claimed.         *)
THEOREM OneOwner == Spec => []SingleOwner
<1>1. OwnInv => SingleOwner
  BY DEF OwnInv, Owned, SingleOwner
<1>2. QED BY <1>1, OwnershipHolds, PTL

(* A record that was not reclaimed from a live worker fails at most        *)
(* max_retries + 1 times, and it is given up exactly when it has, whatever *)
(* is reclaimed after a crash or replayed.                                 *)
THEOREM RetriesBounded == Spec => []AttemptsBounded
<1>1. OwnInv => AttemptsBounded
  <2> SUFFICES ASSUME OwnInv, NEW r \in Records \ overtaken
               PROVE  /\ fails[r] <= MaxRetries + 1
                      /\ (analysis[r].status = "error_final") <=> (fails[r] = MaxRetries + 1)
    BY DEF AttemptsBounded
  <2>1. analysis[r].retry \in 0 .. MaxRetries
    BY DEF OwnInv, TypeOK, Row
  <2>2. fails[r] = IF analysis[r].status = "error_final"
                   THEN MaxRetries + 1 ELSE analysis[r].retry
    BY DEF OwnInv, Counted
  <2>3. QED BY <2>1, <2>2, PipelineAssumption DEF PipelineAssumption
<1>2. QED BY <1>1, OwnershipHolds, PTL

(* A described record stays so, and a manual label on it stays manual. *)
KeptDescribed(r) ==
    Described(r)' /\ (analysis[r].category = "manual" => analysis'[r].category = "manual")

LEMMA DescribedStep ==
    ASSUME OwnInv, [Next]_vars, NEW r \in Records \ overtaken, Described(r)
    PROVE  KeptDescribed(r)
<1>0. analysis[r] \in Row /\ analysis[r].status = "vlm_done" /\ analysis[r].desc
  BY DEF OwnInv, TypeOK, Described
<1>1. \A w \in Workers : worker[w].pc # "idle" => worker[w].rec # r /\ worker[w].rec \in Records
  BY <1>0 DEF OwnInv, Owned, TypeOK, IdleWorker
<1>2. \A h \in Handlers : request[h].pc # "idle" => request[h].rec \in Records
  BY DEF OwnInv, TypeOK, IdleRequest
<1>3. ASSUME analysis'[r] = analysis[r] PROVE KeptDescribed(r)
  BY <1>0, <1>3 DEF Described, KeptDescribed
<1>4. ASSUME NEW t \in Records, NEW row, t # r, SetRow(t, row) PROVE KeptDescribed(r)
  BY <1>3, <1>4, SetRowEffect DEF OwnInv, TypeOK
<1>5. ASSUME NEW h \in Handlers, HandlerStep(h) PROVE KeptDescribed(r)
  <2>1. CASE RequeueSkipped(h)
    <3> DEFINE t == request[h].rec
    <3>1. t \in Records /\ Requeue(t)
      BY <1>2, <2>1 DEF RequeueSkipped
    <3>2. CASE t = r
      BY <1>0, <1>3, <3>1, <3>2 DEF Requeue
    <3>3. CASE t # r
      BY <1>3, <1>4, <3>1, <3>3 DEF Requeue
    <3>4. QED BY <3>2, <3>3
  <2>2. CASE MarkAndReply(h)
    <3> DEFINE t == request[h].rec
    <3>1. t \in Records /\ MarkPending(t)
      BY <1>2, <2>2 DEF MarkAndReply
    <3>2. CASE t = r
      BY <1>0, <1>3, <3>1, <3>2 DEF MarkPending
    <3>3. CASE t # r
      BY <1>3, <1>4, <3>1, <3>3 DEF MarkPending
    <3>4. QED BY <3>2, <3>3
  <2>3. QED
    BY <1>3, <1>5, <2>1, <2>2 DEF HandlerStep, IngestOrGetRecord, InsertScreenshot
<1>6. ASSUME NEW w \in Workers, WorkerStep(w) PROVE KeptDescribed(r)
  <2>1. ASSUME NEW t \in Records, ClaimNextTask(w, t) PROVE KeptDescribed(r)
    BY <1>0, <1>4, <2>1 DEF ClaimNextTask
  <2>2. CASE ReadMeta(w) \/ Describe(w)
    BY <1>3, <2>2 DEF ReadMeta, Describe
  <2>3. CASE SkipNoImage(w) \/ Finish(w)
    BY <1>1, <1>4, <2>3 DEF SkipNoImage, Finish, TransitionDone
  <2>4. CASE SaveDescription(w) \/ Classify(w)
    BY <1>1, <1>4, <2>4 DEF SaveDescription, Classify
  <2>5. CASE Fail(w)
    BY <1>1, <1>4, <2>5 DEF Fail, MarkErrorFinal, MarkErrorRetryable
  <2>6. QED BY <1>6, <2>1, <2>2, <2>3, <2>4, <2>5 DEF WorkerStep
<1>7. ASSUME NEW t \in Records, BackoffElapses(t) \/ LeaseAges(t) \/ ApplyLabel(t)
      PROVE KeptDescribed(r)
  <2>1. CASE t # r
    BY <1>4, <1>7, <2>1 DEF BackoffElapses, LeaseAges, ApplyLabel
  <2>2. CASE t = r
    <3>1. /\ analysis'[r].status = analysis[r].status /\ analysis'[r].desc = analysis[r].desc
          /\ analysis'[r].category \in {"manual", analysis[r].category}
      <4>1. PICK row : /\ SetRow(r, row)
                       /\ \/ row = [analysis[r] EXCEPT !.due = TRUE]
                          \/ row = [analysis[r] EXCEPT !.lease = "old"]
                          \/ row = [analysis[r] EXCEPT !.category = "manual",
                                      !.status = IF @ = "none" THEN "vlm_done" ELSE @]
        BY <1>7, <2>2 DEF BackoffElapses, LeaseAges, ApplyLabel
      <4>2. analysis'[r] = row
        BY <4>1, SetRowEffect DEF OwnInv, TypeOK
      <4>3. CASE row = [analysis[r] EXCEPT !.due = TRUE]
        BY <1>0, <4>2, <4>3 DEF Row
      <4>4. CASE row = [analysis[r] EXCEPT !.lease = "old"]
        BY <1>0, <4>2, <4>4 DEF Row
      <4>5. CASE row = [analysis[r] EXCEPT !.category = "manual",
                          !.status = IF @ = "none" THEN "vlm_done" ELSE @]
        BY <1>0, <4>2, <4>5 DEF Row
      <4>6. QED BY <4>1, <4>3, <4>4, <4>5
    <3>2. QED BY <1>0, <3>1 DEF Described, KeptDescribed
  <2>3. QED BY <2>1, <2>2
<1>8. CASE ReclaimStaleTasks
  BY <1>0, <1>3, <1>8 DEF ReclaimStaleTasks, Stale
<1>9. QED
  BY <1>3, <1>5, <1>6, <1>7, <1>8 DEF Next, Receive, WorkerError, Crash, vars

(* A described record stays done and described unless it was reclaimed     *)
(* from a live worker: no worker holds it (Owned), and requeue and         *)
(* mark_pending pass it over.                                              *)
THEOREM DescriptionsStay == Spec => DescribedIsTerminal
<1>1. OwnInv /\ [Next]_vars
        => [\A r \in Records \ overtaken : Described(r) => Described(r)']_vars
  BY DescribedStep DEF KeptDescribed
<1>2. QED BY <1>1, OwnershipHolds, PTL DEF Spec, DescribedIsTerminal

(* A manual label on a described record is final unless the record was     *)
(* reclaimed from a live worker.                                           *)
THEOREM ManualLabelsStay == Spec => ManualLabelIsFinal
<1> SUFFICES ASSUME NEW r \in Records
             PROVE  Spec => [](Described(r) /\ analysis[r].category = "manual"
                                 => [](analysis[r].category = "manual" \/ r \in overtaken))
  BY DEF ManualLabelIsFinal
<1> DEFINE Labelled == Described(r) /\ analysis[r].category = "manual"
           Manual == analysis[r].category = "manual"
           Overtaken == r \in overtaken
<1>1. OwnInv /\ [Next]_vars /\ Labelled /\ ~Overtaken => Labelled'
  BY DescribedStep DEF KeptDescribed
<1>2. Labelled => Manual
  OBVIOUS
<1>3. [Next]_vars /\ Overtaken => Overtaken'
  BY DEF Next, HandlerStep, Receive, IngestOrGetRecord, InsertScreenshot, RequeueSkipped,
         MarkAndReply, WorkerStep, ClaimNextTask, ReadMeta, SkipNoImage, Describe,
         SaveDescription, Classify, Finish, Fail, WorkerError, BackoffElapses, LeaseAges,
         ApplyLabel, ReclaimStaleTasks, Crash, vars
<1> HIDE DEF Labelled, Manual, Overtaken
<1>4. Spec => [](Labelled => [](Manual \/ Overtaken))
  BY <1>1, <1>2, <1>3, OwnershipHolds, PTL DEF Spec
<1>5. QED BY <1>4 DEF Labelled, Manual, Overtaken
=============================================================================
