-------------------------- MODULE AnalysisPipeline --------------------------
(***************************************************************************)
(* The server's analysis pipeline: POST /ingest/record handlers (replayed, *)
(* concurrent), the VLM workers, the reclaim loop and the manual label     *)
(* tool, all of them interleaving on the rows of records, screenshots and  *)
(* analysis_results.  Every step is one transaction under Database._lock;  *)
(* between two steps of a handler or a worker there is an await.           *)
(***************************************************************************)
EXTENDS Naturals

CONSTANTS Records,     \* client_record_ids
          Workers,     \* the vlm_concurrency consumers
          Handlers,    \* ingest requests in progress at the same time
          MaxRetries,  \* WorkerConfig.max_retries
          MaxFaults,   \* bound: crashes and unexpected exceptions
          NoRecord     \* no record in hand

ASSUME PipelineAssumption ==
    /\ MaxRetries \in Nat /\ MaxFaults \in Nat
    /\ NoRecord \notin Records

VARIABLES record,    \* records.status, "none" before the insert
          shot,      \* records with a screenshots row
          analysis,  \* the analysis_results row of each record
          worker,    \* what each worker does next, on which record
          request,   \* what each ingest handler does next
          seeded,    \* history: rows created by a manual label
          fails,     \* history: calls of _fail per record, until it is overtaken
          overtaken, \* history: records reclaimed from a worker still on them
          faults     \* crashes and unexpected exceptions so far

vars == <<record, shot, analysis, worker, request, seeded, fails, overtaken, faults>>

NoRow == [status |-> "none", desc |-> FALSE, category |-> "none", retry |-> 0,
          due |-> TRUE, lease |-> "none"]
IdleWorker == [pc |-> "idle", rec |-> NoRecord, retry |-> 0]
IdleRequest == [pc |-> "idle", rec |-> NoRecord, image |-> FALSE]

-----------------------------------------------------------------------------
(* Rows a reclaim takes back: locked_at 300 s ago or more. *)
Stale == {r \in Records : analysis[r].status = "processing_vlm"
                          /\ analysis[r].lease = "old"}

SetRecord(r, s) == record' = [record EXCEPT ![r] = s]
SetRow(r, row) == analysis' = [analysis EXCEPT ![r] = row]

(* Mistakes the properties below must notice (each stands in for the       *)
(* definition it is named after).                                          *)
RequeueAnyDone(r) ==
    IF analysis[r].status = "vlm_done"
    THEN /\ SetRow(r, [analysis[r] EXCEPT
              !.status = "pending_vlm", !.due = TRUE, !.lease = "none"])
         /\ SetRecord(r, "pending_vlm")
    ELSE UNCHANGED <<analysis, record>>

MarkErrorRetryableStaysClaimed(r, n) ==
    /\ SetRow(r, [analysis[r] EXCEPT
              !.retry = n, !.due = FALSE, !.lease = "none"])
    /\ SetRecord(r, "pending_vlm")

MarkErrorFinalUnmirrored(r) ==
    /\ SetRow(r, [analysis[r] EXCEPT !.status = "error_final", !.lease = "none"])
    /\ UNCHANGED record

ClaimNextTaskUnchecked(w, r) ==
    /\ worker[w].pc = "idle"
    /\ analysis[r].status \in {"pending_vlm", "processing_vlm"} /\ analysis[r].due
    /\ SetRow(r, [analysis[r] EXCEPT !.status = "processing_vlm", !.lease = "fresh"])
    /\ worker' = [worker EXCEPT ![w] = [pc |-> "meta", rec |-> r,
                                        retry |-> analysis[r].retry]]
    /\ UNCHANGED <<record, shot, request, seeded, fails, overtaken, faults>>

-----------------------------------------------------------------------------
(* One SQL transaction each.                                               *)

(* mark_pending: INSERT OR IGNORE, then captured -> pending_vlm. *)
MarkPending(r) ==
    /\ IF analysis[r].status # "none" THEN UNCHANGED analysis
       ELSE SetRow(r, [analysis[r] EXCEPT !.status = "pending_vlm"])
    /\ SetRecord(r, IF record[r] = "captured" THEN "pending_vlm" ELSE record[r])

(* requeue_skipped_for_vlm: only a row skipped for lack of an image. *)
Requeue(r) ==
    IF analysis[r].status = "vlm_done" /\ ~analysis[r].desc
    THEN /\ SetRow(r, [analysis[r] EXCEPT
              !.status = "pending_vlm", !.due = TRUE, !.lease = "none"])
         /\ SetRecord(r, IF record[r] = "vlm_done" THEN "pending_vlm" ELSE record[r])
    ELSE UNCHANGED <<analysis, record>>

(* transition(record_id, "vlm_done") *)
TransitionDone(r) ==
    /\ SetRow(r, [analysis[r] EXCEPT
              !.status = "vlm_done", !.due = TRUE, !.lease = "none"])
    /\ SetRecord(r, "vlm_done")

MarkErrorRetryable(r, n) ==
    /\ SetRow(r, [analysis[r] EXCEPT
              !.status = "pending_vlm", !.retry = n, !.due = FALSE, !.lease = "none"])
    /\ SetRecord(r, "pending_vlm")

MarkErrorFinal(r) ==
    /\ SetRow(r, [analysis[r] EXCEPT !.status = "error_final", !.lease = "none"])
    /\ SetRecord(r, "error_final")

-----------------------------------------------------------------------------
Init == /\ record = [r \in Records |-> "none"]
        /\ shot = {}
        /\ analysis = [r \in Records |-> NoRow]
        /\ worker = [w \in Workers |-> IdleWorker]
        /\ request = [h \in Handlers |-> IdleRequest]
        /\ seeded = {} /\ fails = [r \in Records |-> 0] /\ overtaken = {} /\ faults = 0

(* ingest_record. The client posts the metadata first and the screenshot   *)
(* later with the same id; the outbox may post either again at any time.   *)
Receive(h, r, image) ==
    /\ request[h].pc = "idle"
    /\ request' = [request EXCEPT ![h] = [pc |-> "record", rec |-> r, image |-> image]]
    /\ UNCHANGED <<record, shot, analysis, worker, seeded, fails, overtaken, faults>>

IngestOrGetRecord(h) ==
    LET q == request[h] IN
    /\ q.pc = "record"
    /\ SetRecord(q.rec, IF record[q.rec] = "none" THEN "captured" ELSE record[q.rec])
    /\ request' = [request EXCEPT ![h].pc = IF q.image THEN "shot" ELSE "mark"]
    /\ UNCHANGED <<shot, analysis, worker, seeded, fails, overtaken, faults>>

InsertScreenshot(h) ==
    LET q == request[h] IN
    /\ q.pc = "shot"
    /\ shot' = shot \cup {q.rec}
    /\ request' = [request EXCEPT ![h].pc = IF q.rec \in shot THEN "mark" ELSE "requeue"]
    /\ UNCHANGED <<record, analysis, worker, seeded, fails, overtaken, faults>>

(* Database._lock is FIFO and a worker asks for its transition in the same *)
(* breath as it leaves get_record_meta: a skip decided before this upload's *)
(* screenshot was inserted is written before this requeue.                 *)
RequeueSkipped(h) ==
    /\ request[h].pc = "requeue"
    /\ \A w \in Workers : ~(worker[w].pc = "skip" /\ worker[w].rec = request[h].rec)
    /\ Requeue(request[h].rec)
    /\ request' = [request EXCEPT ![h].pc = "mark"]
    /\ UNCHANGED <<shot, worker, seeded, fails, overtaken, faults>>

MarkAndReply(h) ==
    /\ request[h].pc = "mark"
    /\ MarkPending(request[h].rec)
    /\ request' = [request EXCEPT ![h] = IdleRequest]
    /\ UNCHANGED <<shot, worker, seeded, fails, overtaken, faults>>

-----------------------------------------------------------------------------
(* claim_next_task: one UPDATE ... RETURNING, once the gate is healthy.    *)
(* Which of the due rows is first by updated_at is left open.              *)
ClaimNextTask(w, r) ==
    /\ worker[w].pc = "idle"
    /\ analysis[r].status = "pending_vlm" /\ analysis[r].due
    /\ SetRow(r, [analysis[r] EXCEPT !.status = "processing_vlm", !.lease = "fresh"])
    /\ worker' = [worker EXCEPT ![w] = [pc |-> "meta", rec |-> r,
                                        retry |-> analysis[r].retry]]
    /\ UNCHANGED <<record, shot, request, seeded, fails, overtaken, faults>>

(* get_record_meta: what it read decides what happens awaits later. *)
ReadMeta(w) ==
    /\ worker[w].pc = "meta"
    /\ worker' = [worker EXCEPT ![w].pc =
                     IF worker[w].rec \in shot THEN "describe" ELSE "skip"]
    /\ UNCHANGED <<record, shot, analysis, request, seeded, fails, overtaken, faults>>

SkipNoImage(w) ==
    /\ worker[w].pc = "skip"
    /\ TransitionDone(worker[w].rec)
    /\ worker' = [worker EXCEPT ![w] = IdleWorker]
    /\ UNCHANGED <<shot, request, seeded, fails, overtaken, faults>>

(* Image load and VLM call: text, or VLMError, blank text, a bad image. *)
Describe(w) ==
    /\ worker[w].pc = "describe"
    /\ \E next \in {"save", "fail"} : worker' = [worker EXCEPT ![w].pc = next]
    /\ UNCHANGED <<record, shot, analysis, request, seeded, fails, overtaken, faults>>

SaveDescription(w) ==
    LET r == worker[w].rec IN
    /\ worker[w].pc = "save"
    /\ SetRow(r, [analysis[r] EXCEPT !.desc = TRUE])
    /\ worker' = [worker EXCEPT ![w].pc = "classify"]
    /\ UNCHANGED <<record, shot, request, seeded, fails, overtaken, faults>>

(* set_category_final with what decide_category chose. *)
Classify(w) ==
    LET r == worker[w].rec IN
    /\ worker[w].pc = "classify"
    /\ SetRow(r, [analysis[r] EXCEPT !.category = "model"])
    /\ worker' = [worker EXCEPT ![w].pc = "finish"]
    /\ UNCHANGED <<record, shot, request, seeded, fails, overtaken, faults>>

Finish(w) ==
    /\ worker[w].pc = "finish"
    /\ TransitionDone(worker[w].rec)
    /\ worker' = [worker EXCEPT ![w] = IdleWorker]
    /\ UNCHANGED <<shot, request, seeded, fails, overtaken, faults>>

(* _fail: retry_count is the one the claim returned. *)
Fail(w) ==
    LET r == worker[w].rec  n == worker[w].retry + 1 IN
    /\ worker[w].pc = "fail"
    /\ IF n > MaxRetries THEN MarkErrorFinal(r) ELSE MarkErrorRetryable(r, n)
    /\ fails' = IF r \in overtaken THEN fails ELSE [fails EXCEPT ![r] = @ + 1]
    /\ worker' = [worker EXCEPT ![w] = IdleWorker]
    /\ UNCHANGED <<shot, request, seeded, overtaken, faults>>

(* Any other exception: _consume_loop logs it; the row stays claimed. *)
WorkerError(w) ==
    /\ worker[w].pc # "idle" /\ faults < MaxFaults
    /\ worker' = [worker EXCEPT ![w] = IdleWorker]
    /\ faults' = faults + 1
    /\ UNCHANGED <<record, shot, analysis, request, seeded, fails, overtaken>>

-----------------------------------------------------------------------------
(* Time: a backoff runs out; a lease reaches 300 s, under a live worker    *)
(* only once it is in or past its VLM call (three tries of 120 s each).    *)
BackoffElapses(r) ==
    /\ ~analysis[r].due
    /\ SetRow(r, [analysis[r] EXCEPT !.due = TRUE])
    /\ UNCHANGED <<record, shot, worker, request, seeded, fails, overtaken, faults>>

LeaseAges(r) ==
    /\ analysis[r].status = "processing_vlm" /\ analysis[r].lease = "fresh"
    /\ \A w \in Workers : worker[w].rec = r => worker[w].pc \notin {"meta", "skip"}
    /\ SetRow(r, [analysis[r] EXCEPT !.lease = "old"])
    /\ UNCHANGED <<record, shot, worker, request, seeded, fails, overtaken, faults>>

(* reclaim_stale_tasks: all old leases at once; records.status, retry_count *)
(* and next_retry_at stay.                                                 *)
ReclaimStaleTasks ==
    /\ Stale # {}
    /\ analysis' = [r \in Records |->
           IF r \in Stale
           THEN [analysis[r] EXCEPT !.status = "pending_vlm", !.lease = "none"]
           ELSE analysis[r]]
    /\ overtaken' = overtaken \cup {r \in Stale : \E w \in Workers : worker[w].rec = r}
    /\ UNCHANGED <<record, shot, worker, request, seeded, fails, faults>>

(* apply_label -> set_category_final: upsert, a new row starts vlm_done. *)
ApplyLabel(r) ==
    /\ record[r] # "none"
    /\ SetRow(r, [analysis[r] EXCEPT
              !.category = "manual", !.status = IF @ = "none" THEN "vlm_done" ELSE @])
    /\ seeded' = IF analysis[r].status = "none" THEN seeded \cup {r} ELSE seeded
    /\ UNCHANGED <<record, shot, worker, request, fails, overtaken, faults>>

(* The server dies and restarts: the database stays. *)
Crash ==
    /\ faults < MaxFaults /\ faults' = faults + 1
    /\ worker' = [w \in Workers |-> IdleWorker]
    /\ request' = [h \in Handlers |-> IdleRequest]
    /\ UNCHANGED <<record, shot, analysis, seeded, fails, overtaken>>

HandlerStep(h) ==
    IngestOrGetRecord(h) \/ InsertScreenshot(h) \/ RequeueSkipped(h) \/ MarkAndReply(h)

WorkerStep(w) ==
    \/ \E r \in Records : ClaimNextTask(w, r)
    \/ ReadMeta(w) \/ SkipNoImage(w) \/ Describe(w) \/ SaveDescription(w)
    \/ Classify(w) \/ Finish(w) \/ Fail(w)

Next ==
    \/ \E h \in Handlers : \/ \E r \in Records, image \in BOOLEAN : Receive(h, r, image)
                           \/ HandlerStep(h)
    \/ \E w \in Workers : WorkerStep(w) \/ WorkerError(w)
    \/ \E r \in Records : BackoffElapses(r) \/ LeaseAges(r) \/ ApplyLabel(r)
    \/ ReclaimStaleTasks
    \/ Crash

(* Workers poll every second, their calls have timeouts, and the health    *)
(* gate lets them claim again and again (VLMHealthGate: as long as the     *)
(* endpoint comes back); the reclaim loop is periodic; clocks advance.     *)
(* Nobody has to post or to label.                                         *)
Fairness ==
    /\ \A w \in Workers : WF_vars(WorkerStep(w))
    /\ \A r \in Records : WF_vars(BackoffElapses(r)) /\ WF_vars(LeaseAges(r))
    /\ WF_vars(ReclaimStaleTasks)

Spec == Init /\ [][Next]_vars
FairSpec == Spec /\ Fairness

-----------------------------------------------------------------------------
Row == [status : {"none", "pending_vlm", "processing_vlm", "vlm_done", "error_final"},
        desc : BOOLEAN, category : {"none", "manual", "model"}, retry : 0 .. MaxRetries,
        due : BOOLEAN, lease : {"none", "fresh", "old"}]

TypeOK ==
    /\ record \in [Records -> {"none", "captured", "pending_vlm", "vlm_done", "error_final"}]
    /\ shot \subseteq Records
    /\ analysis \in [Records -> Row]
    /\ worker \in [Workers ->
          [pc : {"meta", "skip", "describe", "save", "classify", "finish", "fail"},
           rec : Records, retry : 0 .. MaxRetries] \cup {IdleWorker}]
    /\ request \in [Handlers ->
          [pc : {"record", "shot", "requeue", "mark"}, rec : Records, image : BOOLEAN]
          \cup {IdleRequest}]
    /\ seeded \subseteq Records
    /\ fails \in [Records -> Nat]
    /\ overtaken \subseteq Records
    /\ faults \in 0 .. MaxFaults

(* records.status, which drives the timeline, says of every record the     *)
(* worker queue created a row for what analysis_results.status says, at    *)
(* every step of every interleaving; a claimed task still shows pending.   *)
Shown(s) == IF s = "processing_vlm" THEN "pending_vlm" ELSE s

MirrorInSync ==
    \A r \in Records \ seeded :
        IF analysis[r].status = "none" THEN record[r] \in {"none", "captured"}
        ELSE record[r] = Shown(analysis[r].status)

(* No task is worked on by two workers, and nobody takes a claimed task    *)
(* from under its worker, unless a VLM call outlasted the lease and the    *)
(* task was reclaimed meanwhile: only such a record is worked on twice.    *)
SingleOwner ==
    \A w \in Workers : worker[w].pc # "idle" /\ worker[w].rec \notin overtaken =>
        /\ analysis[worker[w].rec].status = "processing_vlm"
        /\ \A v \in Workers : worker[v].rec = worker[w].rec => v = w

(* The retries of a record that was not reclaimed from a live worker are   *)
(* bounded across re-claims, restarts and re-enqueueing, and only a record *)
(* that used all of them is given up.                                      *)
AttemptsBounded ==
    \A r \in Records \ overtaken :
        /\ fails[r] <= MaxRetries + 1
        /\ (analysis[r].status = "error_final") <=> (fails[r] = MaxRetries + 1)

(* "a genuinely-described record is never disturbed" (requeue docstring):  *)
(* replayed uploads, reclaims and restarts leave it done and described,    *)
(* unless it was reclaimed from a live worker (whose late failure takes it *)
(* back to pending).                                                       *)
Described(r) == analysis[r].status = "vlm_done" /\ analysis[r].desc

DescribedIsTerminal ==
    [][\A r \in Records \ overtaken : Described(r) => Described(r)']_vars

(* A manual label put on a described record is never replaced by the       *)
(* model's choice, whatever is replayed or restarted afterwards, unless    *)
(* the record was reclaimed from a worker that is still to classify it.    *)
ManualLabelIsFinal ==
    \A r \in Records :
        [](Described(r) /\ analysis[r].category = "manual"
             => [](analysis[r].category = "manual" \/ r \in overtaken))

(* Every queued task is eventually analysed or given up, although workers  *)
(* crash, raise, back off and lose their leases to one another.            *)
ProcessedEventually ==
    \A r \in Records : analysis[r].status = "pending_vlm"
                         ~> analysis[r].status \in {"vlm_done", "error_final"}

-----------------------------------------------------------------------------
(* requeue_skipped_for_vlm, "When the screenshot finally arrives we flip   *)
(* that exact terminal state back to pending_vlm so the worker re-describes *)
(* + classifies it WITH the image": a handler about to acknowledge an      *)
(* upload with an image does not leave its record done without a           *)
(* description, unless another handler is about to requeue it.             *)
NoForgottenScreenshot ==
    \A h \in Handlers :
        LET r == request[h].rec IN
        request[h].pc = "mark" /\ request[h].image /\ r \notin seeded =>
            \/ analysis[r].status # "vlm_done" \/ analysis[r].desc
            \/ \E g \in Handlers : request[g].pc = "requeue" /\ request[g].rec = r

(* set_category_final, "We seed the row as vlm_done on first touch so the  *)
(* worker queue won't re-process and clobber the manual label".            *)
SeededLabelKept ==
    [][\A r \in seeded : analysis[r].category = "manual"
                            => analysis'[r].category = "manual"]_vars
=============================================================================
