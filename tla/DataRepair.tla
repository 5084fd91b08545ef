------------------------------ MODULE DataRepair ------------------------------
(* timetrace-admin repair-data-quality: inspect_data_quality and           *)
(* repair_data_quality of db/sqlite.py on a database that older versions   *)
(* and crashes left defects in.                                            *)
EXTENDS Integers, FiniteSets, FiniteSetsExt

CONSTANTS
    Rows,       \* records, with at most one analysis row each
    Digests,   \* summary rows
    Machines,   \* devices, the legacy scope without a device among them
    MaxClock,   \* the time of the repair; records start in 0 .. MaxClock
    Bridge,     \* _MAX_ORPHAN_BRIDGE_MS
    MaxDefects  \* bound on the defects of one database

ASSUME DataRepairAssumption ==
    MaxClock \in Nat /\ Bridge \in Nat \ {0} /\ MaxDefects \in Nat /\ IsFiniteSet(Rows)

VARIABLES
    begins, ends, device,    \* records: ts_start, ts_end, device_id
    mirror,                  \* records.status
    analysis,                \* analysis_results
    image,                   \* the records with a screenshot
    summary,                 \* status and text of the summaries
    fts,                     \* the summaries in the text index
    before                   \* what the repair found, once it has run

repairVars == <<begins, ends, device, mirror, analysis, image, summary, fts, before>>

Open == MaxClock + 1
NotRun == <<>>
Statuses == {"pending_vlm", "vlm_done", "error_final"} \* a claimed row is as a failed one
Narrated == [status |-> "narrated", text |-> TRUE]
Done == [status |-> "vlm_done", text |-> TRUE, residue |-> FALSE, seeded |-> FALSE]

RepairInit ==
    /\ begins \in [Rows -> 0 .. MaxClock] /\ ends = begins /\ device \in [Rows -> Machines]
    /\ analysis = [r \in Rows |-> Done] /\ mirror = [r \in Rows |-> "vlm_done"]
    /\ image = Rows /\ summary = [w \in Digests |-> Narrated]
    /\ fts = Digests /\ before = NotRun

Sound == [end |-> ends, mirror |-> mirror, analysis |-> analysis, summary |-> summary]

-----------------------------------------------------------------------------
(* What is found in old databases.                                         *)
Defects ==
      Cardinality({r \in Rows : ends[r] # begins[r]}) + Cardinality(Rows \ image)
    + Cardinality({r \in Rows : analysis[r] # Done})
    + Cardinality({w \in Digests : summary[w] # Narrated}) + Cardinality(Digests \ fts)

AnySpan(r, t) ==
    /\ ends' = [ends EXCEPT ![r] = t]
    /\ UNCHANGED <<begins, device, mirror, analysis, image, summary, fts>>

(* The record's own status follows the analysis, or was left behind, as it *)
(* is when a manual label comes first (set_category_final).                *)
AnyAnalysis(r, row, status) ==
    /\ analysis' = [analysis EXCEPT ![r] = row]
    /\ mirror' = [mirror EXCEPT ![r] = status]
    /\ UNCHANGED <<begins, ends, device, image, summary, fts>>

NoImage(r) ==
    /\ image' = image \ {r}
    /\ UNCHANGED <<begins, ends, device, mirror, analysis, summary, fts>>

AnySummary(w, status, text) ==
    /\ summary' = [summary EXCEPT ![w] = [status |-> status, text |-> text]]
    /\ UNCHANGED <<begins, ends, device, mirror, analysis, image, fts>>

NotIndexed(w) ==
    /\ fts' = fts \ {w}
    /\ UNCHANGED <<begins, ends, device, mirror, analysis, image, summary>>

-----------------------------------------------------------------------------
(* The boundary of a record: the next start of its device within Bridge,   *)
(* otherwise its own.                                                      *)
BoundaryAnyDevice(r) ==
    LET next == {begins[n] : n \in {m \in Rows : begins[m] > begins[r]}}
    IN  IF next # {} THEN Min(next) ELSE begins[r]

BoundaryOf(r) ==
    LET next == {begins[n] : n \in {m \in Rows : /\ device[m] = device[r]
                                                 /\ begins[m] > begins[r]
                                                 /\ begins[m] - begins[r] <= Bridge}}
    IN  IF next # {} THEN Min(next) ELSE begins[r]

Expired == {r \in Rows : ends[r] = Open /\ begins[r] < MaxClock - Bridge}
BadSpans == {r \in Rows : ends[r] # Open /\ (ends[r] < begins[r] \/ ends[r] - begins[r] > Bridge)}
StaleErrors == {r \in Rows : analysis[r].status = "vlm_done" /\ analysis[r].residue}
Undescribed == {r \in Rows : /\ analysis[r].status = "vlm_done" /\ ~analysis[r].text
                             /\ ~analysis[r].seeded /\ r \in image}
EmptyNarratives == {w \in Digests : summary[w].status = "narrated" /\ ~summary[w].text}

Requeued(row) == [row EXCEPT !.status = "pending_vlm", !.residue = FALSE]

(* One transaction, statement after statement; the records follow the      *)
(* requeued rows, and with them every queued row without a description.    *)
RepairData ==
    /\ before' = Sound
    /\ ends' = [r \in Rows |-> IF r \in Expired \cup BadSpans THEN BoundaryOf(r) ELSE ends[r]]
    /\ analysis' = [r \in Rows |->
           IF r \in Undescribed THEN Requeued(analysis[r])
           ELSE IF r \in StaleErrors THEN [analysis[r] EXCEPT !.residue = FALSE]
           ELSE analysis[r]]
    /\ mirror' = [r \in Rows |->
           IF Undescribed # {} /\ analysis'[r].status = "pending_vlm" /\ ~analysis[r].text
              /\ ~analysis[r].seeded /\ r \in image
           THEN "pending_vlm" ELSE mirror[r]]
    /\ summary' = [w \in Digests |->
           IF w \in EmptyNarratives THEN [status |-> "pending_summary", text |-> FALSE]
           ELSE summary[w]]
    /\ fts' = {w \in Digests : summary'[w].text}
    /\ UNCHANGED <<begins, device, image>>

Defect ==
    /\ before = NotRun /\ Defects < MaxDefects /\ UNCHANGED before
    /\ \/ \E r \in Rows : \/ \E t \in 0 .. Open : AnySpan(r, t)
                          \/ \E status \in Statuses,
                                text, residue, seeded \in BOOLEAN :
                                \E own \in IF seeded THEN {status, "captured"} ELSE {status} :
                                AnyAnalysis(r, [status |-> status, text |-> text,
                                                residue |-> residue, seeded |-> seeded], own)
                          \/ NoImage(r)
       \/ \E w \in Digests :
             \/ \E status \in {"narrated", "pending_summary"}, text \in BOOLEAN :
                   AnySummary(w, status, text)
             \/ NotIndexed(w)

RepairNext == Defect \/ (before = NotRun /\ RepairData)
RepairSpec == RepairInit /\ [][RepairNext]_repairVars

-----------------------------------------------------------------------------
RepairTypeOK ==
    /\ begins \in [Rows -> 0 .. MaxClock] /\ ends \in [Rows -> 0 .. Open]
    /\ device \in [Rows -> Machines] /\ image \subseteq Rows /\ fts \subseteq Digests

Healthy(r, end) ==
    IF end = Open THEN begins[r] >= MaxClock - Bridge
    ELSE begins[r] <= end /\ end - begins[r] <= Bridge

(* A repair leaves every bar with a healthy end, its own if it was healthy *)
(* and otherwise one of its own device's timeline.                         *)
BarsRepaired ==
    \A r \in Rows :
        /\ Healthy(r, ends[r])
        /\ IF Healthy(r, before.end[r]) THEN ends[r] = before.end[r]
           ELSE \E n \in Rows : device[n] = device[r] /\ ends[r] = begins[n]

(* It changes no description and no label, re-queues what has an image and *)
(* neither of them, and touches no other row but for its left-over errors. *)
AnalysesRepaired ==
    \A r \in Rows :
        LET was == before.analysis[r]
            row == analysis[r]
        IN  /\ row.text = was.text /\ row.seeded = was.seeded
            /\ IF was.status = "vlm_done" /\ ~was.text /\ ~was.seeded /\ r \in image
               THEN row.status = "pending_vlm" /\ mirror[r] = "pending_vlm"
               ELSE row.status = was.status
            /\ row.residue = (was.residue /\ was.status # "vlm_done")
            /\ mirror[r] # before.mirror[r] => mirror[r] = row.status
            /\ before.mirror[r] = was.status => mirror[r] = row.status

NarrativesRepaired ==
    \A w \in Digests :
        /\ summary[w].text => w \in fts
        /\ w \in fts => summary[w].text
        /\ IF before.summary[w].text THEN summary[w] = before.summary[w]
           ELSE summary[w] = [status |-> "pending_summary", text |-> FALSE]

(* One run mends the database whatever defects it has, several of them in  *)
(* one row included: it leaves nothing for a second run, and keeps what    *)
(* was not broken: healthy bars, descriptions, manual labels, skipped      *)
(* records, retries under way, narratives.                                 *)
RepairComplete ==
    before # NotRun =>
        /\ Expired = {} /\ BadSpans = {} /\ StaleErrors = {}
        /\ Undescribed = {} /\ EmptyNarratives = {}
        /\ BarsRepaired /\ AnalysesRepaired /\ NarrativesRepaired
=============================================================================
