------------------------------ MODULE Embeddings ------------------------------
(* The text embeddings of the descriptions (worker/loop.py): every worker  *)
(* embeds what it has just described, best effort, and one sweep per start *)
(* of the server embeds the descriptions that have none.  Both work on the *)
(* same rows with awaits in between, while rows whose worker failed after  *)
(* describing them are reclaimed and described again.  A claim and the     *)
(* saving of the description are one step here: nothing embeds in between  *)
(* what the step changes.                                                  *)
EXTENDS Naturals, FiniteSets, SequencesExt

CONSTANTS
    Rows,       \* rows of analysis_results
    Consumers,  \* the worker's consumer coroutines
    Poison,     \* rows whose text the model always refuses
    Batch,      \* _BACKFILL_BATCH
    MaxFails,   \* _BACKFILL_MAX_CONSECUTIVE_FAILS
    Free,       \* a consumer without a row
    MaxTexts,   \* bound: descriptions of a row
    MaxErrors   \* bound: restarts and database errors

ASSUME EmbeddingsAssumption ==
    /\ IsFiniteSet(Rows) /\ Poison \subseteq Rows /\ Free \notin Rows
    /\ Batch \in Nat \ {0} /\ MaxFails \in Nat \ {0} /\ MaxTexts \in Nat \ {0}
    /\ MaxErrors \in Nat

VARIABLES
    row,        \* status, vlm_desc and text_embedding: the number of a text, 0 for NULL
    consumer,   \* the row each consumer holds, the text it saved, its next step
    sweep,      \* the coroutine of _backfill_embeddings and its local variables
    missed,     \* history: rows whose live embedding failed since the start
    errors

embeddingsVars == <<row, consumer, sweep, missed, errors>>

Idle == [pc |-> "idle", row |-> Free, text |-> 0]
Started == [pc |-> "fetch", batch |-> <<>>, skipped |-> {}, fails |-> 0]

Undescribed == [status |-> "pending", text |-> 0, vec |-> 0]
BeforeEmbeddings == [status |-> "done", text |-> 1, vec |-> 0]

EmbeddingsInit ==
    /\ row \in [Rows -> {Undescribed, BeforeEmbeddings}]
    /\ consumer = [c \in Consumers |-> Idle] /\ sweep = Started
    /\ missed = {} /\ errors = 0

Held == {consumer[c].row : c \in Consumers} \ {Free}

-----------------------------------------------------------------------------
(* A worker: the description, the final status, then the embedding.        *)
Describe(c, r) ==
    /\ consumer[c] = Idle /\ row[r].status = "pending" /\ row[r].text < MaxTexts
    /\ row' = [row EXCEPT ![r].status = "processing", ![r].text = @ + 1]
    /\ consumer' = [consumer EXCEPT ![c] = [pc |-> "finish", row |-> r, text |-> row'[r].text]]
    /\ UNCHANGED <<sweep, missed, errors>>

Finish(c) ==
    /\ consumer[c].pc = "finish"
    /\ row' = [row EXCEPT ![consumer[c].row].status = "done"]
    /\ consumer' = [consumer EXCEPT ![c].pc = "embed"]
    /\ UNCHANGED <<sweep, missed, errors>>

EmbedLive(c) ==
    /\ consumer[c].pc = "embed" /\ consumer[c].row \notin Poison
    /\ consumer' = [consumer EXCEPT ![c].pc = "store"]
    /\ UNCHANGED <<row, sweep, missed, errors>>

EmbedLiveFails(c) ==
    /\ consumer[c].pc = "embed"
    /\ missed' = missed \cup {consumer[c].row}
    /\ consumer' = [consumer EXCEPT ![c] = Idle]
    /\ UNCHANGED <<row, sweep, errors>>

StoreLive(c) ==
    /\ consumer[c].pc = "store"
    /\ row' = [row EXCEPT ![consumer[c].row].vec = consumer[c].text]
    /\ consumer' = [consumer EXCEPT ![c] = Idle]
    /\ UNCHANGED <<sweep, missed, errors>>

(* The database refuses a worker's next step: _consume_loop logs it.       *)
ConsumerError(c) ==
    /\ consumer[c].pc \in {"finish", "store"} /\ errors < MaxErrors /\ errors' = errors + 1
    /\ missed' = IF consumer[c].pc = "store" THEN missed \cup {consumer[c].row} ELSE missed
    /\ consumer' = [consumer EXCEPT ![c] = Idle]
    /\ UNCHANGED <<row, sweep>>

(* reclaim_stale_tasks, of a row that no worker works on any more          *)
ReclaimRow(r) ==
    /\ row[r].status = "processing" /\ r \notin Held
    /\ row' = [row EXCEPT ![r].status = "pending"]
    /\ UNCHANGED <<consumer, sweep, missed, errors>>

-----------------------------------------------------------------------------
(* The sweep; the store returns the rows in no particular order.           *)
Missing == {r \in Rows : row[r].text # 0 /\ row[r].vec = 0}
Smaller(a, b) == IF a < b THEN a ELSE b

(* A mistake the property below must notice: taking a short batch for the last. *)
FetchedLast(found) ==
    IF Len(found) < Batch THEN [sweep EXCEPT !.pc = "complete"]
    ELSE [sweep EXCEPT !.pc = "embed",
              !.batch = [i \in DOMAIN found |-> [row |-> found[i], text |-> row[found[i]].text]]]

Fetched(found) ==
    IF found = <<>> THEN [sweep EXCEPT !.pc = "complete"]
    ELSE [sweep EXCEPT !.pc = "embed",
              !.batch = [i \in DOMAIN found |-> [row |-> found[i], text |-> row[found[i]].text]]]

Fetch ==
    LET wanted == Missing \ sweep.skipped
    IN  /\ sweep.pc = "fetch"
        /\ \E S \in SUBSET wanted :
              /\ Cardinality(S) = Smaller(Batch, Cardinality(wanted))
              /\ \E found \in SetToSeqs(S) : sweep' = Fetched(found)
        /\ UNCHANGED <<row, consumer, missed, errors>>

FetchFails ==
    /\ sweep.pc = "fetch" /\ errors < MaxErrors /\ errors' = errors + 1
    /\ sweep' = [sweep EXCEPT !.pc = "aborted"]
    /\ UNCHANGED <<row, consumer, missed>>

EmbedNext ==
    /\ sweep.pc = "embed" /\ Head(sweep.batch).row \notin Poison
    /\ sweep' = [sweep EXCEPT !.pc = "store"]
    /\ UNCHANGED <<row, consumer, missed, errors>>

AfterHead == [sweep EXCEPT !.batch = Tail(@), !.pc = IF Len(sweep.batch) = 1 THEN "fetch" ELSE "embed"]

EmbedNextFails ==
    /\ sweep.pc = "embed"
    /\ LET fails == sweep.fails + 1
           after == [AfterHead EXCEPT !.skipped = @ \cup {Head(sweep.batch).row}, !.fails = fails]
       IN  sweep' = IF fails >= MaxFails THEN [after EXCEPT !.pc = "aborted"] ELSE after
    /\ UNCHANGED <<row, consumer, missed, errors>>

StoreNext ==
    /\ sweep.pc = "store"
    /\ row' = [row EXCEPT ![Head(sweep.batch).row].vec = Head(sweep.batch).text]
    /\ sweep' = [AfterHead EXCEPT !.fails = 0]
    /\ UNCHANGED <<consumer, missed, errors>>

(* The server is started again; so it is when saving fails in the sweep,   *)
(* which ends the worker's run() and with it the server's TaskGroup.       *)
RestartSweep ==
    /\ errors < MaxErrors /\ errors' = errors + 1
    /\ consumer' = [c \in Consumers |-> Idle] /\ sweep' = Started /\ missed' = {}
    /\ UNCHANGED row

EmbeddingsNext ==
    \/ \E c \in Consumers : \/ \E r \in Rows : Describe(c, r)
                            \/ Finish(c) \/ EmbedLive(c) \/ EmbedLiveFails(c) \/ StoreLive(c)
                            \/ ConsumerError(c)
    \/ \E r \in Rows : ReclaimRow(r)
    \/ Fetch \/ FetchFails \/ EmbedNext \/ EmbedNextFails \/ StoreNext
    \/ RestartSweep

EmbeddingsSpec == EmbeddingsInit /\ [][EmbeddingsNext]_embeddingsVars

-----------------------------------------------------------------------------
EmbeddingsTypeOK ==
    /\ row \in [Rows -> [status : {"pending", "processing", "done"},
                         text : 0 .. MaxTexts, vec : 0 .. MaxTexts]]
    /\ consumer \in [Consumers -> [pc : {"idle", "finish", "embed", "store"},
                                   row : Rows \cup {Free}, text : 0 .. MaxTexts]]
    /\ sweep \in [pc : {"fetch", "embed", "store", "complete", "aborted"},
                  batch : Seq([row : Rows, text : 0 .. MaxTexts]),
                  skipped : SUBSET Rows, fails : Nat]
    /\ sweep.pc \in {"embed", "store"} => sweep.batch # <<>>
    /\ missed \subseteq Rows /\ errors \in 0 .. MaxErrors

(* "The backfill covers for the rest" (the comment at the live embedding): *)
(* once a sweep ended by finding nothing, a row that is done and described *)
(* has no embedding only if embedding it failed since the start, in the    *)
(* sweep or live, or its worker is about to embed it; a poisonous row, or  *)
(* rows described meanwhile, never make the sweep leave a healthy one out. *)
MissingTried ==
    sweep.pc = "complete" =>
        \A r \in Missing : row[r].status = "done" => r \in sweep.skipped \cup missed \cup Held

-----------------------------------------------------------------------------
(* db/sqlite.py:153: "Text embedding of vlm_desc".  Not so when a row is   *)
(* described again: the sweep saves the embedding of the text it fetched,  *)
(* or saved one before, and nobody replaces it.                            *)
EmbeddingOfDescription ==
    \A r \in Rows \ Held : row[r].status = "done" /\ row[r].vec # 0 => row[r].vec = row[r].text
=============================================================================
