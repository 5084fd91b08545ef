------------------------------- MODULE MCWorker -------------------------------
(* The health gate and the embeddings on small instances.  They share no   *)
(* state, so that one at a time is enough: `part` says which, the other    *)
(* keeps its state and asks for no fairness.                               *)
EXTENDS VLMHealthGate, Embeddings

VARIABLE part

MCInit ==
    /\ Init /\ EmbeddingsInit /\ part \in {"gate", "embeddings"}
    /\ IF part = "gate" THEN \A r \in Rows : row[r] = Undescribed ELSE up

MCNext ==
    \/ part = "gate" /\ Next /\ UNCHANGED <<part, embeddingsVars>>
    \/ part = "embeddings" /\ EmbeddingsNext /\ UNCHANGED <<part, vars>>

MCSpec ==
    /\ MCInit /\ [][MCNext]_<<part, vars, embeddingsVars>>
    /\ \A w \in Workers : WF_vars(part = "gate" /\ WorkerStep(w))
    /\ WF_vars(part = "gate" /\ IntervalElapses)
=============================================================================
