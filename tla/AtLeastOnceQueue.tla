-------------------------- MODULE AtLeastOnceQueue --------------------------
(***************************************************************************)
(* What the client outbox promises its two callers, with no files in it:   *)
(* a FIFO queue whose consumer may be shown an acknowledged entry again    *)
(* after a restart, but never misses one whose append has returned.        *)
(***************************************************************************)
EXTENDS Naturals, Sequences

CONSTANT Entries

VARIABLES pending,   \* entries the consumer still has to see, in order
          done,      \* acknowledged entries that a restart may replay
          promised,  \* entries whose append returned to the producer
          settled,   \* entries acknowledged at least once
          broken     \* the storage has corrupted an entry: all bets are off

vars == <<pending, done, promised, settled, broken>>

Contents(s) == {s[i] : i \in DOMAIN s}
Known == Contents(pending) \cup Contents(done) \cup settled \cup promised

Init == /\ pending = <<>> /\ done = <<>>
        /\ promised = {} /\ settled = {}
        /\ broken = FALSE

(* The producer's append returns. *)
Accept(e) == /\ e \notin Known
             /\ pending' = Append(pending, e)
             /\ promised' = promised \cup {e}
             /\ UNCHANGED <<done, settled, broken>>

(* An append that was interrupted may still have stored its entry. *)
Leak(e) == /\ e \notin Known
           /\ pending' = Append(pending, e)
           /\ UNCHANGED <<done, promised, settled, broken>>

(* The consumer acknowledges the head, and only the head. *)
Acknowledge == /\ pending # <<>>
               /\ pending' = Tail(pending)
               /\ done' = Append(done, Head(pending))
               /\ settled' = settled \cup {Head(pending)}
               /\ UNCHANGED <<promised, broken>>

(* Space of acknowledged entries is reclaimed: they can no longer replay. *)
Reclaim == done' = <<>> /\ UNCHANGED <<pending, promised, settled, broken>>

(* A restart replays the unreclaimed entries, then what was pending, then  *)
(* whatever interrupted appends had managed to store.                      *)
Recover == LET kept == done \o pending IN
           /\ pending' \in Seq(Entries) /\ Len(pending') >= Len(kept)
           /\ SubSeq(pending', 1, Len(kept)) = kept
           /\ \A i \in Len(kept)+1 .. Len(pending') : pending'[i] \notin Known
           /\ done' = <<>>
           /\ UNCHANGED <<promised, settled, broken>>

Break == broken' = TRUE

Next == \/ Break
        \/ \E e \in Entries : Accept(e) \/ Leak(e)
        \/ Acknowledge \/ Reclaim \/ Recover

Spec == Init /\ [][Next]_vars

TypeOK == broken \/ (pending \in Seq(Entries) /\ done \in Seq(Entries))

-----------------------------------------------------------------------------
(* The promise itself: unless storage corrupted it, an entry whose append  *)
(* returned is acknowledged or still to come.                              *)
PromiseKept == broken \/ promised \subseteq settled \cup Contents(pending)
=============================================================================
