---------------------------- MODULE OutboxProofs ----------------------------
(***************************************************************************)
(* Outbox's type invariant, its three safety invariants and its refinement *)
(* of AtLeastOnceQueue, for any set of entries, any length of the log and  *)
(* any interleaving of crashes and cancellations.                          *)
(***************************************************************************)
EXTENDS Outbox, SequenceTheorems, TLAPS

(* What a readable log parses to: entries only, at the lines' positions,   *)
(* with the unterminated entry after them and no line that parses left out. *)
LEMMA ParsedShape ==
    ASSUME TypeOK, ~Misplaced
    PROVE  /\ Parsed \in Seq(Entries)
           /\ Len(Parsed) \in {Len(log) - 1, Len(log), Len(log) + 1}
           /\ (Len(Parsed) = Len(log) + 1) <=> (tail \in Entries)
           /\ \A i \in 1 .. Len(Parsed) :
                 Parsed[i] = IF i <= Len(log) THEN log[i] ELSE tail
           /\ \A i \in 1 .. Len(log) : log[i] \in Entries => i <= Len(Parsed)
<1> USE OutboxAssumption
<1>1. /\ log \in Seq(Entries \cup {Garbled}) /\ Len(log) \in Nat
      /\ DOMAIN log = 1 .. Len(log)
  BY LenProperties DEF TypeOK
<1>2. CASE EndsGarbled
  <2>1. Len(log) >= 1 /\ tail = NoTail
    BY <1>1, <1>2, EmptySeq DEF EndsGarbled, Misplaced
  <2>2. \A i \in 1 .. Len(log) - 1 : log[i] \in Entries
    BY <1>1, ElementOfSeq DEF Misplaced
  <2>3. Parsed = SubSeq(log, 1, Len(log) - 1)
    BY <1>2 DEF Parsed
  <2>4. /\ Parsed \in Seq(Entries)
        /\ Len(Parsed) = Len(log) - 1
        /\ \A i \in 1 .. Len(Parsed) : Parsed[i] = log[i]
    BY <1>1, <2>1, <2>2, <2>3, SubSeqProperties
  <2>5. log[Len(log)] \notin Entries /\ tail \notin Entries
    BY <1>2, <2>1 DEF EndsGarbled, OutboxAssumption
  <2>6. \A i \in 1 .. Len(log) : log[i] \in Entries => i <= Len(Parsed)
    BY <1>1, <2>1, <2>4, <2>5
  <2>7. Len(Parsed) # Len(log) + 1
    <3>1. \A n \in Nat : n - 1 # n + 1
      OBVIOUS
    <3> QED
      BY <1>1, <2>4, <3>1
  <2>8. \A i \in 1 .. Len(Parsed) :
           Parsed[i] = IF i <= Len(log) THEN log[i] ELSE tail
    BY <1>1, <2>4
  <2> QED
    BY <2>4, <2>5, <2>6, <2>7, <2>8
<1>3. CASE ~EndsGarbled
  <2>1. \A i \in 1 .. Len(log) : log[i] \in Entries
    BY <1>1, <1>3, ElementOfSeq, EmptySeq DEF EndsGarbled, Misplaced
  <2>2. log \in Seq(Entries)
    BY <1>1, <2>1
  <2> QED
    BY <1>1, <1>3, <2>1, <2>2 DEF Parsed, TypeOK
<1> QED
  BY <1>2, <1>3

(* The two slices compact takes of a readable log. *)
LEMMA SlicesShape ==
    ASSUME TypeOK, ~Misplaced
    PROVE  /\ Acked \in Seq(Entries) /\ Pending \in Seq(Entries)
           /\ Contents(Acked) = {Parsed[i] : i \in {j \in 1 .. Len(Parsed) : j <= acked}}
           /\ Contents(Pending) = {Parsed[i] : i \in acked + 1 .. Len(Parsed)}
<1>1. /\ Parsed \in Seq(Entries) /\ Len(Parsed) \in Nat /\ acked \in Nat
      /\ DOMAIN Parsed = 1 .. Len(Parsed)
      /\ \A i \in 1 .. Len(Parsed) : Parsed[i] \in Entries
  BY ParsedShape, LenProperties, ElementOfSeq DEF TypeOK
<1>2. /\ Acked \in Seq(Entries)
      /\ Contents(Acked) = {Parsed[i] : i \in {j \in 1 .. Len(Parsed) : j <= acked}}
  <2>1. CASE acked > Len(Parsed)
    <3>1. {j \in 1 .. Len(Parsed) : j <= acked} = 1 .. Len(Parsed)
      BY <1>1, <2>1
    <3>2. Acked = Parsed
      <4>1. ~(acked <= Len(Parsed))
        BY <1>1, <2>1
      <4> QED
        BY <4>1 DEF Acked
    <3> QED
      BY <1>1, <3>1, <3>2 DEF Contents
  <2>2. CASE acked <= Len(Parsed)
    <3>1. /\ Acked \in Seq(Entries) /\ Len(Acked) = acked
          /\ \A i \in 1 .. acked : Acked[i] = Parsed[i]
      BY <1>1, <2>2, SubSeqProperties DEF Acked
    <3>2. DOMAIN Acked = 1 .. acked
      BY <3>1, LenProperties
    <3>3. {j \in 1 .. Len(Parsed) : j <= acked} = 1 .. acked
      BY <1>1, <2>2
    <3> QED
      BY <3>1, <3>2, <3>3 DEF Contents
  <2> QED
    BY <1>1, <2>1, <2>2
<1>3. /\ Pending \in Seq(Entries)
      /\ Contents(Pending) = {Parsed[i] : i \in acked + 1 .. Len(Parsed)}
  <2> DEFINE m == Len(Parsed) - acked
  <2>1. /\ Pending \in Seq(Entries)
        /\ Len(Pending) = IF acked + 1 <= Len(Parsed) THEN m ELSE 0
        /\ \A i \in 1 .. m : Pending[i] = Parsed[acked + i]
    BY <1>1, SubSeqProperties DEF Pending
  <2>2. DOMAIN Pending = 1 .. m
    <3>1. 1 .. Len(Pending) = 1 .. m
      BY <1>1, <2>1
    <3> QED
      BY <2>1, <3>1, LenProperties
  <2>3. \A i \in 1 .. m : acked + i \in acked + 1 .. Len(Parsed)
    BY <1>1
  <2>4. \A k \in acked + 1 .. Len(Parsed) : k - acked \in 1 .. m /\ acked + (k - acked) = k
    BY <1>1
  <2> HIDE DEF m
  <2> QED
    BY <2>1, <2>2, <2>3, <2>4 DEF Contents
<1> QED
  BY <1>2, <1>3

-----------------------------------------------------------------------------
(* Every state of the outbox is well typed: in particular what a compaction *)
(* writes back is made of entries only, never of a garbled line.            *)
THEOREM TypeCorrect == Spec => []TypeOK
<1> USE OutboxAssumption DEF TypeOK
<1>1. Init => TypeOK
  BY DEF Init
<1>2. ASSUME TypeOK, [Next]_vars
      PROVE  TypeOK'
  <2>1. ASSUME NEW e \in Entries, AppendBlob(e)
        PROVE  TypeOK'
    BY <1>2, <2>1 DEF AppendBlob, file, history
  <2>2. ASSUME NEW e \in Entries, WriteLine(e)
        PROVE  /\ log' \in Seq(Entries \cup {Garbled})
               /\ tail' \in Entries \cup {Torn, NoTail}
               /\ spoiled' \subseteq Entries
    <3>1. Append(log, e) \in Seq(Entries \cup {Garbled})
      BY <1>2
    <3>2. Append(log, Garbled) \in Seq(Entries \cup {Garbled})
      BY <1>2
    <3> QED
      BY <1>2, <2>2, <3>1, <3>2 DEF WriteLine
  <2>3. ASSUME NEW e \in Entries, DetachedLine(e)
        PROVE  TypeOK'
    BY <1>2, <2>2, <2>3 DEF DetachedLine
  <2>4. ASSUME NEW e \in Entries, AckNext(e)
        PROVE  TypeOK'
    BY <1>2, <2>4 DEF AckNext, file, memory
  <2>5. ASSUME AppendLine
        PROVE  TypeOK'
    <3>1. cur \in Entries /\ late' \subseteq Entries
      BY <1>2, <2>5 DEF AppendLine
    <3> QED
      BY <1>2, <2>2, <2>5, <3>1 DEF AppendLine
  <2>6. CASE AppendTorn
    BY <1>2, <2>6 DEF AppendTorn
  <2>7. CASE AppendCancelled
    BY <1>2, <2>7 DEF AppendCancelled, disk, file, history
  <2>8. CASE CompactReset
    BY <1>2, <2>8, SlicesShape DEF CompactReset, Corrupt, file, history
  <2>9. CASE CompactRewrite
    BY <1>2, <2>9, SeqMonotonic DEF CompactRewrite, history
  <2>10. CASE CompactUnlink
    BY <1>2, <2>10 DEF CompactUnlink, file, history
  <2>11. CASE SenderCancelled
    <3>1. /\ kept' \in Seq(Entries) /\ doomed' \in Seq(Entries)
          /\ sender' \in {"runs", "rewrites", "stopped"}
      <4>1. \/ kept' = kept /\ doomed' = doomed /\ sender' = "rewrites"
            \/ kept' = <<>> /\ doomed' = <<>> /\ sender' = "stopped"
        BY <2>11 DEF SenderCancelled
      <4> QED
        BY <1>2, <4>1, EmptySeq
    <3>2. pc' \in {"line", "idle"} /\ (pc' = "line" <=> pc = "line")
      BY <2>11 DEF SenderCancelled
    <3>3. UNCHANGED <<log, tail, decodes, acked, blobs, cur, detached, promised, settled, spoiled, late>>
      BY <2>11 DEF SenderCancelled, disk, file, history
    <3> QED
      BY <1>2, <3>1, <3>2, <3>3
  <2>12. CASE DetachedRewrite
    BY <1>2, <2>12, SeqMonotonic DEF DetachedRewrite, history
  <2>13. CASE Crash
    BY <1>2, <2>13 DEF Crash, disk, file, history
  <2>14. CASE UNCHANGED vars
    BY <1>2, <2>14 DEF vars, disk, file, memory, history
  <2> QED
    BY <1>2, <2>1, <2>3, <2>4, <2>5, <2>6, <2>7, <2>8, <2>9, <2>10, <2>11, <2>12, <2>13, <2>14
       DEF Next
<1> QED
  BY <1>1, <1>2, PTL DEF Spec

-----------------------------------------------------------------------------
(* Why nothing is lost.  A crash may come between the two renames of        *)
(* compact, so the promise has to hold of the disk alone at every step and, *)
(* while the log is about to be replaced, by the sender or by the thread it *)
(* left behind, of the list that replaces it.                               *)
CursorBounded == acked <= Len(log) + (IF tail = NoTail THEN 0 ELSE 1)

OnDisk == promised \subseteq settled \cup spoiled \cup late
                               \cup {log[i] : i \in acked + 1 .. Len(log)}

InKept == Rewriting =>
             /\ acked = 0
             /\ promised \subseteq settled \cup spoiled \cup late \cup Contents(kept)

Intact == spoiled = {} =>
             /\ \A i \in 1 .. Len(log) : log[i] # Garbled
             /\ tail \notin Entries => acked <= Len(log)

(* A sender compacts only while it runs. *)
OneRewrite == pc \in {"rewrite", "unlink"} => sender = "runs"

Durable == CursorBounded /\ OnDisk /\ InKept /\ Intact /\ OneRewrite

(* The line an append or a detached thread writes keeps all of it, and is   *)
(* itself kept or spoiled.                                                  *)
LEMMA WriteLineDurable ==
    ASSUME TypeOK, Durable, NEW e \in Entries, WriteLine(e),
           acked' = acked, pc' \in {pc, "idle"}, sender' = sender, kept' = kept,
           settled' = settled, promised' \subseteq promised \cup {e}, late \subseteq late',
           Rewriting' => promised' \subseteq promised \cup late'
    PROVE  Durable'
<1> USE OutboxAssumption
<1>1. /\ log \in Seq(Entries \cup {Garbled}) /\ Len(log) \in Nat /\ acked \in Nat
      /\ tail \in Entries \cup {Torn, NoTail}
  BY DEF TypeOK
<1>2. spoiled \subseteq spoiled'
  BY DEF WriteLine
<1>3. InKept' /\ OneRewrite'
  BY <1>2 DEF Durable, InKept, OneRewrite, Rewriting, Contents
<1>4. CASE tail = NoTail
  <2>1. log' = Append(log, e) /\ tail' = NoTail /\ spoiled' = spoiled
    BY <1>4 DEF WriteLine
  <2>2. /\ Len(log') = Len(log) + 1 /\ log'[Len(log) + 1] = e
        /\ \A i \in 1 .. Len(log) : log'[i] = log[i]
    BY <1>1, <2>1
  <2>3. acked <= Len(log)
    BY <1>1, <1>4 DEF Durable, CursorBounded
  <2>4. CursorBounded'
    BY <1>1, <2>1, <2>2, <2>3 DEF CursorBounded
  <2>5. OnDisk'
    <3>1. {log[i] : i \in acked + 1 .. Len(log)} \cup {e}
            \subseteq {log'[i] : i \in acked + 1 .. Len(log) + 1}
      BY <1>1, <2>2, <2>3
    <3> QED
      BY <2>1, <2>2, <3>1 DEF Durable, OnDisk
  <2>6. Intact'
    BY <1>1, <2>1, <2>2, <2>3 DEF Durable, Intact
  <2> QED
    BY <1>3, <2>4, <2>5, <2>6 DEF Durable
<1>5. CASE tail # NoTail
  <2>1. /\ log' = Append(log, Garbled) /\ tail' = NoTail /\ e \in spoiled'
    BY <1>5 DEF WriteLine
  <2>2. /\ Len(log') = Len(log) + 1
        /\ \A i \in 1 .. Len(log) : log'[i] = log[i]
    BY <1>1, <2>1
  <2>3. CursorBounded'
    BY <1>1, <1>5, <2>1, <2>2 DEF Durable, CursorBounded
  <2>4. OnDisk'
    <3>1. {log[i] : i \in acked + 1 .. Len(log)}
            \subseteq {log'[i] : i \in acked + 1 .. Len(log) + 1}
      BY <1>1, <2>2
    <3> QED
      BY <1>2, <2>1, <2>2, <3>1 DEF Durable, OnDisk
  <2>5. Intact'
    BY <2>1 DEF Intact
  <2> QED
    BY <1>3, <2>3, <2>4, <2>5 DEF Durable
<1> QED
  BY <1>4, <1>5

(* Every state: the promise holds on disk and in a compaction's hands. *)
THEOREM StaysDurable == Spec => [](TypeOK /\ Durable)
<1> USE OutboxAssumption
<1>1. Init => Durable
  BY DEF Init, Durable, CursorBounded, OnDisk, InKept, Intact, OneRewrite, Rewriting, Contents
<1>2. ASSUME TypeOK, Durable, [Next]_vars
      PROVE  Durable'
  <2> USE DEF Durable, CursorBounded, OnDisk, InKept, Intact, OneRewrite, Rewriting, Contents
  <2>0. /\ log \in Seq(Entries \cup {Garbled}) /\ Len(log) \in Nat /\ acked \in Nat
        /\ tail \in Entries \cup {Torn, NoTail}
    BY <1>2 DEF TypeOK
  <2>1. ASSUME NEW e \in Entries, AppendBlob(e)
        PROVE  Durable'
    BY <1>2, <2>1 DEF AppendBlob, file, history
  <2>2. ASSUME NEW e \in Entries, DetachedLine(e)
        PROVE  Durable'
    BY <1>2, <2>2, WriteLineDurable DEF DetachedLine
  <2>3. ASSUME NEW e \in Entries, AckNext(e)
        PROVE  Durable'
    <3>1. /\ Parsed[acked + 1] = e /\ acked + 1 \in 1 .. Len(Parsed)
          /\ acked' = acked + 1 /\ settled' = settled \cup {e}
          /\ log' = log /\ tail' = tail /\ pc' = pc /\ kept' = kept
          /\ promised' = promised /\ spoiled' = spoiled /\ late' = late
          /\ pc = "idle" /\ sender = "runs" /\ sender' = sender
      BY <1>2, <2>0, <2>3 DEF AckNext, file, memory
    <3>2. /\ Len(Parsed) \in {Len(log) - 1, Len(log), Len(log) + 1}
          /\ (Len(Parsed) = Len(log) + 1) <=> (tail \in Entries)
          /\ acked + 1 <= Len(log) => log[acked + 1] = e
      BY <1>2, <2>3, <3>1, ParsedShape DEF AckNext, Corrupt
    <3>3. {log[i] : i \in acked + 1 .. Len(log)}
             \subseteq {e} \cup {log[i] : i \in acked + 2 .. Len(log)}
      BY <2>0, <3>2
    <3>4. OnDisk'
      BY <1>2, <2>0, <3>1, <3>3
    <3>5. acked + 1 <= Len(Parsed) /\ (tail \notin Entries => Len(Parsed) <= Len(log))
      BY <2>0, <3>1, <3>2
    <3>6. CursorBounded' /\ Intact'
      BY <1>2, <2>0, <3>1, <3>2, <3>5
    <3> QED
      BY <3>1, <3>4, <3>6
  <2>4. CASE AppendLine
    <3>1. cur \in Entries
      BY <1>2, <2>4 DEF AppendLine, TypeOK
    <3>2. Rewriting' => promised' \subseteq promised \cup late'
      BY <2>4 DEF AppendLine
    <3> QED
      BY <1>2, <2>4, <3>1, <3>2, WriteLineDurable DEF AppendLine
  <2>5. CASE AppendTorn
    BY <1>2, <2>0, <2>5 DEF AppendTorn, TypeOK
  <2>6. CASE AppendCancelled
    BY <1>2, <2>6 DEF AppendCancelled, disk, file, history
  <2>7. CASE CompactReset
    <3>1. /\ acked' = 0 /\ kept' = Pending /\ log' = log /\ tail' = tail
          /\ promised' = promised /\ settled' = settled /\ spoiled' = spoiled /\ late' = late
          /\ sender = "runs" /\ sender' = sender
      BY <2>7 DEF CompactReset, file, history
    <3>2. Contents(Pending) = {Parsed[i] : i \in acked + 1 .. Len(Parsed)}
      BY <1>2, <2>7, SlicesShape DEF CompactReset, Corrupt
    <3>3. {log[i] : i \in acked + 1 .. Len(log)} \cap Entries \subseteq Contents(Pending)
      <4> HIDE DEF Contents
      <4> QED
        BY <1>2, <2>0, <2>7, <3>2, ParsedShape DEF CompactReset, Corrupt
    <3>4. {log[i] : i \in acked + 1 .. Len(log)} \subseteq {log[i] : i \in 1 .. Len(log)}
      BY <2>0
    <3> HIDE DEF Contents
    <3>5. promised \subseteq settled \cup spoiled \cup late \cup Contents(Pending)
      BY <1>2, <3>3 DEF TypeOK
    <3>6. InKept'
      BY <3>1, <3>5 DEF Contents
    <3>7. OnDisk' /\ CursorBounded' /\ Intact' /\ OneRewrite'
      BY <1>2, <2>0, <3>1, <3>4
    <3> QED
      BY <3>6, <3>7
  <2>8. CASE CompactRewrite \/ DetachedRewrite
    <3>1. /\ log' = kept /\ tail' = NoTail /\ acked' = 0 /\ ~Rewriting' /\ Rewriting
          /\ promised' = promised /\ settled' = settled /\ spoiled' = spoiled /\ late' = late
          /\ OneRewrite'
      BY <1>2, <2>8 DEF CompactRewrite, DetachedRewrite, history
    <3>2. /\ kept \in Seq(Entries) /\ Len(kept) \in Nat /\ DOMAIN kept = 1 .. Len(kept)
          /\ \A i \in 1 .. Len(kept) : kept[i] \in Entries
      BY <1>2, LenProperties, ElementOfSeq DEF TypeOK
    <3> HIDE DEF Rewriting, OneRewrite
    <3>3. promised \subseteq settled \cup spoiled \cup late \cup {kept[i] : i \in 1 .. Len(kept)}
      BY <1>2, <3>1, <3>2
    <3> QED
      BY <3>1, <3>2, <3>3
  <2>9. CASE CompactUnlink
    BY <1>2, <2>9 DEF CompactUnlink, file, history
  <2>10. CASE SenderCancelled
    BY <1>2, <2>10 DEF SenderCancelled, disk, file, history
  <2>11. CASE Crash
    BY <1>2, <2>11 DEF Crash, disk, file, history
  <2>12. CASE UNCHANGED vars
    BY <1>2, <2>12 DEF vars, disk, file, memory, history
  <2> QED
    BY <1>2, <2>1, <2>2, <2>3, <2>4, <2>5, <2>6, <2>7, <2>8, <2>9, <2>10, <2>11, <2>12
       DEF Next
<1> QED
  BY <1>1, <1>2, TypeCorrect, PTL DEF Spec

(* No append that returned is forgotten, whatever step a crash or a        *)
(* cancellation interrupts.                                                *)
THEOREM NeverLost == Spec => []NothingLost
<1>1. TypeOK /\ Durable => NothingLost
  BY DEF Durable, OnDisk, InKept, NothingLost, Contents
<1> QED
  BY <1>1, StaysDurable, PTL

(* On a log no line of which was spoiled the cursor is within the log. *)
THEOREM CursorStaysInLog == Spec => []CursorInLog
<1>1. ASSUME TypeOK, Durable, spoiled = {}
      PROVE  acked <= Len(Parsed)
  <2>1. /\ log \in Seq(Entries \cup {Garbled}) /\ Len(log) \in Nat /\ acked \in Nat
        /\ DOMAIN log = 1 .. Len(log)
    BY <1>1, LenProperties DEF TypeOK
  <2>2. \A i \in 1 .. Len(log) : log[i] # Garbled
    BY <1>1 DEF Durable, Intact
  <2>3. ~EndsGarbled
    BY <2>1, <2>2, EmptySeq DEF EndsGarbled
  <2>4. CASE tail \in Entries
    BY <1>1, <2>1, <2>3, <2>4, OutboxAssumption DEF Parsed, Durable, CursorBounded
  <2>5. CASE tail \notin Entries
    BY <1>1, <2>3, <2>5 DEF Parsed, Durable, Intact
  <2> QED
    BY <2>4, <2>5
<1>2. TypeOK /\ Durable => CursorInLog
  BY <1>1 DEF CursorInLog
<1> QED
  BY <1>2, StaysDurable, PTL
-----------------------------------------------------------------------------
(* Why images outlive their lines: an entry is in one place only.  It is   *)
(* at one position of the log or its tail, or in the hands of one writer,  *)
(* and what a compaction drops is nowhere else by the time it unlinks.     *)
Apart ==
    /\ \A i, j \in 1 .. Len(log) : i # j /\ log[i] = log[j] => log[i] = Garbled
    /\ tail \in Entries => tail \notin Contents(log)
    /\ detached \cap (Contents(log) \cup {tail, cur} \cup promised \cup settled) = {}
    /\ pc = "line" => cur \notin Contents(log) \cup {tail} \cup promised \cup settled

Imaged == (Contents(log) \cup {tail, cur} \cup detached) \cap WithBlob \subseteq blobs

Compacting ==
    /\ Rewriting =>
          /\ \A i, j \in 1 .. Len(kept) : i # j => kept[i] # kept[j]
          /\ Contents(kept) \cap ({cur} \cup detached \cup Contents(doomed)) = {}
          /\ Contents(kept) \cap WithBlob \subseteq blobs
    /\ Rewriting \/ pc = "unlink" => Contents(doomed) \cap ({cur} \cup detached) = {}
    /\ pc = "unlink" => Contents(doomed) \cap (Contents(log) \cup {tail}) = {}

Separate == Apart /\ Imaged /\ Compacting

(* The elements of a sequence, by position. *)
LEMMA ContentsOfSeq ==
    ASSUME NEW S, NEW s \in Seq(S)
    PROVE  /\ Contents(s) = {s[i] : i \in 1 .. Len(s)}
           /\ Contents(s) \subseteq S
           /\ Len(s) \in Nat
BY LenProperties, ElementOfSeq DEF Contents

LEMMA ContentsOfAppend ==
    ASSUME NEW S, NEW s \in Seq(S), NEW e \in S
    PROVE  Contents(Append(s, e)) = Contents(s) \cup {e}
<1>1. /\ Append(s, e) \in Seq(S) /\ Len(s) \in Nat /\ Len(Append(s, e)) = Len(s) + 1
      /\ \A i \in 1 .. Len(s) : Append(s, e)[i] = s[i]
      /\ Append(s, e)[Len(s) + 1] = e
  BY AppendProperties, LenProperties
<1>2. /\ Contents(s) = {s[i] : i \in 1 .. Len(s)}
      /\ Contents(Append(s, e)) = {Append(s, e)[i] : i \in 1 .. Len(s) + 1}
  BY <1>1, ContentsOfSeq
<1>3. 1 .. Len(s) + 1 = (1 .. Len(s)) \cup {Len(s) + 1}
  BY <1>1
<1> QED
  BY <1>1, <1>2, <1>3

(* What a line write does to the lines, glued or not. *)
LEMMA WriteLineContents ==
    ASSUME TypeOK, Apart, NEW e \in Entries, WriteLine(e), e \notin Contents(log) \cup {tail}
    PROVE  /\ Contents(log') \cup {tail'} \subseteq Contents(log) \cup {tail, e, Garbled, NoTail}
           /\ \A i, j \in 1 .. Len(log') : i # j /\ log'[i] = log'[j] => log'[i] = Garbled
           /\ tail' \notin Entries
<1> USE OutboxAssumption
<1>1. /\ log \in Seq(Entries \cup {Garbled}) /\ tail' = NoTail
      /\ \E x \in {e, Garbled} : log' = Append(log, x)
  BY DEF TypeOK, WriteLine
<1>2. PICK x \in {e, Garbled} : log' = Append(log, x)
  BY <1>1
<1>3. Contents(log') = Contents(log) \cup {x}
  BY <1>1, <1>2, ContentsOfAppend
<1>4. /\ Len(log) \in Nat /\ Len(log') = Len(log) + 1 /\ log'[Len(log) + 1] = x
      /\ \A i \in 1 .. Len(log) : log'[i] = log[i]
  BY <1>1, <1>2, AppendProperties, LenProperties
<1>5. \A i \in 1 .. Len(log) : log[i] # e
  BY <1>1, ContentsOfSeq
<1>6. \A i, j \in 1 .. Len(log') : i # j /\ log'[i] = log'[j] => log'[i] = Garbled
  BY <1>2, <1>4, <1>5 DEF Apart
<1> QED
  BY <1>1, <1>2, <1>3, <1>6

(* A readable log parses to entries that are all different, each of them   *)
(* from the file.                                                          *)
LEMMA ParsedApart ==
    ASSUME TypeOK, Apart, ~Misplaced
    PROVE  /\ \A i, j \in 1 .. Len(Parsed) : i # j => Parsed[i] # Parsed[j]
           /\ Contents(Parsed) \subseteq Contents(log) \cup {tail}
<1> USE OutboxAssumption
<1>1. /\ Parsed \in Seq(Entries) /\ Len(Parsed) \in Nat /\ Len(log) \in Nat
      /\ Contents(Parsed) = {Parsed[i] : i \in 1 .. Len(Parsed)}
      /\ Contents(log) = {log[i] : i \in 1 .. Len(log)}
      /\ \A i \in 1 .. Len(Parsed) : Parsed[i] \in Entries
  BY ParsedShape, ContentsOfSeq, ElementOfSeq DEF TypeOK
<1>2. /\ Len(Parsed) \in {Len(log) - 1, Len(log), Len(log) + 1}
      /\ (Len(Parsed) = Len(log) + 1) <=> (tail \in Entries)
      /\ \A i \in 1 .. Len(Parsed) : Parsed[i] = IF i <= Len(log) THEN log[i] ELSE tail
  BY ParsedShape
<1>3. ASSUME NEW i \in 1 .. Len(Parsed), NEW j \in 1 .. Len(Parsed), i < j
      PROVE  Parsed[i] # Parsed[j]
  <2>1. i \in 1 .. Len(log) /\ Parsed[i] = log[i] /\ log[i] # Garbled
    BY <1>1, <1>2, <1>3
  <2>2. CASE j <= Len(log)
    BY <1>1, <1>2, <1>3, <2>1, <2>2 DEF Apart
  <2>3. CASE ~(j <= Len(log))
    BY <1>1, <1>2, <1>3, <2>1, <2>3 DEF Apart
  <2> QED
    BY <2>2, <2>3
<1>4. \A i, j \in 1 .. Len(Parsed) : i # j => i < j \/ j < i
  BY <1>1
<1> QED
  BY <1>1, <1>2, <1>3, <1>4

-----------------------------------------------------------------------------
(* Every state: an entry is in one place, its image is there, and what a   *)
(* compaction drops is in no other.                                        *)
LEMMA WriteLineSeparate ==
    ASSUME TypeOK, Separate, NEW e \in Entries, WriteLine(e),
           e \in detached \/ (pc = "line" /\ e = cur), detached' = detached \ {e},
           pc' = (IF e \in detached THEN pc ELSE "idle"), cur' = (IF e \in detached THEN cur ELSE NoTail),
           promised' \subseteq promised \cup ({e} \ detached), settled' = settled,
           UNCHANGED <<blobs, kept, doomed, sender>>
    PROVE  Separate'
<1> USE OutboxAssumption
<1>1. e \notin Contents(log) \cup {tail} /\ (e \in detached => e # cur)
      /\ (e \notin detached => pc = "line" /\ e = cur)
  BY DEF Separate, Apart
<1>2. /\ Contents(log') \cup {tail'} \subseteq Contents(log) \cup {tail, e, Garbled, NoTail}
      /\ \A i, j \in 1 .. Len(log') : i # j /\ log'[i] = log'[j] => log'[i] = Garbled
      /\ tail' \notin Entries
  BY <1>1, WriteLineContents DEF Separate
<1>3. cur \in Entries \cup {NoTail} /\ detached \subseteq Entries /\ (pc = "line" => cur \in Entries)
  BY DEF TypeOK
<1>4. Contents(doomed) \subseteq Entries /\ Contents(kept) \subseteq Entries
  BY ContentsOfSeq DEF TypeOK
<1>5. Contents(kept') = Contents(kept) /\ Contents(doomed') = Contents(doomed)
  BY DEF Contents
<1>6. Apart'
  <2>1. detached' \cap (Contents(log') \cup {tail', cur'} \cup promised' \cup settled') = {}
    BY <1>1, <1>2, <1>3 DEF Separate, Apart
  <2>2. pc' = "line" => cur' \notin Contents(log') \cup {tail'} \cup promised' \cup settled'
    BY <1>1, <1>2, <1>3 DEF Separate, Apart
  <2> QED
    BY <1>2, <2>1, <2>2 DEF Apart, Contents
<1>7. Imaged'
  <2>1. (Contents(log') \cup {tail', cur'} \cup detached') \cap WithBlob \subseteq blobs
    BY <1>1, <1>2, <1>3 DEF Separate, Imaged
  <2> QED
    BY <2>1 DEF Imaged, Contents
<1>8. Compacting'
  <2>1. /\ Rewriting' => Rewriting
        /\ pc' = "unlink" => pc = "unlink"
        /\ {cur'} \subseteq {cur, NoTail} /\ detached' \subseteq detached
    BY <1>1 DEF Rewriting
  <2>2. pc' = "unlink" => Contents(doomed) \cap (Contents(log') \cup {tail'}) = {}
    <3>1. pc' = "unlink" => e \in detached
      BY <1>1
    <3> QED
      BY <1>2, <1>4, <2>1, <3>1 DEF Separate, Compacting
  <2>3. Rewriting' =>
          /\ \A i, j \in 1 .. Len(kept') : i # j => kept'[i] # kept'[j]
          /\ Contents(kept') \cap ({cur'} \cup detached' \cup Contents(doomed')) = {}
          /\ Contents(kept') \cap WithBlob \subseteq blobs'
    BY <1>4, <1>5, <2>1 DEF Separate, Compacting
  <2>4. Rewriting' \/ pc' = "unlink" => Contents(doomed') \cap ({cur'} \cup detached') = {}
    BY <1>4, <1>5, <2>1 DEF Separate, Compacting
  <2>5. pc' = "unlink" => Contents(doomed') \cap (Contents(log') \cup {tail'}) = {}
    BY <1>5, <2>2
  <2>6. Contents(kept)' = Contents(kept') /\ Contents(doomed)' = Contents(doomed') /\ Contents(log)' = Contents(log')
    BY DEF Contents
  <2> HIDE DEF Contents
  <2> QED
    BY <2>3, <2>4, <2>5, <2>6 DEF Compacting
<1> QED
  BY <1>6, <1>7, <1>8 DEF Separate

THEOREM StaysSeparate == Spec => [](TypeOK /\ Durable /\ Separate)
<1> USE OutboxAssumption
<1>1. Init => Separate
  BY DEF Init, Separate, Apart, Imaged, Compacting, Rewriting, Contents
<1>2. ASSUME TypeOK, Durable, Separate, [Next]_vars
      PROVE  Separate'
  <2>0. /\ log \in Seq(Entries \cup {Garbled}) /\ kept \in Seq(Entries) /\ doomed \in Seq(Entries)
        /\ detached \subseteq Entries /\ tail \in Entries \cup {Torn, NoTail}
        /\ cur \in Entries \cup {NoTail} /\ (pc = "line" => cur \in Entries)
        /\ (pc # "line" => cur = NoTail) /\ Contents(doomed) \subseteq Entries
        /\ Contents(kept) \subseteq Entries /\ Contents(log) \subseteq Entries \cup {Garbled}
    BY <1>2, ContentsOfSeq DEF TypeOK
  <2>1. ASSUME NEW e \in Entries, AppendBlob(e)
        PROVE  Separate'
    <3>1. /\ e \notin Used /\ pc' = "line" /\ cur' = e /\ blobs \subseteq blobs'
          /\ {e} \cap WithBlob \subseteq blobs'
          /\ UNCHANGED <<log, tail, detached, promised, settled, kept, doomed>>
          /\ Rewriting' => Rewriting
      BY <2>1 DEF AppendBlob, file, history, Rewriting
    <3>2. Apart'
      BY <1>2, <3>1 DEF Separate, Apart, Used, Contents
    <3>3. Imaged' /\ Compacting'
      BY <1>2, <3>1 DEF Separate, Imaged, Compacting, Used, Contents
    <3> QED
      BY <3>2, <3>3 DEF Separate
  <2>2. ASSUME NEW e \in Entries, DetachedLine(e)
        PROVE  Separate'
    BY <1>2, <2>2, WriteLineSeparate DEF DetachedLine
  <2>3. ASSUME NEW e \in Entries, AckNext(e)
        PROVE  Separate'
    <3>1. /\ settled' = settled \cup {e} /\ pc = "idle"
          /\ UNCHANGED <<log, tail, blobs, pc, cur, kept, doomed, detached, promised>>
          /\ Rewriting' => Rewriting
      BY <2>3 DEF AckNext, file, memory, Rewriting
    <3>2. e \in Contents(log) \cup {tail}
      <4>1. acked + 1 \in 1 .. Len(Parsed) /\ e = Parsed[acked + 1] /\ Parsed \in Seq(Entries)
        BY <1>2, <2>3, ParsedShape, LenProperties DEF AckNext, Corrupt, TypeOK
      <4>2. e \in Contents(Parsed)
        BY <4>1, ContentsOfSeq
      <4> QED
        BY <1>2, <2>3, <4>2, ParsedApart DEF AckNext, Corrupt, Separate
    <3>3. Apart'
      BY <1>2, <3>1, <3>2 DEF Separate, Apart, Contents
    <3> QED
      BY <1>2, <3>1, <3>3 DEF Separate, Imaged, Compacting, Contents
  <2>4. CASE AppendLine
    <3>1. cur \notin detached
      BY <1>2 DEF Separate, Apart
    <3> QED
      BY <1>2, <2>0, <2>4, <3>1, WriteLineSeparate DEF AppendLine
  <2>5. CASE AppendTorn
    <3>1. /\ pc = "line" /\ pc' = "idle" /\ cur' = NoTail /\ tail' \in {Torn, cur}
          /\ UNCHANGED <<log, blobs, kept, doomed, detached, promised, settled>>
          /\ (Rewriting' => Rewriting) /\ pc' # "unlink"
      BY <2>5 DEF AppendTorn, Rewriting
    <3>2. Apart'
      BY <1>2, <2>0, <3>1 DEF Separate, Apart, Contents
    <3> QED
      BY <1>2, <2>0, <3>1, <3>2 DEF Separate, Imaged, Compacting, Contents
  <2>6. CASE AppendCancelled
    <3>1. /\ pc = "line" /\ pc' = "idle" /\ cur' = NoTail
          /\ detached' \in {detached, detached \cup {cur}}
          /\ UNCHANGED <<log, tail, blobs, kept, doomed, promised, settled>>
          /\ (Rewriting' => Rewriting) /\ pc' # "unlink"
      BY <2>6 DEF AppendCancelled, disk, file, history, Rewriting
    <3>2. Apart'
      BY <1>2, <2>0, <3>1 DEF Separate, Apart, Contents
    <3>3. Contents(kept)' = Contents(kept) /\ Contents(doomed)' = Contents(doomed) /\ Contents(log)' = Contents(log)
      BY <3>1 DEF Contents
    <3>4. {cur'} \cup detached' \subseteq {NoTail, cur} \cup detached
      BY <3>1
    <3>5. Imaged'
      BY <1>2, <2>0, <3>1, <3>3, <3>4 DEF Separate, Imaged
    <3>6. Compacting'
      BY <1>2, <2>0, <3>1, <3>3, <3>4 DEF Separate, Compacting
    <3> QED
      BY <3>2, <3>5, <3>6 DEF Separate
  <2>7. CASE CompactReset
    <3>1. /\ ~Misplaced /\ pc = "idle" /\ pc' = "rewrite" /\ kept' = Pending /\ doomed' = Acked
          /\ cur = NoTail /\ UNCHANGED <<log, tail, blobs, cur, detached, promised, settled>>
      BY <2>0, <2>7 DEF CompactReset, Corrupt, file, history
    <3>2. /\ Contents(Acked) = {Parsed[i] : i \in {j \in 1 .. Len(Parsed) : j <= acked}}
          /\ Contents(Pending) = {Parsed[i] : i \in acked + 1 .. Len(Parsed)}
          /\ Acked \in Seq(Entries) /\ Pending \in Seq(Entries)
      BY <1>2, <3>1, SlicesShape
    <3>3. /\ \A i, j \in 1 .. Len(Parsed) : i # j => Parsed[i] # Parsed[j]
          /\ Contents(Parsed) \subseteq Contents(log) \cup {tail}
      BY <1>2, <3>1, ParsedApart DEF Separate
    <3>4. /\ Parsed \in Seq(Entries) /\ Len(Parsed) \in Nat /\ acked \in Nat
          /\ Contents(Parsed) = {Parsed[i] : i \in 1 .. Len(Parsed)}
      BY <1>2, <3>1, ParsedShape, ContentsOfSeq DEF TypeOK
    <3>5. /\ Contents(Acked) \subseteq Contents(Parsed) /\ Contents(Pending) \subseteq Contents(Parsed)
          /\ Contents(Acked) \cap Contents(Pending) = {}
      BY <3>2, <3>3, <3>4
    <3>6. \A i, j \in 1 .. Len(Pending) : i # j => Pending[i] # Pending[j]
      <4>1. /\ Len(Pending) = IF acked + 1 <= Len(Parsed) THEN Len(Parsed) - acked ELSE 0
            /\ \A i \in 1 .. Len(Parsed) - acked : Pending[i] = Parsed[acked + i]
        <5>1. \A i \in acked + 1 .. Len(Parsed) : Parsed[i] \in Entries
          BY <3>4, ElementOfSeq
        <5> QED
          BY <3>4, <5>1, SubSeqProperties DEF Pending
      <4>2. \A i \in 1 .. Len(Pending) : i \in 1 .. Len(Parsed) - acked /\ acked + i \in 1 .. Len(Parsed)
        BY <3>4, <4>1
      <4>3. \A i, j \in 1 .. Len(Pending) : i # j => acked + i # acked + j
        BY <3>4, <4>1
      <4> QED
        BY <3>3, <4>1, <4>2, <4>3
    <3>7. Apart' /\ Imaged'
      BY <1>2, <3>1 DEF Separate, Apart, Imaged, Contents
    <3>8. /\ Contents(Pending) \cap ({cur} \cup detached \cup Contents(Acked)) = {}
          /\ Contents(Pending) \cap WithBlob \subseteq blobs
          /\ Contents(Acked) \cap ({cur} \cup detached) = {}
      <4>1. cur \notin Contents(Parsed)
        BY <3>1, <3>4, ContentsOfSeq
      <4> QED
        BY <1>2, <3>3, <3>5, <4>1 DEF Separate, Apart, Imaged
    <3>9. Contents(kept') = Contents(Pending) /\ Contents(doomed') = Contents(Acked)
      BY <3>1
    <3>10. Contents(kept)' = Contents(kept') /\ Contents(doomed)' = Contents(doomed')
      BY DEF Contents
    <3>11. Compacting'
      BY <3>1, <3>6, <3>8, <3>9, <3>10 DEF Compacting
    <3> QED
      BY <3>7, <3>11 DEF Separate
  <2>8. CASE CompactRewrite \/ DetachedRewrite
    <3>1. /\ Rewriting /\ ~Rewriting' /\ log' = kept /\ tail' = NoTail
          /\ pc' = "unlink" => doomed' = doomed
          /\ pc' = "line" => pc = "line"
          /\ UNCHANGED <<blobs, cur, detached, promised, settled>>
      BY <1>2, <2>8 DEF CompactRewrite, DetachedRewrite, history, Rewriting, Durable, OneRewrite
    <3>2. /\ Contents(log)' = Contents(kept)
          /\ pc' = "unlink" => Contents(doomed)' = Contents(doomed)
      BY <3>1 DEF Contents
    <3>3. (detached \cup {cur}) \cap Contents(kept) = {}
      BY <1>2, <3>1 DEF Separate, Compacting
    <3>4. Apart'
      BY <1>2, <2>0, <3>1, <3>2, <3>3 DEF Separate, Apart, Compacting
    <3>5. Imaged'
      BY <1>2, <2>0, <3>1, <3>2 DEF Separate, Imaged, Compacting
    <3>6. Compacting'
      BY <1>2, <2>0, <3>1, <3>2 DEF Separate, Compacting
    <3> QED
      BY <3>4, <3>5, <3>6 DEF Separate
  <2>9. CASE CompactUnlink
    <3>1. /\ pc = "unlink" /\ pc' = "idle" /\ blobs \ Contents(doomed) \subseteq blobs'
          /\ UNCHANGED <<log, tail, cur, detached, promised, settled>> /\ ~Rewriting'
      BY <1>2, <2>9 DEF CompactUnlink, file, history, Rewriting, Durable, OneRewrite
    <3>2. Contents(log)' = Contents(log)
      BY <3>1 DEF Contents
    <3>3. Imaged'
      BY <1>2, <2>0, <3>1, <3>2 DEF Separate, Imaged, Compacting
    <3> QED
      BY <1>2, <3>1, <3>2, <3>3 DEF Separate, Apart, Compacting
  <2>10. CASE SenderCancelled
    <3>1. /\ pc' \in {"line", "idle"} /\ (pc' = "line" => pc = "line")
          /\ Rewriting' => Rewriting /\ kept' = kept /\ doomed' = doomed
          /\ UNCHANGED <<log, tail, blobs, cur, detached, promised, settled>>
      BY <2>10 DEF SenderCancelled, disk, file, history, Rewriting
    <3>2. /\ Contents(log)' = Contents(log)
          /\ Rewriting' => Contents(kept)' = Contents(kept) /\ Contents(doomed)' = Contents(doomed)
      BY <3>1 DEF Contents
    <3>3. Apart' /\ Imaged'
      BY <1>2, <3>1, <3>2 DEF Separate, Apart, Imaged
    <3>4. Compacting'
      BY <1>2, <3>1, <3>2 DEF Separate, Compacting
    <3> QED
      BY <3>3, <3>4 DEF Separate
  <2>11. CASE Crash
    <3>1. /\ pc' = "idle" /\ cur' = NoTail /\ detached' = {} /\ ~Rewriting'
          /\ UNCHANGED <<log, tail, blobs, promised, settled>>
      BY <2>11 DEF Crash, disk, file, history, Rewriting
    <3>2. Contents(log)' = Contents(log)
      BY <3>1 DEF Contents
    <3> QED
      BY <1>2, <3>1, <3>2 DEF Separate, Apart, Imaged, Compacting
  <2>12. CASE UNCHANGED vars
    <3>1. /\ UNCHANGED <<log, tail, blobs, pc, cur, kept, doomed, detached, promised, settled>>
          /\ Rewriting' = Rewriting
      BY <2>12 DEF vars, disk, file, memory, history, Rewriting
    <3>2. Contents(kept)' = Contents(kept) /\ Contents(doomed)' = Contents(doomed) /\ Contents(log)' = Contents(log)
      BY <3>1 DEF Contents
    <3> QED
      BY <1>2, <3>1, <3>2 DEF Separate, Apart, Imaged, Compacting
  <2> QED
    BY <1>2, <2>1, <2>2, <2>3, <2>4, <2>5, <2>6, <2>7, <2>8, <2>9, <2>10, <2>11, <2>12 DEF Next
<1> QED
  BY <1>1, <1>2, StaysDurable, PTL DEF Spec

(* An entry the sender can be shown still has its image on disk, whichever *)
(* step of compact a crash interrupts and whatever its unlinking skips.    *)
THEOREM ImagesOutliveLines == Spec => []BlobsOutliveLines
<1>1. Separate => BlobsOutliveLines
  BY DEF Separate, Imaged, BlobsOutliveLines
<1> QED
  BY <1>1, StaysSeparate, PTL
-----------------------------------------------------------------------------
(* Why the outbox is the queue.  As long as no line was glued to a torn    *)
(* one, all of the log is read and the cursor is inside it, so that what   *)
(* was acked and what is pending are two slices of it; and while a         *)
(* compaction is about to replace it, a crash or a cancellation would find *)
(* again what is dropped, then what is kept, then lines no one has been    *)
(* told of.                                                                *)
Sound == spoiled = {} /\ late = {}

Replay ==
    Rewriting /\ Sound =>
        LET both == doomed \o kept IN
        /\ Len(both) <= Len(Parsed)
        /\ \A i \in 1 .. Len(both) : Parsed[i] = both[i]
        /\ \A i \in Len(both) + 1 .. Len(Parsed) :
              Parsed[i] \notin Contents(doomed) \cup Contents(kept) \cup settled \cup promised

LogRead ==
    /\ ~Misplaced /\ log \in Seq(Entries) /\ acked \in 0 .. Len(Parsed)
    /\ Parsed \in Seq(Entries) /\ Parsed = IF tail \in Entries THEN Append(log, tail) ELSE log
    /\ Acked = SubSeq(Parsed, 1, acked)

LEMMA WholeLog == TypeOK /\ Durable /\ spoiled = {} => LogRead
<1> SUFFICES ASSUME TypeOK, Durable, spoiled = {} PROVE LogRead
  OBVIOUS
<1>1. /\ log \in Seq(Entries \cup {Garbled}) /\ Len(log) \in Nat /\ acked \in Nat
      /\ DOMAIN log = 1 .. Len(log)
  BY LenProperties DEF TypeOK
<1>2. \A i \in 1 .. Len(log) : log[i] \in Entries
  BY <1>1, ElementOfSeq DEF Durable, Intact
<1>3. log \in Seq(Entries)
  BY <1>1, <1>2
<1>4. ~EndsGarbled /\ ~Misplaced
  BY <1>1, <1>2, EmptySeq, OutboxAssumption DEF EndsGarbled, Misplaced
<1>5. Parsed = IF tail \in Entries THEN Append(log, tail) ELSE log
  BY <1>4 DEF Parsed
<1>6. /\ Parsed \in Seq(Entries)
      /\ Len(Parsed) = IF tail \in Entries THEN Len(log) + 1 ELSE Len(log)
  BY <1>1, <1>3, <1>5, AppendProperties
<1>7. acked <= Len(Parsed)
  <2>1. CASE tail \in Entries
    BY <1>1, <1>6, <2>1, OutboxAssumption DEF Durable, CursorBounded
  <2>2. CASE tail \notin Entries
    BY <1>1, <1>6, <2>2 DEF Durable, Intact
  <2> QED
    BY <2>1, <2>2
<1> QED
  BY <1>1, <1>3, <1>4, <1>5, <1>6, <1>7 DEF Acked, LogRead

LEMMA WholeLogNext == (TypeOK /\ Durable /\ spoiled = {} => LogRead)'
BY WholeLog, PTL

(* One more element at the end is one more in the second slice. *)
LEMMA SlicesOfAppend ==
    ASSUME NEW S, NEW s \in Seq(S), NEW e \in S, NEW n \in 0 .. Len(s)
    PROVE  /\ SubSeq(Append(s, e), 1, n) = SubSeq(s, 1, n)
           /\ SubSeq(Append(s, e), n + 1, Len(s) + 1) = Append(SubSeq(s, n + 1, Len(s)), e)
<1> DEFINE t == Append(s, e)
           rest == SubSeq(s, n + 1, Len(s))
<1>1. /\ Len(s) \in Nat /\ t \in Seq(S) /\ Len(t) = Len(s) + 1 /\ t[Len(s) + 1] = e
      /\ \A i \in 1 .. Len(s) : t[i] = s[i]
      /\ \A i \in 1 .. Len(s) : s[i] \in S
      /\ \A i \in 1 .. Len(t) : t[i] \in S
  BY AppendProperties, LenProperties, ElementOfSeq
<1> HIDE DEF t
<1>2. SubSeq(t, 1, n) = SubSeq(s, 1, n)
  <2>1. /\ SubSeq(s, 1, n) \in Seq(S) /\ Len(SubSeq(s, 1, n)) = n
        /\ \A i \in 1 .. n : SubSeq(s, 1, n)[i] = s[i]
    BY <1>1, SubSeqProperties
  <2>2. /\ SubSeq(t, 1, n) \in Seq(S) /\ Len(SubSeq(t, 1, n)) = n
        /\ \A i \in 1 .. n : SubSeq(t, 1, n)[i] = t[i]
    BY <1>1, SubSeqProperties
  <2> QED
    BY <1>1, <2>1, <2>2, SeqEqual
<1>3. /\ rest \in Seq(S) /\ Len(rest) = Len(s) - n
      /\ \A i \in 1 .. Len(s) - n : rest[i] = s[n + i]
  BY <1>1, SubSeqProperties
<1> HIDE DEF rest
<1>4. /\ Append(rest, e) \in Seq(S) /\ Len(Append(rest, e)) = Len(s) - n + 1
      /\ \A i \in 1 .. Len(s) - n : Append(rest, e)[i] = s[n + i]
      /\ Append(rest, e)[Len(s) - n + 1] = e
  BY <1>1, <1>3, AppendProperties
<1>5. /\ SubSeq(t, n + 1, Len(s) + 1) \in Seq(S)
      /\ Len(SubSeq(t, n + 1, Len(s) + 1)) = Len(s) - n + 1
      /\ \A i \in 1 .. Len(s) - n + 1 : SubSeq(t, n + 1, Len(s) + 1)[i] = t[n + i]
  BY <1>1, SubSeqProperties
<1>6. \A i \in 1 .. Len(s) - n + 1 : Append(rest, e)[i] = t[n + i]
  <2> TAKE i \in 1 .. Len(s) - n + 1
  <2>1. CASE i = Len(s) - n + 1
    BY <1>1, <1>4, <2>1
  <2>2. CASE i # Len(s) - n + 1
    <3>1. i \in 1 .. Len(s) - n /\ n + i \in 1 .. Len(s)
      BY <1>1, <2>2
    <3> QED
      BY <1>1, <1>4, <3>1
  <2> QED
    BY <2>1, <2>2
<1>7. Append(rest, e) = SubSeq(t, n + 1, Len(s) + 1)
  BY <1>4, <1>5, <1>6, SeqEqual
<1> QED
  BY <1>2, <1>7 DEF t, rest

(* Moving the border between two slices by one element. *)
LEMMA SlicesOfAck ==
    ASSUME NEW S, NEW s \in Seq(S), NEW n \in Nat, n < Len(s)
    PROVE  /\ SubSeq(s, n + 1, Len(s)) # <<>>
           /\ Head(SubSeq(s, n + 1, Len(s))) = s[n + 1]
           /\ Tail(SubSeq(s, n + 1, Len(s))) = SubSeq(s, n + 2, Len(s))
           /\ SubSeq(s, 1, n + 1) = Append(SubSeq(s, 1, n), s[n + 1])
<1>1. /\ Len(s) \in Nat /\ n + 1 \in 1 .. Len(s) /\ Len(s) \in n + 1 .. Len(s)
      /\ \A i \in 1 .. Len(s) : s[i] \in S
  BY LenProperties, ElementOfSeq
<1>2. /\ Head(SubSeq(s, n + 1, Len(s))) = s[n + 1]
      /\ Tail(SubSeq(s, n + 1, Len(s))) = SubSeq(s, n + 1 + 1, Len(s))
  BY <1>1, HeadTailOfSubSeq
<1>3. SubSeq(s, n + 1, Len(s)) # <<>>
  <2> DEFINE rest == SubSeq(s, n + 1, Len(s))
  <2>1. rest \in Seq(S) /\ Len(rest) = Len(s) - (n + 1) + 1
    BY <1>1, SubSeqProperties
  <2> HIDE DEF rest
  <2>2. Len(rest) # 0
    BY <1>1, <2>1
  <2>3. rest # <<>>
    BY <2>1, <2>2, EmptySeq
  <2> QED
    BY <2>3 DEF rest
<1>4. SubSeq(s, 1, n + 1) = SubSeq(s, 1, n + 1 - 1) \o <<s[n + 1]>>
  BY <1>1, SubSeqRecursiveSecond
<1>5. SubSeq(s, 1, n) \in Seq(S)
  BY <1>1, SubSeqProperties
<1>6. n + 1 - 1 = n /\ n + 1 + 1 = n + 2
  OBVIOUS
<1>7. Append(SubSeq(s, 1, n), s[n + 1]) = SubSeq(s, 1, n) \o <<s[n + 1]>>
  BY <1>1, <1>5, AppendIsConcat
<1> QED
  BY <1>2, <1>3, <1>4, <1>6, <1>7

(* An entry that is nowhere yet, at the end of a log that stays whole. *)
LEMMA WriteLineQueued ==
    ASSUME TypeOK, TypeOK', Durable, Durable', NEW e \in Entries, WriteLine(e), spoiled' = {},
           acked' = acked
    PROVE  /\ spoiled = {} /\ tail = NoTail /\ Parsed' = Append(Parsed, e)
           /\ Pending' = Append(Pending, e) /\ Acked' = Acked
<1>1. tail = NoTail /\ log' = Append(log, e) /\ tail' = NoTail /\ spoiled = {}
  BY DEF WriteLine
<1>2. LogRead /\ LogRead'
  BY <1>1, WholeLog, WholeLogNext
<1>3. /\ Parsed \in Seq(Entries) /\ Parsed = log /\ acked \in 0 .. Len(Parsed)
      /\ Acked = SubSeq(Parsed, 1, acked)
      /\ Parsed' = log' /\ Acked' = SubSeq(Parsed', 1, acked')
  BY <1>1, <1>2, OutboxAssumption DEF LogRead
<1>4. Len(Parsed') = Len(Parsed) + 1
  BY <1>1, <1>3, AppendProperties
<1>5. /\ SubSeq(Append(Parsed, e), 1, acked) = SubSeq(Parsed, 1, acked)
      /\ SubSeq(Append(Parsed, e), acked + 1, Len(Parsed) + 1)
            = Append(SubSeq(Parsed, acked + 1, Len(Parsed)), e)
  BY <1>3, SlicesOfAppend
<1> QED
  BY <1>1, <1>3, <1>4, <1>5 DEF Pending

(* What a crash would find again while a compaction is under way.          *)
THEOREM StaysReplay == Spec => []Replay
<1> USE OutboxAssumption
<1>1. Init => Replay
  BY DEF Init, Replay, Rewriting
<1>2. ASSUME TypeOK, TypeOK', Durable, Durable', Separate, Replay, [Next]_vars,
             Rewriting', Sound'
      PROVE  LET both == doomed' \o kept' IN
             /\ Len(both) <= Len(Parsed')
             /\ \A i \in 1 .. Len(both) : Parsed'[i] = both[i]
             /\ \A i \in Len(both) + 1 .. Len(Parsed') :
                   Parsed'[i] \notin Contents(doomed') \cup Contents(kept') \cup settled' \cup promised'
  <2>0. Sound
    BY <1>2 DEF Sound, Next, AppendBlob, DetachedLine, AckNext, AppendLine, AppendTorn, AppendCancelled,
                CompactReset, CompactRewrite, CompactUnlink, SenderCancelled, DetachedRewrite, Crash,
                WriteLine, vars, disk, file, memory, history
  <2>1. CASE CompactReset
    <3>1. /\ kept' = Pending /\ doomed' = Acked /\ log' = log /\ tail' = tail
          /\ Parsed' = Parsed
      BY <1>2, <2>1 DEF CompactReset, file, history, Parsed, EndsGarbled
    <3>2. LogRead
      BY <1>2, <2>0, WholeLog DEF Sound
    <3>3. /\ Parsed \in Seq(Entries) /\ Len(Parsed) \in Nat /\ acked \in 0 .. Len(Parsed)
          /\ Acked = SubSeq(Parsed, 1, acked) /\ Pending = SubSeq(Parsed, acked + 1, Len(Parsed))
      BY <3>2, LenProperties DEF LogRead, Pending
    <3>4. Acked \o Pending = Parsed
      <4>0. /\ 1 \in 1 .. Len(Parsed) + 1 /\ acked \in 1 - 1 .. Len(Parsed)
            /\ Len(Parsed) \in acked .. Len(Parsed)
        BY <3>3
      <4>1. SubSeq(Parsed, 1, acked) \o SubSeq(Parsed, acked + 1, Len(Parsed))
               = SubSeq(Parsed, 1, Len(Parsed))
        BY <3>3, <4>0, ConcatAdjacentSubSeq
      <4> QED
        BY <3>3, <4>1, SubSeqFull
    <3>5. doomed' \o kept' = Parsed'
      BY <3>1, <3>4
    <3>6. Len(Parsed') \in Nat /\ ~(\E i \in Len(Parsed') + 1 .. Len(Parsed') : TRUE)
      BY <3>1, <3>3
    <3> DEFINE both == doomed' \o kept'
    <3>7. both = Parsed'
      BY <3>5
    <3> HIDE DEF both
    <3> QED
      BY <3>6, <3>7 DEF both
(* The same file and lists. *)
  <2>2. ASSUME Rewriting, UNCHANGED <<Parsed, kept, doomed, settled, promised>>
        PROVE  LET both == doomed' \o kept' IN
               /\ Len(both) <= Len(Parsed')
               /\ \A i \in 1 .. Len(both) : Parsed'[i] = both[i]
               /\ \A i \in Len(both) + 1 .. Len(Parsed') :
                     Parsed'[i] \notin Contents(doomed') \cup Contents(kept') \cup settled' \cup promised'
    BY <1>2, <2>0, <2>2 DEF Replay
(* One more line, of an entry no one has been told of. *)
  <2>3. ASSUME NEW e \in Entries, Rewriting, Parsed' = Append(Parsed, e),
               UNCHANGED <<kept, doomed, settled, promised>>,
               e \notin Contents(doomed) \cup Contents(kept) \cup settled \cup promised
        PROVE  LET both == doomed' \o kept' IN
               /\ Len(both) <= Len(Parsed')
               /\ \A i \in 1 .. Len(both) : Parsed'[i] = both[i]
               /\ \A i \in Len(both) + 1 .. Len(Parsed') :
                     Parsed'[i] \notin Contents(doomed') \cup Contents(kept') \cup settled' \cup promised'
    <3>4. LogRead
      BY <1>2, <2>0, WholeLog DEF Sound
    <3>5. /\ Parsed \in Seq(Entries) /\ Len(Parsed) \in Nat
          /\ Len(Parsed') = Len(Parsed) + 1 /\ Parsed'[Len(Parsed) + 1] = e
          /\ \A i \in 1 .. Len(Parsed) : Parsed'[i] = Parsed[i]
      BY <2>3, <3>4, AppendProperties, LenProperties DEF LogRead
    <3> DEFINE both == doomed \o kept
    <3>7. /\ Len(both) \in Nat /\ Len(both) <= Len(Parsed)
          /\ \A i \in 1 .. Len(both) : Parsed[i] = both[i]
          /\ \A i \in Len(both) + 1 .. Len(Parsed) :
                Parsed[i] \notin Contents(doomed) \cup Contents(kept) \cup settled \cup promised
      <4>1. both \in Seq(Entries)
        BY <1>2, ConcatProperties DEF TypeOK
      <4>2. Len(both) \in Nat
        BY <4>1, LenProperties
      <4> QED
        BY <1>2, <2>0, <2>3, <4>2 DEF Replay
    <3> HIDE DEF both
    <3>8. /\ Len(both) <= Len(Parsed')
          /\ \A i \in 1 .. Len(both) : Parsed'[i] = both[i]
      BY <3>5, <3>7
    <3>9. \A i \in Len(both) + 1 .. Len(Parsed') :
             Parsed'[i] \notin Contents(doomed) \cup Contents(kept) \cup settled \cup promised
      <4> TAKE i \in Len(both) + 1 .. Len(Parsed')
      <4>1. CASE i = Len(Parsed) + 1
        BY <2>3, <3>5, <4>1
      <4>2. CASE i # Len(Parsed) + 1
        <5>1. i \in Len(both) + 1 .. Len(Parsed) /\ i \in 1 .. Len(Parsed)
          BY <3>5, <3>7, <4>2
        <5> QED
          BY <3>5, <3>7, <5>1
      <4> QED
        BY <4>1, <4>2
    <3> QED
      BY <2>3, <3>8, <3>9 DEF both
  <2>4. CASE \E e \in Entries : DetachedLine(e)
    <3>1. PICK e \in Entries : DetachedLine(e)
      BY <2>4
    <3>2. /\ WriteLine(e) /\ e \in detached /\ acked' = acked /\ Rewriting
          /\ UNCHANGED <<kept, doomed, settled, promised>>
      BY <1>2, <3>1 DEF DetachedLine, Rewriting
    <3>3. Parsed' = Append(Parsed, e)
      BY <1>2, <3>2, WriteLineQueued DEF Sound
    <3>4. e \notin Contents(doomed) \cup Contents(kept) \cup settled \cup promised
      BY <1>2, <3>2 DEF Separate, Apart, Compacting
    <3> QED
      BY <2>3, <3>2, <3>3, <3>4
  <2>5. CASE AppendTorn
    <3>1. /\ pc = "line" /\ cur \in Entries /\ log' = log /\ Rewriting /\ tail \notin Entries
          /\ tail' = Torn \/ (tail' = cur /\ tail = NoTail)
          /\ UNCHANGED <<kept, doomed, settled, promised>>
      BY <1>2, <2>5 DEF AppendTorn, TypeOK, Rewriting, Sound
    <3>2. LogRead /\ LogRead'
      BY <1>2, <2>0, WholeLog, WholeLogNext DEF Sound
    <3>3. Parsed = log /\ Parsed' = (IF tail' \in Entries THEN Append(log, tail') ELSE log)
      BY <3>1, <3>2 DEF LogRead
    <3>4. cur \notin Contents(doomed) \cup Contents(kept) \cup settled \cup promised
      BY <1>2, <3>1 DEF Separate, Apart, Compacting
    <3> QED
      BY <2>2, <2>3, <3>1, <3>3, <3>4
  <2>6. CASE \/ UNCHANGED vars \/ AppendCancelled \/ SenderCancelled
             \/ \E e \in Entries : AppendBlob(e)
    <3>1. Rewriting /\ UNCHANGED <<Parsed, kept, doomed, settled, promised>>
      BY <1>2, <2>6 DEF vars, disk, file, memory, history, AppendCancelled, SenderCancelled,
                        AppendBlob, Rewriting, Parsed, EndsGarbled
    <3> QED
      BY <2>2, <3>1
  <2>7. CASE AppendLine
    BY <1>2, <2>7 DEF AppendLine, Rewriting, Sound
  <2>8. CASE \/ CompactRewrite \/ DetachedRewrite \/ CompactUnlink \/ Crash
             \/ \E e \in Entries : AckNext(e)
    <3>1. ~Rewriting'
      BY <1>2, <2>8 DEF CompactRewrite, DetachedRewrite, CompactUnlink, Crash, AckNext, memory,
                        Rewriting, Durable, OneRewrite
    <3> QED
      BY <1>2, <3>1
  <2> QED
    BY <1>2, <2>1, <2>4, <2>5, <2>6, <2>7, <2>8 DEF Next
<1>3. TypeOK /\ TypeOK' /\ Durable /\ Durable' /\ Separate /\ Replay /\ [Next]_vars => Replay'
  BY <1>2 DEF Replay, Contents
<1> QED
  BY <1>1, <1>3, StaysDurable, StaysSeparate, PTL DEF Spec

(* A step that breaks no line is a step of the queue, or none of it.       *)
LEMMA StepQueued ==
    ASSUME TypeOK, TypeOK', Durable, Durable', Separate, Replay, [Next]_vars, Sound'
    PROVE  [Queue!Next]_Queue!vars
<1> USE OutboxAssumption
<1>1. spoiled = {} /\ late = {} /\ spoiled' = {} /\ late' = {} /\ Sound
  BY DEF Sound, Next, AppendBlob, DetachedLine, AckNext, AppendLine, AppendTorn, AppendCancelled, CompactReset,
         CompactRewrite, CompactUnlink, SenderCancelled, DetachedRewrite, Crash, WriteLine,
         vars, disk, file, memory, history
<1>2. LogRead /\ LogRead'
  BY <1>1, WholeLog, WholeLogNext
<1>3. /\ Parsed \in Seq(Entries) /\ Len(Parsed) \in Nat /\ acked \in 0 .. Len(Parsed)
      /\ Acked = SubSeq(Parsed, 1, acked) /\ Pending = SubSeq(Parsed, acked + 1, Len(Parsed))
      /\ Parsed' \in Seq(Entries) /\ Len(Parsed') \in Nat /\ acked' \in 0 .. Len(Parsed')
      /\ Acked' = SubSeq(Parsed', 1, acked') /\ Pending' = SubSeq(Parsed', acked' + 1, Len(Parsed'))
  BY <1>2, LenProperties DEF LogRead, Pending
<1>4. Contents(Acked) \cup Contents(Pending) \subseteq Contents(log) \cup {tail}
  <2>1. /\ Contents(Acked) = {Parsed[i] : i \in {j \in 1 .. Len(Parsed) : j <= acked}}
        /\ Contents(Pending) = {Parsed[i] : i \in acked + 1 .. Len(Parsed)}
        /\ Contents(Parsed) = {Parsed[i] : i \in 1 .. Len(Parsed)}
        /\ Contents(Parsed) \subseteq Contents(log) \cup {tail}
    <3>1. ~Misplaced /\ Apart
      BY <1>2 DEF Separate, LogRead
    <3> QED
      BY <1>3, <3>1, SlicesShape, ParsedApart, ContentsOfSeq
  <2> QED
    BY <1>3, <2>1
(* The same file, cursor and compaction: nothing happens to the queue. *)
<1>5. ASSUME UNCHANGED <<Parsed, acked, promised, settled>>,
             \/ Rewriting /\ Rewriting' /\ UNCHANGED <<kept, doomed>>
             \/ ~Rewriting /\ ~Rewriting'
      PROVE  UNCHANGED Queue!vars
  <2>1. Acked' = Acked /\ Pending' = Pending
    BY <1>3, <1>5
  <2> QED
    BY <1>1, <1>5, <2>1 DEF Queue!vars
(* A new line, outside a compaction's rewriting, is a new entry. *)
<1>6. ASSUME NEW e \in Entries, ~Rewriting, ~Rewriting', UNCHANGED settled,
             e \notin Contents(log) \cup {tail} \cup settled \cup promised,
             Pending' = Append(Pending, e), Acked' = Acked,
             promised' = promised \/ promised' = promised \cup {e}
      PROVE  Queue!Accept(e) \/ Queue!Leak(e)
  <2>1. e \notin Queue!Known
    BY <1>4, <1>6 DEF Queue!Known, Queue!Contents, Contents
  <2> QED
    BY <1>1, <1>6, <2>1 DEF Queue!Accept, Queue!Leak
<1>7. ASSUME NEW e \in Entries, AppendBlob(e)
      PROVE  [Queue!Next]_Queue!vars
  BY <1>5, <1>7 DEF AppendBlob, file, history, Rewriting, Parsed, EndsGarbled
<1>8. ASSUME NEW e \in Entries, DetachedLine(e)
      PROVE  [Queue!Next]_Queue!vars
  <2>1. /\ WriteLine(e) /\ e \in detached
        /\ UNCHANGED <<acked, kept, doomed, promised, settled>> /\ Rewriting' = Rewriting
    BY <1>8 DEF DetachedLine, Rewriting
  <2>2. Pending' = Append(Pending, e) /\ Acked' = Acked
    BY <1>1, <2>1, WriteLineQueued
  <2>3. e \notin Contents(log) \cup {tail} \cup settled \cup promised
    BY <2>1 DEF Separate, Apart
  <2>4. CASE Rewriting
    BY <1>1, <2>1, <2>4 DEF Queue!vars
  <2>5. CASE ~Rewriting
    BY <1>6, <2>1, <2>2, <2>3, <2>5 DEF Queue!Next
  <2> QED
    BY <2>4, <2>5
<1>9. ASSUME NEW e \in Entries, AckNext(e)
      PROVE  [Queue!Next]_Queue!vars
  <2>1. /\ pc = "idle" /\ acked < Len(Parsed) /\ Parsed[acked + 1] = e /\ acked' = acked + 1
        /\ settled' = settled \cup {e} /\ UNCHANGED promised /\ Parsed' = Parsed
        /\ ~Rewriting /\ ~Rewriting'
    BY <1>9 DEF AckNext, file, memory, Rewriting, Parsed, EndsGarbled
  <2>2. /\ Pending # <<>> /\ Head(Pending) = e
        /\ Tail(Pending) = SubSeq(Parsed, acked + 2, Len(Parsed))
        /\ SubSeq(Parsed, 1, acked + 1) = Append(Acked, e)
    BY <1>3, <2>1, SlicesOfAck
  <2>3. acked' + 1 = acked + 2
    BY <1>3, <2>1
  <2>4. Pending' = Tail(Pending) /\ Acked' = Append(Acked, Head(Pending))
    BY <1>3, <2>1, <2>2, <2>3
  <2>5. Queue!Acknowledge
    BY <1>1, <2>1, <2>2, <2>4 DEF Queue!Acknowledge
  <2> QED
    BY <2>5 DEF Queue!Next
<1>10. CASE AppendLine
  <2>1. /\ pc = "line" /\ ~Rewriting /\ ~Rewriting' /\ WriteLine(cur) /\ cur \in Entries
        /\ promised' = promised \cup {cur} /\ UNCHANGED <<acked, settled>>
    BY <1>1, <1>10 DEF AppendLine, Rewriting, TypeOK
  <2>2. Pending' = Append(Pending, cur) /\ Acked' = Acked
    BY <1>1, <2>1, WriteLineQueued
  <2>3. cur \notin Contents(log) \cup {tail} \cup settled \cup promised
    BY <2>1 DEF Separate, Apart
  <2> QED
    BY <1>6, <2>1, <2>2, <2>3 DEF Queue!Next
<1>11. CASE AppendTorn
  <2>1. /\ pc = "line" /\ cur \in Entries /\ log' = log /\ Rewriting' = Rewriting
        /\ UNCHANGED <<acked, promised, settled, kept, doomed>> /\ tail \notin Entries
        /\ tail' = Torn \/ (tail' = cur /\ tail = NoTail)
    BY <1>1, <1>11 DEF AppendTorn, Rewriting, TypeOK
  <2>2. Parsed = log /\ Parsed' = (IF tail' \in Entries THEN Append(log, tail') ELSE log)
    BY <1>2, <2>1 DEF LogRead
  <2>3. CASE tail' = Torn
    BY <1>5, <2>1, <2>2, <2>3
  <2>4. CASE Rewriting
    BY <1>1, <2>1, <2>4 DEF Queue!vars
  <2>5. CASE tail' = cur /\ tail = NoTail /\ ~Rewriting
    <3>1. Parsed' = Append(Parsed, cur)
      BY <2>1, <2>2, <2>5
    <3>2. Len(Parsed') = Len(Parsed) + 1
      BY <1>3, <2>1, <3>1, AppendProperties
    <3>3. /\ SubSeq(Append(Parsed, cur), 1, acked) = SubSeq(Parsed, 1, acked)
          /\ SubSeq(Append(Parsed, cur), acked + 1, Len(Parsed) + 1)
                = Append(SubSeq(Parsed, acked + 1, Len(Parsed)), cur)
      BY <1>3, <2>1, SlicesOfAppend
    <3>4. Pending' = Append(Pending, cur) /\ Acked' = Acked
      BY <1>3, <2>1, <3>1, <3>2, <3>3
    <3>5. cur \notin Contents(log) \cup {tail} \cup settled \cup promised
      BY <2>1 DEF Separate, Apart
    <3> QED
      BY <1>6, <2>1, <2>5, <3>4, <3>5 DEF Queue!Next
  <2> QED
    BY <2>1, <2>3, <2>4, <2>5
<1>12. CASE AppendCancelled
  BY <1>5, <1>12 DEF AppendCancelled, disk, file, history, Rewriting, Parsed, EndsGarbled
<1>13. CASE CompactReset
  BY <1>1, <1>13 DEF CompactReset, history, Rewriting, Queue!vars
<1>14. CASE CompactRewrite \/ DetachedRewrite
  <2>1. /\ Rewriting /\ ~Rewriting' /\ log' = kept /\ tail' = NoTail /\ acked' = 0
        /\ UNCHANGED <<promised, settled>>
    BY <1>14 DEF CompactRewrite, DetachedRewrite, history, Rewriting, Durable, InKept, OneRewrite
  <2>2. Parsed' = kept
    BY <1>2, <2>1 DEF LogRead
  <2>3. Pending' = kept
    BY <1>3, <2>1, <2>2, SubSeqFull
  <2>4. Acked' = <<>>
    <3>1. Acked' \in Seq(Entries) /\ Len(Acked') = 0
      BY <1>3, <2>1, SubSeqProperties
    <3> QED
      BY <3>1, EmptySeq
  <2>5. Queue!Reclaim
    BY <1>1, <2>1, <2>3, <2>4 DEF Queue!Reclaim
  <2> QED
    BY <2>5 DEF Queue!Next
<1>15. CASE CompactUnlink
  BY <1>5, <1>15 DEF CompactUnlink, file, history, Rewriting, Durable, OneRewrite, Parsed, EndsGarbled
<1>16. CASE Crash \/ SenderCancelled
  <2>1. /\ UNCHANGED <<log, tail, acked, promised, settled>> /\ Parsed' = Parsed
        /\ Rewriting' => Rewriting /\ UNCHANGED <<kept, doomed>>
    BY <1>16 DEF Crash, SenderCancelled, disk, file, history, Rewriting, Parsed, EndsGarbled
  <2>2. CASE ~Rewriting \/ Rewriting'
    BY <1>5, <2>1, <2>2
  <2>3. CASE Rewriting /\ ~Rewriting'
    <3> DEFINE both == doomed \o kept
    <3>1. acked = 0 /\ acked' = 0
      BY <2>1, <2>3 DEF Durable, InKept
    <3>2. Pending' = Parsed
      BY <1>3, <2>1, <3>1, SubSeqFull
    <3>3. Acked' = <<>>
      <4>1. Acked' \in Seq(Entries) /\ Len(Acked') = 0
        BY <1>3, <3>1, SubSeqProperties
      <4> QED
        BY <4>1, EmptySeq
    <3>4. /\ both \in Seq(Entries) /\ Len(both) \in Nat
          /\ Len(both) <= Len(Parsed) /\ \A i \in 1 .. Len(both) : Parsed[i] = both[i]
          /\ \A i \in Len(both) + 1 .. Len(Parsed) :
                Parsed[i] \notin Contents(doomed) \cup Contents(kept) \cup settled \cup promised
      <4>1. both \in Seq(Entries)
        BY ConcatProperties DEF TypeOK
      <4>2. Len(both) \in Nat
        BY <4>1, LenProperties
      <4> QED
        BY <1>1, <2>3, <4>1, <4>2 DEF Replay
    <3> HIDE DEF both
    <3>5. SubSeq(Parsed, 1, Len(both)) = both
      <4>1. /\ SubSeq(Parsed, 1, Len(both)) \in Seq(Entries)
            /\ Len(SubSeq(Parsed, 1, Len(both))) = Len(both)
            /\ \A i \in 1 .. Len(both) : SubSeq(Parsed, 1, Len(both))[i] = Parsed[i]
        <5>1. \A i \in 1 .. Len(both) : Parsed[i] \in Entries
          BY <1>3, <3>4, ElementOfSeq
        <5> QED
          BY <1>3, <3>4, <5>1, SubSeqProperties
      <4> QED
        BY <3>4, <4>1, SeqEqual
    <3>6. Queue!Recover
      <4>1. \A i \in Len(both) + 1 .. Len(Parsed) : Parsed[i] \notin Queue!Known
        BY <2>3, <3>4 DEF Queue!Known, Queue!Contents, Contents
      <4>2. /\ Pending' \in Seq(Entries) /\ Len(Pending') >= Len(both)
            /\ SubSeq(Pending', 1, Len(both)) = both
            /\ \A i \in Len(both) + 1 .. Len(Pending') : Pending'[i] \notin Queue!Known
        BY <1>3, <3>2, <3>4, <3>5, <4>1
      <4> QED
        BY <1>1, <2>1, <2>3, <3>3, <4>2 DEF Queue!Recover, both
    <3> QED
      BY <3>6 DEF Queue!Next
  <2> QED
    BY <2>2, <2>3
<1>17. CASE UNCHANGED vars
  BY <1>5, <1>17 DEF vars, disk, file, memory, history, Rewriting, Parsed, EndsGarbled
<1> QED
  BY <1>7, <1>8, <1>9, <1>10, <1>11, <1>12, <1>13, <1>14, <1>15, <1>16, <1>17 DEF Next

(* For the producer and the consumer the files, with their torn and        *)
(* detached writes, their three-step compaction and their crashes, are the *)
(* queue of AtLeastOnceQueue, until a line is glued to a torn one or an    *)
(* append overtakes the thread of a cancelled compaction.                  *)
THEOREM OutboxIsQueue == Spec => ImplementsQueue
<1> USE OutboxAssumption
<1>1. Init => Queue!Init
  <2> SUFFICES ASSUME Init PROVE Queue!Init
    OBVIOUS
  <2>1. Parsed = <<>> /\ acked = 0 /\ ~Rewriting /\ Len(<<>>) = 0
    BY DEF Init, Rewriting, Parsed, EndsGarbled
  <2>2. Pending = <<>> /\ Acked = <<>>
    BY <2>1 DEF Pending, Acked
  <2> QED
    BY <2>1, <2>2 DEF Init, Queue!Init
<1>2. TypeOK /\ TypeOK' /\ Durable /\ Durable' /\ Separate /\ Replay /\ [Next]_vars
         => [Queue!Next]_Queue!vars
  <2> SUFFICES ASSUME TypeOK, TypeOK', Durable, Durable', Separate, Replay, [Next]_vars
               PROVE  [Queue!Next]_Queue!vars
    OBVIOUS
  <2>1. CASE Sound'
    BY <2>1, StepQueued
  <2>2. CASE ~Sound'
    BY <2>2 DEF Sound, Queue!Next, Queue!Break
  <2> QED
    BY <2>1, <2>2
<1> QED
  BY <1>1, <1>2, StaysDurable, StaysSeparate, StaysReplay, PTL DEF Spec, ImplementsQueue, Queue!Spec

-----------------------------------------------------------------------------
(* What the queue promises follows from its own steps alone, so that it    *)
(* holds of whatever implements it.                                        *)
LEMMA QueueStep ==
    ASSUME Queue!TypeOK, Queue!PromiseKept, [Queue!Next]_Queue!vars
    PROVE  Queue!TypeOK' /\ Queue!PromiseKept'
<1> DEFINE pending == IF Rewriting THEN kept ELSE Pending
           done == IF Rewriting THEN doomed ELSE Acked
           broken == spoiled # {} \/ late # {}
<1>1. /\ broken \/ (pending \in Seq(Entries) /\ done \in Seq(Entries))
      /\ broken \/ promised \subseteq settled \cup Contents(pending)
  BY DEF Queue!TypeOK, Queue!PromiseKept, Queue!Contents, Contents
<1>2. SUFFICES ASSUME ~broken'
               PROVE  /\ pending' \in Seq(Entries) /\ done' \in Seq(Entries)
                      /\ promised' \subseteq settled' \cup Contents(pending)'
  BY DEF Queue!TypeOK, Queue!PromiseKept, Queue!Contents, Contents
<1>3. /\ (pending' = pending /\ done' = done /\ promised' = promised /\ settled' = settled
              /\ broken' = broken)
         \/ (\E e \in Entries : pending' = Append(pending, e) /\ promised' \subseteq promised \cup {e}
                                /\ UNCHANGED <<done, settled, broken>>)
         \/ (/\ pending # <<>> /\ pending' = Tail(pending) /\ done' = Append(done, Head(pending))
             /\ settled' = settled \cup {Head(pending)} /\ UNCHANGED <<promised, broken>>)
         \/ (done' = <<>> /\ UNCHANGED <<pending, promised, settled, broken>>)
         \/ (/\ pending' \in Seq(Entries) /\ Len(pending') >= Len(done \o pending)
             /\ SubSeq(pending', 1, Len(done \o pending)) = done \o pending
             /\ done' = <<>> /\ UNCHANGED <<promised, settled, broken>>)
  BY <1>2 DEF Queue!Next, Queue!vars, Queue!Break, Queue!Accept, Queue!Leak, Queue!Acknowledge,
              Queue!Reclaim, Queue!Recover
<1> HIDE DEF pending, done, broken
<1>4. CASE pending' = pending /\ done' = done /\ promised' = promised /\ settled' = settled
           /\ broken' = broken
  BY <1>1, <1>2, <1>4 DEF Contents
<1>5. CASE \E e \in Entries : pending' = Append(pending, e) /\ promised' \subseteq promised \cup {e}
                              /\ UNCHANGED <<done, settled, broken>>
  <2>1. PICK e \in Entries : /\ pending' = Append(pending, e) /\ promised' \subseteq promised \cup {e}
                             /\ UNCHANGED <<done, settled, broken>>
    BY <1>5
  <2>2. pending \in Seq(Entries) /\ done \in Seq(Entries) /\ promised \subseteq settled \cup Contents(pending)
    BY <1>1, <1>2, <2>1
  <2>3. pending' \in Seq(Entries) /\ Contents(pending)' = Contents(pending) \cup {e}
    <3>1. /\ pending' \in Seq(Entries) /\ Len(pending') = Len(pending) + 1
          /\ pending'[Len(pending) + 1] = e /\ \A i \in 1 .. Len(pending) : pending'[i] = pending[i]
      BY <2>1, <2>2, AppendProperties
    <3>2. /\ DOMAIN pending = 1 .. Len(pending) /\ DOMAIN pending' = 1 .. Len(pending) + 1
          /\ Len(pending) \in Nat
      BY <2>2, <3>1
    <3>3. Contents(pending) \cup {e} \subseteq Contents(pending)'
      BY <3>1, <3>2 DEF Contents
    <3>4. ASSUME NEW i \in 1 .. Len(pending) + 1 PROVE pending'[i] \in Contents(pending) \cup {e}
      <4>1. i \in 1 .. Len(pending) \/ i = Len(pending) + 1
        BY <3>2
      <4> QED BY <3>1, <3>2, <4>1 DEF Contents
    <3> QED BY <3>1, <3>2, <3>3, <3>4 DEF Contents
  <2> QED BY <2>1, <2>2, <2>3
<1>6. CASE /\ pending # <<>> /\ pending' = Tail(pending) /\ done' = Append(done, Head(pending))
           /\ settled' = settled \cup {Head(pending)} /\ UNCHANGED <<promised, broken>>
  <2>1. pending \in Seq(Entries) /\ done \in Seq(Entries) /\ promised \subseteq settled \cup Contents(pending)
    BY <1>1, <1>2, <1>6
  <2>2. /\ pending' \in Seq(Entries) /\ Head(pending) \in Entries /\ Len(pending') = Len(pending) - 1
        /\ \A i \in 1 .. Len(pending') : pending'[i] = pending[i + 1]
    BY <1>6, <2>1, HeadTailProperties
  <2>3. done' \in Seq(Entries)
    BY <1>6, <2>1, <2>2, AppendProperties
  <2>4. Contents(pending) \subseteq Contents(pending)' \cup {Head(pending)}
    <3> SUFFICES ASSUME NEW i \in 1 .. Len(pending), i # 1 PROVE pending[i] \in Contents(pending)'
      BY <2>1 DEF Contents
    <3>1. i - 1 \in 1 .. Len(pending') /\ (i - 1) + 1 = i
      BY <2>1, <2>2
    <3>2. pending'[i - 1] = pending[i]
      BY <2>2, <3>1
    <3>3. DOMAIN pending' = 1 .. Len(pending')
      BY <2>2
    <3> QED BY <3>1, <3>2, <3>3 DEF Contents
  <2> QED BY <1>6, <2>1, <2>2, <2>3, <2>4
<1>7. CASE done' = <<>> /\ UNCHANGED <<pending, promised, settled, broken>>
  BY <1>1, <1>2, <1>7, EmptySeq DEF Contents
<1>8. CASE /\ pending' \in Seq(Entries) /\ Len(pending') >= Len(done \o pending)
           /\ SubSeq(pending', 1, Len(done \o pending)) = done \o pending
           /\ done' = <<>> /\ UNCHANGED <<promised, settled, broken>>
  <2>1. pending \in Seq(Entries) /\ done \in Seq(Entries) /\ promised \subseteq settled \cup Contents(pending)
    BY <1>1, <1>2, <1>8
  <2> DEFINE both == done \o pending
  <2>2. /\ both \in Seq(Entries) /\ Len(both) = Len(done) + Len(pending)
        /\ \A i \in 1 .. Len(done) + Len(pending) :
               both[i] = IF i <= Len(done) THEN done[i] ELSE pending[i - Len(done)]
    BY <2>1, ConcatProperties
  <2>3. /\ pending' \in Seq(Entries) /\ Len(pending') >= Len(both) /\ SubSeq(pending', 1, Len(both)) = both
    BY <1>8
  <2> HIDE DEF both
  <2>4. Len(done) \in Nat /\ Len(pending) \in Nat /\ Len(pending') \in Nat /\ Len(both) \in Nat
    BY <2>1, <2>2, <2>3
  <2>5. \A i \in 1 .. Len(both) : i \in 1 .. Len(pending') /\ pending'[i] \in Entries
    BY <2>3, <2>4
  <2>6. \A i \in 1 .. Len(both) : SubSeq(pending', 1, Len(both))[i] = pending'[i]
    BY <2>4, <2>5, SubSeqProperties
  <2>7. Contents(pending) \subseteq Contents(pending)'
    <3> SUFFICES ASSUME NEW i \in 1 .. Len(pending) PROVE pending[i] \in Contents(pending)'
      BY <2>1 DEF Contents
    <3>1. /\ Len(done) + i \in 1 .. Len(both) /\ ~(Len(done) + i <= Len(done))
          /\ (Len(done) + i) - Len(done) = i /\ Len(done) + i \in 1 .. Len(done) + Len(pending)
      BY <2>2, <2>4
    <3>2. both[Len(done) + i] = pending[i]
      BY <2>2, <3>1
    <3>3. pending'[Len(done) + i] = pending[i] /\ Len(done) + i \in 1 .. Len(pending')
      BY <2>3, <2>5, <2>6, <3>1, <3>2
    <3>4. DOMAIN pending' = 1 .. Len(pending')
      BY <2>3
    <3> QED BY <3>3, <3>4 DEF Contents
  <2> QED BY <1>8, <2>1, <2>7, EmptySeq
<1> QED BY <1>3, <1>4, <1>5, <1>6, <1>7, <1>8

(* Every queue of AtLeastOnceQueue keeps its promise, restarts and         *)
(* interrupted appends included ...                                        *)
THEOREM QueueKeepsPromise == Queue!Spec => []Queue!PromiseKept
<1>1. Queue!Init => Queue!TypeOK /\ Queue!PromiseKept
  BY EmptySeq DEF Queue!Init, Queue!TypeOK, Queue!PromiseKept
<1>2. Queue!TypeOK /\ Queue!PromiseKept /\ [Queue!Next]_Queue!vars
         => Queue!TypeOK' /\ Queue!PromiseKept'
  BY QueueStep
<1> QED BY <1>1, <1>2, PTL DEF Queue!Spec

(* ... and so the sender of the outbox, to whom the entries of a running   *)
(* compaction are still to come, misses none whose append returned.        *)
THEOREM OutboxKeepsPromise == Spec => []Queue!PromiseKept
BY OutboxIsQueue, QueueKeepsPromise, PTL DEF ImplementsQueue
=============================================================================
