------------------------------- MODULE Outbox -------------------------------
(***************************************************************************)
(* The client's file-backed outbox: log.jsonl, state.json and blobs/ on    *)
(* disk, the asyncio lock that serializes append, ack_next and compact,    *)
(* the worker threads that do the file operations and outlive a cancelled  *)
(* caller, crashes between any two file operations, and line writes cut    *)
(* short by a crash or a full disk.  An entry stands for its id and        *)
(* payload.                                                                *)
(***************************************************************************)
EXTENDS Naturals, Sequences

CONSTANTS Entries,       \* entry ids append may draw (uuid4: never twice)
          WithBlob,      \* the entries submitted with image bytes
          Garbled,       \* a newline-terminated line that does not parse
          Torn,          \* an unterminated tail that does not parse
          NoTail         \* the file ends in a newline (or is empty)

ASSUME OutboxAssumption ==
    /\ WithBlob \subseteq Entries
    /\ Garbled \notin Entries /\ Torn \notin Entries /\ NoTail \notin Entries
    /\ Torn # NoTail

VARIABLES log,       \* the terminated lines of log.jsonl
          tail,      \* what follows the last newline of log.jsonl
          decodes,   \* log.jsonl is valid UTF-8
          acked,     \* the cursor of state.json
          blobs,     \* entries with a file under blobs/
          pc,        \* what the holder of the lock does next
          cur,       \* append: the entry being appended
          kept,      \* compact: the entries to keep
          doomed,    \* compact: the acked entries whose blobs go
          detached,  \* entries whose line write outlived its cancelled append
          sender,    \* the task that acks and compacts; "rewrites": it is
                     \* cancelled, the thread replacing the log is not
          promised,  \* history: entries whose append returned
          settled,   \* history: entries acked at least once
          spoiled,   \* history: entries whose line was glued to a torn one
          late       \* history: entries appended while a cancelled
                     \* compaction's thread had yet to replace the log

file == <<log, tail, decodes>>
disk == <<file, acked, blobs>>
memory == <<pc, cur, kept, doomed, detached, sender>>
history == <<promised, settled, spoiled, late>>
vars == <<disk, memory, history>>

Contents(s) == {s[i] : i \in DOMAIN s}

-----------------------------------------------------------------------------
(* _read_log: an unparsable line is skipped when nothing follows it and    *)
(* raises anywhere else; bytes that do not decode raise wherever they are. *)
EndsGarbled == log # <<>> /\ log[Len(log)] = Garbled

Misplaced == \E i \in DOMAIN log :
                log[i] = Garbled /\ (i < Len(log) \/ tail # NoTail)

Corrupt == Misplaced \/ ~decodes

Parsed == IF EndsGarbled THEN SubSeq(log, 1, Len(log) - 1)
          ELSE IF tail \in Entries THEN Append(log, tail)
          ELSE log

(* The slices [:acked] and [acked:] of what _read_log returns. *)
Acked == IF acked <= Len(Parsed) THEN SubSeq(Parsed, 1, acked) ELSE Parsed
Pending == SubSeq(Parsed, acked + 1, Len(Parsed))

(* A compaction holds the list that is to replace the log.                 *)
Rewriting == pc = "rewrite" \/ sender = "rewrites"

Used == Contents(log) \cup Contents(kept) \cup Contents(doomed) \cup {tail, cur}
        \cup blobs \cup detached \cup promised \cup settled \cup spoiled

-----------------------------------------------------------------------------
Init == /\ log = <<>> /\ tail = NoTail /\ decodes = TRUE /\ acked = 0 /\ blobs = {}
        /\ pc = "idle" /\ cur = NoTail /\ kept = <<>> /\ doomed = <<>>
        /\ detached = {} /\ sender = "runs"
        /\ promised = {} /\ settled = {} /\ spoiled = {} /\ late = {}

(* append: take the lock and write the blob, before the line that names it. *)
AppendBlob(e) ==
    /\ pc = "idle" /\ e \notin Used
    /\ pc' = "line" /\ cur' = e
    /\ blobs' = blobs \cup ({e} \cap WithBlob)
    /\ UNCHANGED <<file, acked, kept, doomed, detached, sender, history>>

(* _append_line: the line goes to wherever the file ends, so on an         *)
(* unterminated tail it only makes that line longer.                       *)
WriteLine(e) ==
    \/ /\ tail = NoTail
       /\ log' = Append(log, e)
       /\ UNCHANGED <<tail, spoiled>>
    \/ /\ tail # NoTail
       /\ log' = Append(log, Garbled)
       /\ tail' = NoTail
       /\ spoiled' = spoiled \cup {e} \cup ({tail} \cap Entries)

AppendLine ==
    /\ pc = "line"
    /\ WriteLine(cur)
    /\ promised' = promised \cup {cur}
    /\ late' = late \cup (IF sender = "rewrites" THEN {cur} ELSE {})
    /\ pc' = "idle" /\ cur' = NoTail
    /\ UNCHANGED <<decodes, acked, blobs, kept, doomed, detached, sender, settled>>

(* The write stops part way (power loss, full disk): a prefix that does    *)
(* not parse, cut within a character perhaps (json.dumps writes UTF-8), or *)
(* the whole entry without its newline.  append raises.                    *)
AppendTorn ==
    /\ pc = "line"
    /\ \/ tail = NoTail /\ tail' \in {Torn, cur} /\ UNCHANGED spoiled
       \/ /\ tail # NoTail /\ tail' = Torn
          /\ spoiled' = spoiled \cup ({tail} \cap Entries)
    /\ decodes' \in {decodes, decodes /\ tail' # Torn}
    /\ pc' = "idle" /\ cur' = NoTail
    /\ UNCHANGED <<log, acked, blobs, kept, doomed, detached, sender, promised, settled, late>>

(* The caller is cancelled while a thread writes: the lock is released,    *)
(* and the thread writes on (its line, or only the blob: no line follows). *)
AppendCancelled ==
    /\ pc = "line"
    /\ detached' \in {detached, detached \cup {cur}}
    /\ pc' = "idle" /\ cur' = NoTail
    /\ UNCHANGED <<disk, kept, doomed, sender, history>>

DetachedLine(e) ==
    /\ e \in detached
    /\ WriteLine(e)
    /\ detached' = detached \ {e}
    /\ UNCHANGED <<decodes, acked, blobs, pc, cur, kept, doomed, sender, promised, settled, late>>

(* Mistakes the properties below must notice (one stands in for the       *)
(* definition it is named after).                                          *)
AckNextAnyId(e) ==
    /\ pc = "idle" /\ sender = "runs" /\ ~Corrupt /\ e \in Contents(Pending)
    /\ acked' = acked + 1 /\ settled' = settled \cup {e}
    /\ UNCHANGED <<file, blobs, memory, promised, spoiled, late>>

CompactKeepsCursor ==
    /\ pc = "idle" /\ sender = "runs" /\ ~Corrupt /\ acked >= 1
    /\ kept' = Pending /\ doomed' = Acked /\ pc' = "rewrite"
    /\ UNCHANGED <<disk, cur, detached, sender, history>>

CompactUnlinksFirst ==
    /\ pc = "idle" /\ sender = "runs" /\ ~Corrupt /\ acked >= 1
    /\ kept' = Pending /\ doomed' = Acked /\ acked' = 0 /\ pc' = "rewrite"
    /\ blobs' = blobs \ Contents(Acked)
    /\ UNCHANGED <<file, cur, detached, sender, history>>

(* ack_next: only the head of the pending entries moves the cursor. *)
AckNext(e) ==
    /\ pc = "idle" /\ sender = "runs" /\ ~Corrupt
    /\ acked < Len(Parsed) /\ Parsed[acked + 1] = e
    /\ acked' = acked + 1
    /\ settled' = settled \cup {e}
    /\ UNCHANGED <<file, blobs, memory, promised, spoiled, late>>

(* compact: step 1 resets the cursor, step 2 replaces the log, step 3      *)
(* unlinks the blobs (best effort: some may survive).                      *)
CompactReset ==
    /\ pc = "idle" /\ sender = "runs" /\ ~Corrupt /\ acked >= 1
    /\ kept' = Pending
    /\ doomed' = Acked
    /\ acked' = 0
    /\ pc' = "rewrite"
    /\ UNCHANGED <<file, blobs, cur, detached, sender, history>>

CompactRewrite ==
    /\ pc = "rewrite"
    /\ log' = kept /\ tail' = NoTail /\ decodes' = TRUE
    /\ kept' = <<>>
    /\ pc' = "unlink"
    /\ UNCHANGED <<acked, blobs, cur, doomed, detached, sender, history>>

CompactUnlink ==
    /\ pc = "unlink"
    /\ \E unlinked \in SUBSET Contents(doomed) : blobs' = blobs \ unlinked
    /\ doomed' = <<>>
    /\ pc' = "idle"
    /\ UNCHANGED <<file, acked, cur, kept, detached, sender, history>>

(* Quitting, or another task's failure, cancels the sender while the       *)
(* process goes on; a compaction loses the lock.  The thread that writes   *)
(* the new log is not stopped, if it has begun: it replaces the log later, *)
(* whatever the last appends have put there.  (A cursor written late is    *)
(* the one of AckNext or CompactReset: no append reads or moves it.)       *)
SenderCancelled ==
    /\ sender = "runs"
    /\ \/ /\ pc = "rewrite" /\ sender' = "rewrites"
          /\ UNCHANGED <<kept, doomed>>
       \/ sender' = "stopped" /\ kept' = <<>> /\ doomed' = <<>>
    /\ pc' = IF pc = "line" THEN "line" ELSE "idle"
    /\ UNCHANGED <<disk, cur, detached, history>>

DetachedRewrite ==
    /\ sender = "rewrites"
    /\ log' = kept /\ tail' = NoTail /\ decodes' = TRUE
    /\ kept' = <<>> /\ doomed' = <<>>
    /\ sender' = "stopped"
    /\ UNCHANGED <<acked, blobs, pc, cur, detached, history>>

(* The process dies: the lock, its holder and all threads go with it.  The *)
(* next one has a new sender.                                              *)
Crash ==
    /\ pc' = "idle" /\ cur' = NoTail /\ kept' = <<>> /\ doomed' = <<>>
    /\ detached' = {} /\ sender' = "runs"
    /\ UNCHANGED <<disk, history>>

Next == \/ \E e \in Entries : AppendBlob(e) \/ DetachedLine(e) \/ AckNext(e)
        \/ AppendLine \/ AppendTorn \/ AppendCancelled
        \/ CompactReset \/ CompactRewrite \/ CompactUnlink
        \/ SenderCancelled \/ DetachedRewrite \/ Crash

Spec == Init /\ [][Next]_vars

-----------------------------------------------------------------------------
TypeOK ==
    /\ log \in Seq(Entries \cup {Garbled})
    /\ tail \in Entries \cup {Torn, NoTail}
    /\ decodes \in BOOLEAN
    /\ acked \in Nat
    /\ blobs \subseteq Entries
    /\ pc \in {"idle", "line", "rewrite", "unlink"}
    /\ cur \in IF pc = "line" THEN Entries ELSE {NoTail}
    /\ kept \in Seq(Entries) /\ doomed \in Seq(Entries)
    /\ detached \subseteq Entries
    /\ sender \in {"runs", "rewrites", "stopped"}
    /\ promised \subseteq Entries /\ settled \subseteq Entries
    /\ spoiled \subseteq Entries /\ late \subseteq Entries

(* No append that returned is ever forgotten: the entry was acked, or its  *)
(* line is on disk beyond the cursor, and also in the list a compaction,   *)
(* cancelled or not, is about to replace the log by.  The exceptions the   *)
(* code has are a line glued to a torn one, and a line appended before the *)
(* thread of a cancelled compaction has replaced the log.  Crashes and     *)
(* cancellations between the three steps of compact must not lose any.     *)
NothingLost ==
    LET safe == settled \cup spoiled \cup late IN
    /\ promised \subseteq safe \cup {log[i] : i \in acked + 1 .. Len(log)}
    /\ Rewriting => promised \subseteq safe \cup Contents(kept)

(* An entry the sender can be shown, again after a crash included, still   *)
(* has its image on disk: the blob is written before the line that names   *)
(* it, and unlinked after the log has forgotten it.                        *)
BlobsOutliveLines ==
    (Contents(log) \cup {tail}) \cap WithBlob \subseteq blobs

(* The cursor never points past the log, whatever step of compact a crash  *)
(* interrupts, unless a line was glued to a torn one.                      *)
CursorInLog == spoiled = {} => acked <= Len(Parsed)

(* The outbox implements the queue: what a compaction has still to drop    *)
(* counts as done until the new log is in place.                           *)
Queue == INSTANCE AtLeastOnceQueue WITH
            pending <- IF Rewriting THEN kept ELSE Pending,
            done    <- IF Rewriting THEN doomed ELSE Acked,
            broken  <- spoiled # {} \/ late # {}

ImplementsQueue == Queue!Spec

-----------------------------------------------------------------------------
(* compact's docstring, "at-least-once delivery is preserved and no data   *)
(* is lost": unless a line was glued to a torn one, an append that         *)
(* returned is acked or on disk beyond the cursor.                         *)
NoDataLost ==
    promised \subseteq settled \cup spoiled \cup {log[i] : i \in acked + 1 .. Len(log)}

(* Module docstring, "if we crash between line write and ack, the next     *)
(* sender re-reads and re-sends, which is exactly the at-least-once        *)
(* delivery semantics we want": an append that returned is acked or is     *)
(* among the pending entries of the next reader.                           *)
ReturnedIsPendingOrAcked ==
    pc = "idle" => promised \subseteq settled \cup Contents(Pending)

(* Module docstring, leaked blobs "will be garbage-collected on next       *)
(* compaction": once a compaction unlinks, no blob is left that neither a  *)
(* line nor a running append owns and that is not the compaction's own.    *)
LeakedBlobsSwept ==
    [][CompactUnlink /\ blobs' # blobs =>
         blobs' \subseteq Contents(log) \cup {tail} \cup detached \cup Contents(doomed)]_vars
=============================================================================
